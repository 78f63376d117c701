------------------------- MODULE SessionTurnsProofs -------------------------
(***************************************************************************)
(* Every safety invariant of SessionTurns holds for any number of agents,  *)
(* slots, turns, requests and interrupts; and the turns of a host use its  *)
(* slots as a first-come-first-served semaphore, whatever their loops and  *)
(* the people they ask do.                                                 *)
(*                                                                         *)
(* None of the invariants is inductive: that a running loop holds a slot,  *)
(* say, depends on which turn decide() finds in turnSlots, and that on the *)
(* order in which drain() takes turns.  The inductive invariant IInv is    *)
(* built in layers, each of which is preserved because of those before it: *)
(*   1. types, the slots of the host (proved in TurnSlotsProofs), and the  *)
(*      count of requests and decisions;                                   *)
(*   2. DrainsInOrder: the turns of an agent run one at a time, in order;  *)
(*   3. Matched: a turn agrees with its loop, its handle and its stream,   *)
(*      and once a send was rejected every later one of the agent is;      *)
(*   4. SlotsMatch: the slot of a turn agrees with its loop and with the   *)
(*      request it waits for, also when decide() found the holder of       *)
(*      another turn;                                                      *)
(*   5. StatesMatch: the session's state agrees with its turns.            *)
(***************************************************************************)
EXTENDS SessionTurns, FiniteSetTheorems, TLAPS

\* What is proved of the class TurnSlots, for the turns of this host.
SlotProofs == INSTANCE TurnSlotsProofs WITH Ticket <- Turn

\* A turn is an agent and a serial number.
LEMMA TurnParts ==
  /\ \A t \in Turn : /\ t[1] \in Agent /\ t[2] \in 1..MaxTurns
                     /\ t = <<t[1], t[2]>>
  /\ \A a \in Agent, n \in 1..MaxTurns :
       /\ <<a, n>> \in Turn /\ <<a, n>>[1] = a /\ <<a, n>>[2] = n
  /\ \A t, u \in Turn : t[1] = u[1] /\ t[2] = u[2] => t = u
BY DEF Turn

\* A host has finitely many turns.
LEMMA TurnFinite == IsFiniteSet(Turn)
<1>1. MaxTurns \in Nat /\ IsFiniteSet(Agent)
  BY TurnsAssumption
<1>2. IsFiniteSet(1..MaxTurns)
  BY <1>1, FS_Interval
<1> QED
  BY <1>1, <1>2, FS_Product DEF Turn

\* The class TurnSlots is given what it assumes.
LEMMA SlotsHaveTurns == SlotProofs!SlotsAssumption
<1>1. \A S : SlotProofs!IsFiniteSet(S) = IsFiniteSet(S)
  BY Zenon DEF SlotProofs!IsFiniteSet, IsFiniteSet
<1> QED
  BY <1>1, TurnsAssumption, TurnFinite DEF SlotProofs!SlotsAssumption

SlotInv == Slots!TypeOK /\ Slots!SlotSafety

\* The inductive invariant of TurnSlots.
LEMMA SlotInvIs == SlotInv <=> SlotProofs!IInv
BY Zenon
   DEF SlotInv, SlotProofs!IInv, Slots!TypeOK, SlotProofs!TypeOK,
       Slots!Phases, SlotProofs!Phases, Slots!SlotSafety,
       SlotProofs!SlotSafety, Slots!QueueIsQueued, SlotProofs!QueueIsQueued,
       Slots!HeldIsOwned, SlotProofs!HeldIsOwned, Slots!Owners,
       SlotProofs!Owners, Slots!WithinCap, SlotProofs!WithinCap,
       Slots!WaitingMeansFull, SlotProofs!WaitingMeansFull,
       Slots!Cardinality, SlotProofs!Cardinality

\* The steps of the slots are those that TurnSlotsProofs is about.
LEMMA SameSteps ==
  ASSUME [Slots!Next]_slotVars
  PROVE  [SlotProofs!Next]_(SlotProofs!slotVars)
<1>1. ASSUME NEW k \in Turn, Slots!Step(k) PROVE SlotProofs!Step(k)
  BY <1>1
     DEF Slots!Step, Slots!TakeSlot, Slots!JoinQueue, Slots!Resume,
         Slots!Release, Slots!FirstCall, Slots!GiveBack, Slots!MustQueue,
         Slots!slotVars,
         SlotProofs!Step, SlotProofs!TakeSlot, SlotProofs!JoinQueue,
         SlotProofs!Resume, SlotProofs!Release, SlotProofs!FirstCall,
         SlotProofs!GiveBack, SlotProofs!MustQueue, SlotProofs!slotVars
<1>2. UNCHANGED slotVars => UNCHANGED SlotProofs!slotVars
  BY DEF slotVars, SlotProofs!slotVars
<1> QED
  BY <1>1, <1>2 DEF Slots!Next, SlotProofs!Next

\* The slots stay safe whatever is called.
LEMMA SlotsStep == ASSUME SlotInv, [Slots!Next]_slotVars PROVE SlotInv'
<1>1. [SlotProofs!Next]_SlotProofs!slotVars
  BY SameSteps
<1>2. SlotInv' <=> SlotProofs!IInv'
  BY Zenon
     DEF SlotInv, SlotProofs!IInv, Slots!TypeOK, SlotProofs!TypeOK,
         Slots!Phases, SlotProofs!Phases, Slots!SlotSafety,
         SlotProofs!SlotSafety, Slots!QueueIsQueued, SlotProofs!QueueIsQueued,
         Slots!HeldIsOwned, SlotProofs!HeldIsOwned, Slots!Owners,
         SlotProofs!Owners, Slots!WithinCap, SlotProofs!WithinCap,
         Slots!WaitingMeansFull, SlotProofs!WaitingMeansFull,
         Slots!Cardinality, SlotProofs!Cardinality
<1> QED
  BY <1>1, <1>2, SlotInvIs, SlotProofs!StepIInv, SlotsHaveTurns

\* Each request that reached a person was decided or still may be, once; and
\* a turn that queues again for its slot had one.
AskCounted(t) ==
  /\ asks[t] = IF ask[t] \in {"appending", "logged", "pending"}
               THEN decided[t] + 1 ELSE decided[t]
  /\ ask[t] = "requeued" => Reacquires(t)

AsksCounted == \A t \in Turn : AskCounted(t)

\* What the actions of a session do to the slots of the host.
LEMMA NextSlots ==
  ASSUME TypeOK, AsksCounted, Next
  PROVE  [Slots!Next]_slotVars
<1>1. ASSUME NEW t \in Turn, TypeOK, t[1] \in Agent,
             ReleaseWhileAsking(t)
      PROVE  [Slots!Next]_slotVars
  <2>1. turnSlots[t[1]] \in 0..MaxTurns
    BY <1>1 DEF TypeOK
  <2>2. CASE turnSlots[t[1]] = 0
    BY <1>1, <2>2 DEF ReleaseWhileAsking
  <2>3. CASE turnSlots[t[1]] # 0
    <3>1. <<t[1], turnSlots[t[1]]>> \in Turn
      BY <2>1, <2>3, <1>1, TurnParts, TurnsAssumption
    <3> QED
      BY <1>1, <2>3, <3>1 DEF ReleaseWhileAsking, Slots!Next, Slots!Step
  <2> QED
    BY <2>2, <2>3
<1>2. ASSUME NEW t \in Turn, Reacquires(t)
      PROVE  <<t[1], holderOf[t]>> \in Turn
  BY <1>2, TurnParts, TurnsAssumption DEF Reacquires, TypeOK
<1>3. ASSUME NEW a \in Agent, Send(a) \/ Interrupt(a) \/ InterruptStep(a)
      PROVE  UNCHANGED slotVars
  BY <1>3 DEF Send, Interrupt, InterruptStep, InterruptArrives,
     InterruptLogged, slotVars
<1>4. ASSUME NEW t \in Turn, TurnStep(t)
      PROVE  [Slots!Next]_slotVars
  BY <1>4 DEF TurnStep, Opened, Prepared, TakesSlot, WaitsForSlot, GotSlot,
     LoopEnds, Settle, Finish, Throw, ReleaseTurn, Slots!Next, Slots!Step
<1>5. ASSUME NEW t \in Turn, AskStep(t)
      PROVE  [Slots!Next]_slotVars
  <2>1. t[1] \in Agent
    BY TurnParts
  <2>2. CASE AskOpens(t)
    BY <1>1, <2>1, <2>2 DEF AskOpens
  <2>3. CASE RetakeSlot(t) \/ QueueAgain(t) \/ SlotAgain(t)
    <3>1. <<t[1], holderOf[t]>> \in Turn
      BY <1>2, <2>3 DEF RetakeSlot, QueueAgain, SlotAgain, AsksCounted,
         AskCounted
    <3> QED
      BY <2>3, <3>1 DEF RetakeSlot, QueueAgain, SlotAgain, Slots!Next,
         Slots!Step
  <2>4. CASE AskLogged(t) \/ Answered(t) \/ ResumeWithoutSlot(t)
    BY <2>4 DEF AskLogged, Answered, ResumeWithoutSlot, slotVars
  <2> QED
    BY <1>5, <2>2, <2>3, <2>4 DEF AskStep
<1>6. ASSUME NEW t \in Turn, OpenFails(t) \/ PrepareFails(t) \/ FinishFails(t)
                             \/ QuotaWaits(t) \/ Asks(t) \/ Respond(t)
      PROVE  UNCHANGED slotVars
  BY <1>6 DEF OpenFails, PrepareFails, FinishFails, QuotaWaits, Asks, Respond,
     slotVars
<1>8. ASSUME NEW t \in Turn, PumpFails(t)
      PROVE  [Slots!Next]_slotVars
  BY <1>8 DEF PumpFails, ReleaseTurn, Slots!Next, Slots!Step
<1>7. HostExit => UNCHANGED slotVars
  BY DEF HostExit, slotVars
<1> QED
  BY <1>3, <1>4, <1>5, <1>6, <1>7, <1>8 DEF Next, Breaks

----------------------------------------------------------------------------
\* The first layer: types, the slots, and the requests.

\* A host that has just started.
LEMMA InitTyped == Init => TypeOK /\ AsksCounted /\ SlotInv
<1> SUFFICES ASSUME Init PROVE TypeOK /\ AsksCounted /\ SlotInv
  OBVIOUS
<1>1. SlotInv
  <2>1. SlotProofs!Init
    BY Zenon DEF Init, Slots!Init, SlotProofs!Init
  <2> QED
    BY <2>1, SlotProofs!InitIInv, SlotsHaveTurns, SlotInvIs
<1>2. TypeOK
  <2>1. [FreshLink EXCEPT !.ctl = "none"] \in
          [ctl : {"none", "wired", "stale"}, aborted : BOOLEAN,
           stream : {"none", "open", "closed"}]
    BY DEF FreshLink
  <2>2. queue \in [Agent -> Seq(1..MaxTurns)]
    BY DEF Init
  <2> QED
    BY <1>1, <2>1, <2>2, TurnsAssumption DEF Init, TypeOK, SlotInv
<1>3. AsksCounted
  BY DEF Init, AsksCounted, AskCounted
<1> QED
  BY <1>1, <1>2, <1>3

\* The sessions call the slots as any caller may.
LEMMA StepSlotInv ==
  ASSUME TypeOK, AsksCounted, SlotInv, Next
  PROVE  SlotInv'
BY NextSlots, SlotsStep

\* A request is counted when it is made and decided once.
LEMMA StepAsksCounted ==
  ASSUME TypeOK, AsksCounted, Next
  PROVE  AsksCounted'
<1>1. ASSUME UNCHANGED <<ask, asks, decided, holderOf>> PROVE AsksCounted'
  BY <1>1 DEF AsksCounted, AskCounted, Reacquires
<1>2. ASSUME NEW a \in Agent, Send(a) \/ Interrupt(a) \/ InterruptStep(a)
      PROVE  AsksCounted'
  BY <1>1, <1>2
     DEF Send, Interrupt, InterruptStep, InterruptArrives, InterruptLogged,
         askVars, agentVars
<1>3. ASSUME NEW t \in Turn, TurnStep(t) \/ Breaks(t) \/ QuotaWaits(t)
      PROVE  AsksCounted'
  BY <1>1, <1>3 DEF TurnStep, Breaks, OpenFails, PrepareFails, PumpFails,
     FinishFails, QuotaWaits, Opened, Prepared,
     TakesSlot, WaitsForSlot, GotSlot, LoopEnds, Settle, Finish, Throw,
     askVars, agentVars
<1>4. ASSUME NEW t \in Turn, AskStep(t) \/ Asks(t) \/ Respond(t)
      PROVE  AsksCounted'
  <2> SUFFICES ASSUME NEW u \in Turn PROVE AskCounted(u)'
    BY DEF AsksCounted
  <2> USE DEF AsksCounted, AskCounted, Reacquires, TypeOK, askVars, agentVars
  <2>1. CASE AskLogged(t)
    BY <2>1 DEF AskLogged
  <2>2. CASE AskOpens(t)
    BY <2>2 DEF AskOpens
  <2>3. CASE Answered(t)
    BY <2>3 DEF Answered
  <2>4. CASE ResumeWithoutSlot(t)
    BY <2>4 DEF ResumeWithoutSlot, DeliverDecision
  <2>5. CASE RetakeSlot(t)
    BY <2>5 DEF RetakeSlot, DeliverDecision
  <2>6. CASE QueueAgain(t)
    BY <2>6 DEF QueueAgain
  <2>7. CASE SlotAgain(t)
    BY <2>7 DEF SlotAgain, DeliverDecision
  <2>8. CASE Asks(t)
    BY <2>8 DEF Asks
  <2>9. CASE Respond(t)
    BY <2>9 DEF Respond, Pending
  <2> QED
    BY <1>4, <2>1, <2>2, <2>3, <2>4, <2>5, <2>6, <2>7, <2>8, <2>9 DEF AskStep
<1>5. HostExit => AsksCounted'
  BY <1>1 DEF HostExit, askVars, agentVars
<1> QED
  BY <1>2, <1>3, <1>4, <1>5 DEF Next

\* The fields of a link.
LinkType == [ctl : {"none", "wired", "stale"}, aborted : BOOLEAN,
             stream : {"none", "open", "closed"}]

\* An assignment to one field leaves a link.
LEMMA LinkFields ==
  ASSUME NEW l \in LinkType
  PROVE  /\ \A c \in {"none", "wired", "stale"} :
              [l EXCEPT !.ctl = c] \in LinkType
         /\ \A s \in {"none", "open", "closed"} :
              [l EXCEPT !.stream = s] \in LinkType
         /\ \A b \in BOOLEAN : [l EXCEPT !.aborted = b] \in LinkType
         /\ l.ctl \in {"none", "wired", "stale"} /\ l.aborted \in BOOLEAN
         /\ l.stream \in {"none", "open", "closed"}
BY DEF LinkType

\* TypeOK says so of every link.
LEMMA LinkTyped == TypeOK => link \in [Agent -> LinkType]
BY DEF TypeOK, LinkType

PcType == {"unsent", "queued"} \cup ActivePcs \cup EndPcs
StateType == {"awaiting_input", "working", "awaiting_permission", "failed"}

\* Where a turn that is started can be.
LEMMA StartOfType == \A a : StartOf(a) \in PcType
BY DEF StartOf, ActivePcs, PcType

\* The types of what several actions have in common: openHandle,
LEMMA OpenLinkType ==
  ASSUME TypeOK, NEW a \in Agent, OpenLink(a)
  PROVE  link' \in [Agent -> LinkType]
<1>1. FreshLink \in LinkType
  BY DEF FreshLink, LinkType
<1> QED
  BY <1>1, LinkTyped DEF OpenLink

\* ... contextFor,
LEMMA ReplaceControllerType ==
  ASSUME TypeOK, NEW a \in Agent, ReplaceController(a)
  PROVE  link' \in [Agent -> LinkType]
BY LinkTyped, LinkFields DEF ReplaceController

\* ... the end of a turn in drain,
LEMMA DrainNextType ==
  ASSUME TypeOK, NEW t \in Turn, NEW result \in EndPcs, DrainNext(t, result)
  PROVE  /\ pc' \in [Turn -> PcType]
         /\ draining' \in [Agent -> BOOLEAN]
         /\ queue' \in [Agent -> Seq(1..MaxTurns)]
         /\ link' \in [Agent -> LinkType]
<1> DEFINE a == t[1]
<1>1. a \in Agent
  BY TurnParts
<1>2. queue \in [Agent -> Seq(1..MaxTurns)] /\ draining \in [Agent -> BOOLEAN]
  BY DEF TypeOK
<1>3. pc \in [Turn -> PcType] /\ result \in PcType
  BY DEF TypeOK, PcType
<1> HIDE DEF a
<1>4. CASE queue[a] = <<>>
  BY <1>2, <1>3, <1>4, LinkTyped DEF DrainNext, a
<1>5. CASE queue[a] # <<>>
  <2>1. Tail(queue[a]) \in Seq(1..MaxTurns)
    BY <1>1, <1>2, <1>5
  <2>2. link' \in [Agent -> LinkType] /\ draining' = draining
    BY <1>1, <1>5, OpenLinkType DEF DrainNext, a
  <2>3. pc' \in [Turn -> PcType]
    BY <1>3, <1>5, StartOfType DEF DrainNext, a
  <2>4. queue' \in [Agent -> Seq(1..MaxTurns)]
    BY <1>2, <1>5, <2>1 DEF DrainNext, a
  <2> QED
    BY <1>2, <2>2, <2>3, <2>4
<1> QED
  BY <1>4, <1>5

\* ... the answer to a loop,
LEMMA DeliverDecisionType ==
  ASSUME TypeOK, NEW t \in Turn, DeliverDecision(t)
  PROVE  /\ ask' \in [Turn -> {"none", "appending", "logged", "pending",
                               "answering", "resuming", "requeued"}]
         /\ loop' \in [Turn -> {"off", "thinking", "asking", "ended",
                                "refused"}]
BY DEF DeliverDecision, TypeOK

\* ... handle.send with its holder,
LEMMA SendToType ==
  ASSUME TypeOK, NEW t \in Turn, SendTo(t)
  PROVE  /\ pc' \in [Turn -> PcType]
         /\ turnSlots' \in [Agent -> 0..MaxTurns]
         /\ loop' \in [Turn -> {"off", "thinking", "asking", "ended",
                                "refused"}]
<1>1. t[1] \in Agent /\ t[2] \in 0..MaxTurns
  BY TurnParts, TurnsAssumption
<1> QED
  BY <1>1 DEF SendTo, TypeOK, ActivePcs, PcType

\* ... turnSlots.delete,
LEMMA TurnSlotsType ==
  ASSUME TypeOK, NEW a \in Agent
  PROVE  [turnSlots EXCEPT ![a] = 0] \in [Agent -> 0..MaxTurns]
<1>1. turnSlots \in [Agent -> 0..MaxTurns]
  BY DEF TypeOK
<1>2. 0 \in 0..MaxTurns
  BY TurnsAssumption
<1> QED
  BY <1>1, <1>2

\* ... the push of send,
LEMMA QueueType ==
  ASSUME TypeOK, NEW a \in Agent, NEW n \in 1..MaxTurns
  PROVE  [queue EXCEPT ![a] = Append(@, n)] \in [Agent -> Seq(1..MaxTurns)]
<1>1. queue \in [Agent -> Seq(1..MaxTurns)]
  BY DEF TypeOK
<1>2. Append(queue[a], n) \in Seq(1..MaxTurns)
  BY <1>1
<1> QED
  BY <1>1, <1>2

\* ... and the end of a stream.
LEMMA CloseStreamType ==
  ASSUME TypeOK, NEW a \in Agent
  PROVE  [link EXCEPT ![a].stream = "closed"] \in [Agent -> LinkType]
BY LinkTyped, LinkFields

\* The link of a turn whose stream opens, closes or is dropped.
LEMMA TurnLinkType ==
  ASSUME TypeOK, NEW t \in Turn, Opened(t) \/ LoopEnds(t) \/ Settle(t)
  PROVE  link' \in [Agent -> LinkType]
<1>1. t[1] \in Agent /\ link[t[1]] \in LinkType /\ link \in [Agent -> LinkType]
  BY TurnParts, LinkTyped
<1>2. CASE Opened(t)
  <2>1. [link[t[1]] EXCEPT !.stream = "open"] \in LinkType
    BY <1>1, LinkFields
  <2> QED
    BY <1>1, <1>2, <2>1 DEF Opened
<1>3. CASE LoopEnds(t)
  <2>1. [link[t[1]] EXCEPT !.stream = "closed"] \in LinkType
    BY <1>1, LinkFields
  <2> QED
    BY <1>1, <1>3, <2>1 DEF LoopEnds
<1>4. CASE Settle(t)
  <2>1. [link[t[1]] EXCEPT !.ctl = "none"] \in LinkType
    BY <1>1, LinkFields
  <2> QED
    BY <1>1, <1>4, <2>1 DEF Settle
<1> QED
  BY <1>2, <1>3, <1>4

\* Every action keeps the types.
LEMMA StepTypeOK ==
  ASSUME TypeOK, AsksCounted, SlotInv, Next
  PROVE  TypeOK'
<1>1. Slots!TypeOK' /\ AsksCounted'
  BY StepSlotInv, StepAsksCounted DEF SlotInv
<1>2. \A t \in Turn : t[1] \in Agent
  BY TurnParts
<1> USE <1>1, TurnsAssumption
        DEF TypeOK, PcType, hostVars, askVars, agentVars, envVars
<1>3. ASSUME link' \in [Agent -> LinkType]
      PROVE  link' \in [Agent -> [ctl : {"none", "wired", "stale"},
                                   aborted : BOOLEAN,
                                   stream : {"none", "open", "closed"}]]
  BY <1>3 DEF LinkType
<1>4. ASSUME NEW a \in Agent, Send(a) PROVE TypeOK'
  <2>1. sent' \in [Agent -> 0..MaxTurns] /\ sent[a] + 1 \in 1..MaxTurns
    BY <1>4 DEF Send
  <2>2. CASE MayDrain(a)
    <3>1. link' \in [Agent -> LinkType]
      BY <1>4, <2>2, OpenLinkType DEF Send
    <3>2. StartOf(a) \in PcType
      BY StartOfType
    <3>3. pc' \in [Turn -> PcType] /\ draining' \in [Agent -> BOOLEAN]
      <4> HIDE DEF PcType
      <4>1. pc \in [Turn -> PcType] /\ draining \in [Agent -> BOOLEAN]
        BY DEF PcType
      <4> HIDE DEF TypeOK
      <4> QED
        BY <1>4, <2>2, <3>2, <4>1 DEF Send
    <3>4. UNCHANGED <<queue, state, status, hasHandle, askVars, loop, asks,
                      envVars, slotVars>>
      BY <1>4, <2>2 DEF Send
    <3> QED
      BY <1>3, <2>1, <3>1, <3>3, <3>4
  <2>3. CASE ~MayDrain(a)
    <3> HIDE DEF TypeOK
    <3>1. queue' = [queue EXCEPT ![a] = Append(@, sent[a] + 1)]
      BY <1>4, <2>3 DEF Send
    <3>2. queue' \in [Agent -> Seq(1..MaxTurns)]
      BY <2>1, <3>1, QueueType
    <3> QED
      BY <1>4, <2>1, <2>3, <3>2 DEF Send, TypeOK
  <2> QED
    BY <2>2, <2>3
<1>5. ASSUME NEW a \in Agent, Interrupt(a) PROVE TypeOK'
  <2>1. link' \in [Agent -> LinkType]
    <3> HIDE DEF TypeOK
    <3>1. link[a] \in LinkType /\ link \in [Agent -> LinkType]
      BY LinkTyped
    <3>2. (link[a].aborted \/ link[a].ctl = "wired") \in BOOLEAN
      OBVIOUS
    <3>3. [link[a] EXCEPT !.aborted = @ \/ link[a].ctl = "wired"] \in LinkType
      BY <3>1, <3>2, LinkFields
    <3> QED
      BY <1>5, <3>1, <3>3 DEF Interrupt
  <2> QED
    BY <1>3, <1>5, <2>1, SMTT(30) DEF Interrupt
<1>6. ASSUME NEW a \in Agent, InterruptStep(a) PROVE TypeOK'
  <2>2. CASE InterruptArrives(a)
    <3>1. CASE link[a].stream = "open"
      <4> HIDE DEF TypeOK
      <4>1. link' \in [Agent -> LinkType]
        BY <2>2, <3>1, CloseStreamType DEF InterruptArrives
      <4>2. loop' \in [Turn -> {"off", "thinking", "asking", "ended",
                                "refused"}]
        BY <2>2, <3>1 DEF InterruptArrives, TypeOK
      <4> QED
        BY <1>3, <2>2, <3>1, <4>1, <4>2 DEF InterruptArrives, TypeOK
    <3>2. CASE link[a].stream # "open"
      BY <2>2, <3>2 DEF InterruptArrives
    <3> QED
      BY <3>1, <3>2
  <2>3. CASE InterruptLogged(a)
    BY <2>3 DEF InterruptLogged
  <2> QED
    BY <1>6, <2>2, <2>3 DEF InterruptStep
<1>7. ASSUME NEW t \in Turn, TurnStep(t) PROVE TypeOK'
  <2>1. CASE Opened(t)
    <3>1. link' \in [Agent -> LinkType]
      BY <2>1, TurnLinkType
    <3> QED
      BY <1>3, <2>1, <3>1 DEF Opened, ActivePcs
  <2>2. CASE Prepared(t)
    BY <2>2 DEF Prepared, ActivePcs
  <2>3. CASE TakesSlot(t) \/ GotSlot(t)
    BY <2>3, SendToType, SMTT(30) DEF TakesSlot, GotSlot
  <2>4. CASE WaitsForSlot(t)
    <3>1. link' \in [Agent -> LinkType]
      BY <1>2, <2>4, ReplaceControllerType DEF WaitsForSlot
    <3> QED
      BY <1>3, <2>4, <3>1 DEF WaitsForSlot, ActivePcs
  <2>5. CASE LoopEnds(t)
    <3>1. link' \in [Agent -> LinkType]
      BY <2>5, TurnLinkType
    <3> QED
      BY <1>3, <2>5, <3>1 DEF LoopEnds
  <2>6. CASE Settle(t)
    <3>1. link' \in [Agent -> LinkType]
      BY <2>6, TurnLinkType
    <3>2. status' \in [Agent -> {"idle", "running", "stopped"}]
      BY <2>6 DEF Settle
    <3>3. turnSlots' \in [Agent -> 0..MaxTurns]
      BY <1>2, <2>6, TurnSlotsType DEF Settle
    <3> QED
      BY <1>3, <2>6, <3>1, <3>2, <3>3 DEF Settle, ActivePcs, DropHandle
  <2>7. CASE Finish(t)
    <3>1. "done" \in EndPcs
      BY DEF EndPcs
    <3> QED
      BY <1>3, <2>7, <3>1, DrainNextType DEF Finish, StateOfStop
  <2>8. CASE Throw(t)
    <3>1. "thrown" \in EndPcs
      BY DEF EndPcs
    <3>2. turnSlots' \in [Agent -> 0..MaxTurns]
      BY <1>2, <2>8, TurnSlotsType DEF Throw
    <3> QED
      BY <1>3, <2>8, <3>1, <3>2, DrainNextType DEF Throw
  <2> QED
    BY <1>7, <2>1, <2>2, <2>3, <2>4, <2>5, <2>6, <2>7, <2>8 DEF TurnStep
<1>8. ASSUME NEW t \in Turn, AskStep(t) PROVE TypeOK'
  <2>1. CASE AskLogged(t)
    BY <2>1 DEF AskLogged
  <2>2. CASE AskOpens(t)
    BY <1>2, <2>2 DEF AskOpens
  <2>3. CASE Answered(t)
    BY <2>3 DEF Answered
  <2>4. CASE ResumeWithoutSlot(t) \/ RetakeSlot(t) \/ SlotAgain(t)
    BY <2>4, DeliverDecisionType, SMTT(30)
       DEF ResumeWithoutSlot, RetakeSlot, SlotAgain
  <2>5. CASE QueueAgain(t)
    <3>1. link' \in [Agent -> LinkType]
      BY <1>2, <2>5, ReplaceControllerType DEF QueueAgain
    <3> QED
      BY <1>3, <2>5, <3>1 DEF QueueAgain
  <2> QED
    BY <1>8, <2>1, <2>2, <2>3, <2>4, <2>5 DEF AskStep
<1>9. ASSUME NEW t \in Turn, Breaks(t) PROVE TypeOK'
  <2>1. "thrown" \in EndPcs /\ "broken" \in EndPcs
    BY DEF EndPcs
  <2>2. CASE OpenFails(t)
    BY <1>3, <2>1, <2>2, DrainNextType DEF OpenFails
  <2>3. CASE PrepareFails(t)
    <3>1. state' \in [Agent -> StateType]
      BY <1>2, <2>3 DEF PrepareFails, StateType, TypeOK
    <3> QED
      BY <1>3, <2>1, <2>3, <3>1, DrainNextType DEF PrepareFails, StateType
  <2>4. CASE PumpFails(t)
    <3>1. turnSlots' \in [Agent -> 0..MaxTurns]
      BY <1>2, <2>4, TurnSlotsType DEF PumpFails
    <3> QED
      BY <1>3, <2>1, <2>4, <3>1, DrainNextType DEF PumpFails
  <2>5. CASE FinishFails(t)
    <3>1. state' \in [Agent -> StateType]
      BY <1>2, <2>5 DEF FinishFails, StateOfStop, StateType, TypeOK
    <3> QED
      BY <1>3, <2>1, <2>5, <3>1, DrainNextType DEF FinishFails, StateType
  <2> QED
    BY <1>9, <2>2, <2>3, <2>4, <2>5 DEF Breaks
<1>10. ASSUME NEW t \in Turn, QuotaWaits(t) PROVE TypeOK'
  <2>1. link' \in [Agent -> LinkType]
    BY <1>2, <1>10, ReplaceControllerType DEF QuotaWaits
  <2> QED
    BY <1>3, <1>10, <2>1 DEF QuotaWaits
<1>11. ASSUME NEW t \in Turn, Asks(t) PROVE TypeOK'
  BY <1>11, SMTT(30) DEF Asks
<1>12. ASSUME NEW t \in Turn, Respond(t) PROVE TypeOK'
  <2>1. AskCounted(t) /\ AskCounted(t)'
    BY DEF AsksCounted
  <2>2. decided'[t] = decided[t] + 1 /\ asks[t] = decided[t] + 1
    BY <1>12, <2>1 DEF Respond, AskCounted, Pending
  <2> QED
    BY <1>12, <2>2 DEF Respond
<1>13. ASSUME HostExit PROVE TypeOK'
  <2>1. link' \in [Agent -> LinkType]
    BY <1>13, LinkTyped, LinkFields DEF HostExit
  <2> QED
    BY <1>3, <1>13, <2>1 DEF HostExit
<1> QED
  BY <1>4, <1>5, <1>6, <1>7, <1>8, <1>9, <1>10, <1>11, <1>12, <1>13 DEF Next

----------------------------------------------------------------------------
\* The second layer: the turns of an agent are taken in the order they were
\* sent.  The first c have ended, the next one runs while the agent drains,
\* and the others are in the queue.
InOrder(a, c) ==
  /\ \A n \in 1..c : pc[<<a, n>>] \in EndPcs
  /\ \A n \in (sent[a] + 1)..MaxTurns : pc[<<a, n>>] = "unsent"
  /\ IF draining[a]
     THEN /\ c < sent[a]
          /\ Active(<<a, c + 1>>)
          /\ \A n \in (c + 2)..sent[a] : pc[<<a, n>>] = "queued"
          /\ queue[a] = [i \in 1..(sent[a] - c - 1) |-> c + 1 + i]
     ELSE c = sent[a] /\ queue[a] = <<>>

DrainsInOrder == \A a \in Agent : \E c \in 0..MaxTurns : InOrder(a, c)

\* Where a turn of an agent that drains in order can be.
LEMMA InOrderPcs ==
  ASSUME TypeOK, NEW a \in Agent, NEW c \in 0..MaxTurns, InOrder(a, c),
         NEW n \in 1..MaxTurns
  PROVE  /\ Active(<<a, n>>) <=> (draining[a] /\ n = c + 1)
         /\ pc[<<a, n>>] \in EndPcs <=> n <= c
         /\ pc[<<a, n>>] = "queued"
              <=> (draining[a] /\ n > c + 1 /\ n <= sent[a])
<1>1. sent[a] \in 0..MaxTurns /\ MaxTurns \in Nat /\ draining[a] \in BOOLEAN
  BY TurnsAssumption DEF TypeOK
<1>2. \/ n <= c
      \/ draining[a] /\ n = c + 1
      \/ draining[a] /\ n > c + 1 /\ n <= sent[a]
      \/ n > sent[a] /\ n > c
  BY <1>1 DEF InOrder
<1>3. CASE n <= c
  BY <1>1, <1>3 DEF InOrder, Active, ActivePcs, EndPcs
<1>4. CASE draining[a] /\ n = c + 1
  BY <1>1, <1>4 DEF InOrder, Active, ActivePcs, EndPcs
<1>5. CASE draining[a] /\ n > c + 1 /\ n <= sent[a]
  <2>1. n \in (c + 2)..sent[a] /\ ~(n <= c) /\ n # c + 1
    BY <1>1, <1>5
  <2> QED
    BY <1>5, <2>1 DEF InOrder, Active, ActivePcs, EndPcs
<1>6. CASE n > sent[a] /\ n > c
  <2>1. /\ n \in (sent[a] + 1)..MaxTurns /\ ~(n <= c) /\ ~(n <= sent[a])
        /\ draining[a] => c + 1 <= sent[a] /\ n # c + 1
    BY <1>1, <1>6 DEF InOrder
  <2> QED
    BY <2>1 DEF InOrder, Active, ActivePcs, EndPcs
<1> QED
  BY <1>2, <1>3, <1>4, <1>5, <1>6

\* An agent runs one turn at a time.
LEMMA OneActive ==
  ASSUME TypeOK, DrainsInOrder, NEW t \in Turn, NEW u \in Turn,
         t[1] = u[1], Active(t)
  PROVE  draining[t[1]] /\ (Active(u) => t = u)
<1> DEFINE a == t[1]
<1>1. /\ a \in Agent /\ t[2] \in 1..MaxTurns /\ u[2] \in 1..MaxTurns
      /\ t = <<a, t[2]>> /\ u = <<a, u[2]>>
  BY TurnParts
<1>2. PICK c \in 0..MaxTurns : InOrder(a, c)
  BY <1>1 DEF DrainsInOrder
<1> HIDE DEF a
<1>3. draining[a] /\ t[2] = c + 1
  BY <1>1, <1>2, InOrderPcs
<1>4. Active(u) => u[2] = c + 1
  BY <1>1, <1>2, InOrderPcs
<1> QED
  BY <1>1, <1>3, <1>4 DEF a

\* A running turn moves on.
LEMMA MovesInOrder ==
  ASSUME TypeOK, DrainsInOrder, NEW t \in Turn, Active(t),
         NEW p \in ActivePcs, pc' = [pc EXCEPT ![t] = p],
         UNCHANGED <<sent, queue, draining>>
  PROVE  DrainsInOrder'
<1> SUFFICES ASSUME NEW a \in Agent PROVE \E c \in 0..MaxTurns : InOrder(a, c)'
  BY DEF DrainsInOrder
<1>1. PICK c \in 0..MaxTurns : InOrder(a, c)
  BY DEF DrainsInOrder
<1>2. \A n \in 1..MaxTurns :
        \/ pc'[<<a, n>>] = pc[<<a, n>>]
        \/ draining[a] /\ n = c + 1 /\ pc'[<<a, n>>] = p
  <2> SUFFICES ASSUME NEW n \in 1..MaxTurns, <<a, n>> = t
               PROVE  draining[a] /\ n = c + 1 /\ pc'[t] = p
    BY DEF TypeOK
  <2>1. draining[a] /\ n = c + 1
    BY <1>1, InOrderPcs
  <2> QED
    BY <2>1 DEF TypeOK
<1>3. sent[a] \in 0..MaxTurns /\ MaxTurns \in Nat
  BY TurnsAssumption DEF TypeOK
<1>4. draining[a] => pc'[<<a, c + 1>>] \in ActivePcs
  BY <1>1, <1>2, <1>3 DEF InOrder, Active
<1>5. InOrder(a, c)'
  BY <1>1, <1>2, <1>3, <1>4 DEF InOrder, Active
<1> QED
  BY <1>5

\* Nothing that the queue is about changes.
LEMMA RestsInOrder ==
  ASSUME DrainsInOrder, UNCHANGED <<sent, queue, draining, pc>>
  PROVE  DrainsInOrder'
BY DEF DrainsInOrder, InOrder, Active

\* What DrainNext does: the turn ends, and the next in line, if there is one,
\* starts; the agent's link changes only if it has no handle.
DrainedTo(t, result, h) ==
  /\ h \in Turn /\ h[1] = t[1] /\ h # t
  /\ pc[h] = "queued"
  /\ pc' = [pc EXCEPT ![t] = result, ![h] = StartOf(t[1])]
  /\ OpenLink(t[1])
  /\ draining' = draining

DrainedOut(t, result) ==
  /\ pc' = [pc EXCEPT ![t] = result]
  /\ draining' = [draining EXCEPT ![t[1]] = FALSE]
  /\ link' = link

\* Other agents do not see it.
LEMMA DrainNextOthers ==
  ASSUME TypeOK, NEW t \in Turn, NEW result, DrainNext(t, result)
  PROVE  /\ \A b \in Agent : b # t[1] => /\ queue'[b] = queue[b]
                                         /\ draining'[b] = draining[b]
         /\ \A u \in Turn : u[1] # t[1] => pc'[u] = pc[u]
<1>1. /\ pc \in [Turn -> PcType] /\ draining \in [Agent -> BOOLEAN]
      /\ queue \in [Agent -> Seq(1..MaxTurns)]
  BY DEF TypeOK, PcType
<1>2. CASE queue[t[1]] = <<>>
  BY <1>1, <1>2 DEF DrainNext
<1>3. CASE queue[t[1]] # <<>>
  BY <1>1, <1>3 DEF DrainNext
<1> QED
  BY <1>2, <1>3

\* The end of a turn: the next one is the next that was sent.
LEMMA DrainNextInOrder ==
  ASSUME TypeOK, DrainsInOrder, NEW t \in Turn, Active(t),
         NEW result \in EndPcs, DrainNext(t, result), UNCHANGED sent
  PROVE  /\ DrainsInOrder'
         /\ DrainedOut(t, result) \/ \E h \in Turn : DrainedTo(t, result, h)
<1> DEFINE a == t[1]
<1>1. /\ a \in Agent /\ t[2] \in 1..MaxTurns /\ t = <<a, t[2]>>
      /\ t[1] = a
      /\ \A n \in 1..MaxTurns : <<a, n>> \in Turn
      /\ \A b, n, m : <<a, n>> = <<b, m>> <=> a = b /\ n = m
      /\ \A n \in 1..MaxTurns : <<a, n>>[1] = a
  BY TurnParts
<1> HIDE DEF a
<1>2. PICK c \in 0..MaxTurns : InOrder(a, c)
  BY <1>1 DEF DrainsInOrder
<1>3. draining[a] /\ t[2] = c + 1
  BY <1>1, <1>2, InOrderPcs
<1>4. /\ sent[a] \in Nat /\ MaxTurns \in Nat /\ c \in Nat
      /\ c < sent[a] /\ sent[a] <= MaxTurns
      /\ queue[a] \in Seq(1..MaxTurns)
      /\ queue[a] = [i \in 1..(sent[a] - c - 1) |-> c + 1 + i]
      /\ \A i \in 1..(sent[a] - c - 1) : queue[a][i] = c + 1 + i
      /\ Len(queue[a]) = sent[a] - c - 1
  <2>1. /\ sent[a] \in Nat /\ MaxTurns \in Nat /\ c \in Nat
        /\ sent[a] <= MaxTurns /\ queue[a] \in Seq(1..MaxTurns)
    BY <1>1, TurnsAssumption DEF TypeOK
  <2>2. /\ c < sent[a]
        /\ queue[a] = [i \in 1..(sent[a] - c - 1) |-> c + 1 + i]
    BY <1>2, <1>3 DEF InOrder
  <2>3. \A i \in 1..(sent[a] - c - 1) : queue[a][i] = c + 1 + i
    BY <2>2
  <2>4. Len(queue[a]) = sent[a] - c - 1
    BY <2>1, <2>2
  <2> QED
    BY <2>1, <2>2, <2>3, <2>4
<1>5. /\ pc \in [Turn -> PcType] /\ draining \in [Agent -> BOOLEAN]
      /\ queue \in [Agent -> Seq(1..MaxTurns)]
  BY DEF TypeOK, PcType
<1>6. ASSUME NEW b \in Agent, b # a PROVE \E d \in 0..MaxTurns : InOrder(b, d)'
  <2>1. PICK d \in 0..MaxTurns : InOrder(b, d)
    BY DEF DrainsInOrder
  <2>2. queue'[b] = queue[b] /\ draining'[b] = draining[b]
    BY <1>1, <1>6, DrainNextOthers
  <2>3. ASSUME NEW n \in 1..MaxTurns PROVE pc'[<<b, n>>] = pc[<<b, n>>]
    BY <1>1, <1>6, DrainNextOthers, TurnParts
  <2> HIDE DEF a
  <2>4. InOrder(b, d)'
    <3>1. /\ sent[b] \in Nat /\ MaxTurns \in Nat /\ d \in Nat
          /\ sent[b] <= MaxTurns
      BY TurnsAssumption DEF TypeOK
    <3>2. sent'[b] = sent[b]
      OBVIOUS
    <3>7. /\ \A n \in 1..d : n \in 1..MaxTurns
          /\ \A n \in (sent[b] + 1)..MaxTurns : n \in 1..MaxTurns
      BY <3>1
    <3>3. \A n \in 1..d : pc'[<<b, n>>] \in EndPcs
      BY <2>1, <2>3, <3>7 DEF InOrder
    <3>4. \A n \in (sent[b] + 1)..MaxTurns : pc'[<<b, n>>] = "unsent"
      BY <2>1, <2>3, <3>7 DEF InOrder
    <3>5. CASE draining[b]
      <4>1. d < sent[b] /\ d + 1 \in 1..MaxTurns /\ Active(<<b, d + 1>>)
        BY <2>1, <3>1, <3>5 DEF InOrder
      <4>2. Active(<<b, d + 1>>)'
        BY <2>3, <4>1 DEF Active
      <4>3. \A n \in (d + 2)..sent[b] : pc'[<<b, n>>] = "queued"
        BY <2>1, <2>3, <3>1, <3>5 DEF InOrder
      <4>4. queue'[b] = [i \in 1..(sent[b] - d - 1) |-> d + 1 + i]
        BY <2>1, <2>2, <3>5 DEF InOrder
      <4> QED
        BY <2>2, <3>2, <3>3, <3>4, <3>5, <4>1, <4>2, <4>3, <4>4 DEF InOrder
    <3>6. CASE ~draining[b]
      BY <2>1, <2>2, <3>2, <3>3, <3>4, <3>6 DEF InOrder
    <3> QED
      BY <3>5, <3>6
  <2> QED
    BY <2>4
<1>9. /\ \A n \in 1..c : pc[<<a, n>>] \in EndPcs
      /\ \A n \in (sent[a] + 1)..MaxTurns : pc[<<a, n>>] = "unsent"
      /\ \A n \in (c + 2)..sent[a] : pc[<<a, n>>] = "queued"
  BY <1>2, <1>3 DEF InOrder
<1>7. CASE queue[a] = <<>>
  <2>1. DrainedOut(t, result) /\ queue' = queue
    BY <1>7 DEF DrainNext, DrainedOut, a
  <2>2. sent[a] = c + 1
    <3>1. Len(queue[a]) = sent[a] - c - 1
      BY <1>4
    <3> QED
      BY <1>4, <1>7, <3>1
  <2>3. \A n \in 1..MaxTurns : pc'[<<a, n>>] = IF n = c + 1 THEN result
                                                ELSE pc[<<a, n>>]
    BY <1>1, <1>3, <1>5, <2>1 DEF DrainedOut
  <2>4. draining'[a] = FALSE
    BY <1>1, <1>5, <2>1 DEF DrainedOut, a
  <2>5. InOrder(a, c + 1)'
    <3>1. \A n \in 1..(c + 1) : pc'[<<a, n>>] \in EndPcs
      BY <1>2, <1>4, <2>2, <2>3 DEF InOrder
    <3>2. \A n \in (sent[a] + 1)..MaxTurns : pc'[<<a, n>>] = "unsent"
      BY <1>2, <1>4, <2>2, <2>3 DEF InOrder
    <3> QED
      BY <1>7, <2>1, <2>2, <2>4, <3>1, <3>2 DEF InOrder
  <2>6. c + 1 \in 0..MaxTurns
    BY <1>4
  <2> QED
    BY <1>6, <2>1, <2>5, <2>6 DEF DrainsInOrder
<1>8. CASE queue[a] # <<>>
  <2> DEFINE h == <<a, Head(queue[a])>>
  <2>1. Head(queue[a]) = c + 2 /\ c + 2 <= sent[a] /\ c + 2 \in 1..MaxTurns
    <3>1. Len(queue[a]) = sent[a] - c - 1
      BY <1>4
    <3>3. queue[a] \in Seq(1..MaxTurns)
      BY <1>4
    <3>2. Len(queue[a]) # 0 /\ Head(queue[a]) = queue[a][1]
      BY <1>8, <3>3
    <3> QED
      BY <1>4, <3>1, <3>2
  <2>2. h \in Turn /\ h[1] = a /\ h # t /\ pc[h] = "queued"
    BY <1>1, <1>2, <1>3, <2>1, InOrderPcs
  <2>3. /\ pc' = [pc EXCEPT ![t] = result, ![h] = StartOf(a)]
        /\ queue' = [queue EXCEPT ![a] = Tail(@)]
        /\ draining' = draining
        /\ OpenLink(a)
    BY <1>8 DEF DrainNext, a
  <2>4. DrainedTo(t, result, h)
    BY <2>2, <2>3 DEF DrainedTo, a
  <2>5. \A n \in 1..MaxTurns : pc'[<<a, n>>] = IF n = c + 1 THEN result
             ELSE IF n = c + 2 THEN StartOf(a) ELSE pc[<<a, n>>]
    <3> SUFFICES ASSUME NEW n \in 1..MaxTurns
                 PROVE  pc'[<<a, n>>] = IF n = c + 1 THEN result
                          ELSE IF n = c + 2 THEN StartOf(a) ELSE pc[<<a, n>>]
      OBVIOUS
    <3>1. /\ <<a, n>> \in Turn /\ (<<a, n>> = t <=> n = c + 1)
          /\ (<<a, n>> = h <=> n = c + 2)
      BY <1>1, <1>3, <2>1
    <3>2. CASE n = c + 2
      BY <1>4, <1>5, <2>2, <2>3, <3>1, <3>2
    <3>3. CASE n # c + 2
      BY <1>4, <1>5, <2>2, <2>3, <3>1, <3>3
    <3> QED
      BY <3>2, <3>3
  <2>6. queue'[a] = [i \in 1..(sent[a] - c - 2) |-> c + 2 + i]
    <3>1. Len(queue[a]) = sent[a] - c - 1
      BY <1>4
    <3>2. queue'[a] = Tail(queue[a])
      BY <1>1, <1>5, <2>3
    <3>6. queue[a] \in Seq(1..MaxTurns)
      BY <1>4
    <3>3. Tail(queue[a]) = [i \in 1..(Len(queue[a]) - 1) |-> queue[a][i + 1]]
      BY <1>8, <3>6
    <3>4. \A i \in 1..(Len(queue[a]) - 1) : queue[a][i + 1] = c + 2 + i
      <4> SUFFICES ASSUME NEW i \in 1..(Len(queue[a]) - 1)
                   PROVE  queue[a][i + 1] = c + 2 + i
        OBVIOUS
      <4> DEFINE l == Len(queue[a])
      <4>1. l = sent[a] - c - 1 /\ l \in Nat /\ c \in Nat /\ i \in 1..(l - 1)
        BY <1>4, <3>1
      <4>2. i + 1 \in 1..(sent[a] - c - 1) /\ c + 1 + (i + 1) = c + 2 + i
        <5> HIDE DEF l
        <5> QED
          BY <4>1
      <4> QED
        BY <1>4, <4>2
    <3>5. Len(queue[a]) - 1 = sent[a] - c - 2
      BY <1>4, <3>1
    <3> QED
      BY <3>2, <3>3, <3>4, <3>5
  <2>7. StartOf(a) \in ActivePcs
    BY DEF StartOf, ActivePcs
  <2>8. InOrder(a, c + 1)'
    <3>1. ASSUME NEW n \in 1..(c + 1) PROVE pc'[<<a, n>>] \in EndPcs
      <4>1. n \in 1..MaxTurns /\ n # c + 2
        BY <1>4, <2>1
      <4>2. n = c + 1 \/ n \in 1..c
        BY <1>4
      <4> QED
        BY <1>9, <2>5, <4>1, <4>2
    <3>2. ASSUME NEW n \in (sent[a] + 1)..MaxTurns
          PROVE  pc'[<<a, n>>] = "unsent"
      <4>1. n \in 1..MaxTurns /\ n # c + 2 /\ n # c + 1
        BY <1>4, <2>1
      <4> QED
        BY <1>9, <2>5, <4>1
    <3>3. Active(<<a, c + 2>>)'
      BY <1>4, <2>1, <2>5, <2>7 DEF Active
    <3>4. ASSUME NEW n \in (c + 3)..sent[a] PROVE pc'[<<a, n>>] = "queued"
      <4>2. /\ c \in Nat /\ sent[a] \in Nat /\ MaxTurns \in Nat
            /\ sent[a] <= MaxTurns
        BY <1>4
      <4>1. /\ n \in 1..MaxTurns /\ n # c + 2 /\ n # c + 1
            /\ n \in (c + 2)..sent[a]
        BY <4>2
      <4> QED
        BY <1>9, <2>5, <4>1
    <3>5. /\ c + 1 < sent[a] /\ c + 1 + 1 = c + 2 /\ c + 1 + 2 = c + 3
          /\ sent[a] - (c + 1) - 1 = sent[a] - c - 2
          /\ draining'[a] = TRUE
      BY <1>3, <1>4, <2>1, <2>3
    <3> QED
      BY <2>6, <3>1, <3>2, <3>3, <3>4, <3>5 DEF InOrder
  <2>9. c + 1 \in 0..MaxTurns
    BY <1>4
  <2> QED
    BY <1>6, <2>2, <2>4, <2>8, <2>9 DEF DrainsInOrder
<1> QED
  BY <1>7, <1>8

\* send() starts the turn, or puts it at the end of the line.
LEMMA SendInOrder ==
  ASSUME TypeOK, DrainsInOrder, NEW a \in Agent, Send(a)
  PROVE  DrainsInOrder'
<1> SUFFICES ASSUME NEW b \in Agent PROVE \E c \in 0..MaxTurns : InOrder(b, c)'
  BY DEF DrainsInOrder
<1>1. PICK c \in 0..MaxTurns : InOrder(b, c)
  BY DEF DrainsInOrder
<1>2. /\ sent \in [Agent -> 0..MaxTurns] /\ draining \in [Agent -> BOOLEAN]
      /\ pc \in [Turn -> PcType] /\ queue \in [Agent -> Seq(1..MaxTurns)]
  BY DEF TypeOK, PcType
<1>3. /\ sent[a] \in Nat /\ MaxTurns \in Nat /\ c \in Nat
      /\ sent[a] + 1 <= MaxTurns /\ sent[a] + 1 \in 1..MaxTurns
      /\ sent[b] \in Nat /\ sent[b] <= MaxTurns
  BY <1>2, TurnsAssumption DEF Send
<1> DEFINE n == sent[a] + 1
<1>4. <<a, n>> \in Turn
  BY <1>3, TurnParts
<1>5. \A m \in 1..MaxTurns : /\ <<b, m>> \in Turn
                             /\ <<b, m>> = <<a, n>> <=> b = a /\ m = n
  BY TurnParts
<1>6. ASSUME b # a PROVE InOrder(b, c)'
  <2>1. /\ sent'[b] = sent[b] /\ queue'[b] = queue[b]
        /\ draining'[b] = draining[b]
    BY <1>2, <1>6 DEF Send
  <2>2. \A m \in 1..MaxTurns : pc'[<<b, m>>] = pc[<<b, m>>]
    BY <1>2, <1>5, <1>6 DEF Send
  <2>7. /\ \A m \in 1..c : m \in 1..MaxTurns
        /\ \A m \in (sent[b] + 1)..MaxTurns : m \in 1..MaxTurns
    BY <1>3
  <2>3. \A m \in 1..c : pc'[<<b, m>>] \in EndPcs
    BY <1>1, <2>2, <2>7 DEF InOrder
  <2>4. \A m \in (sent[b] + 1)..MaxTurns : pc'[<<b, m>>] = "unsent"
    BY <1>1, <2>2, <2>7 DEF InOrder
  <2>5. CASE draining[b]
    <3>1. c < sent[b] /\ c + 1 \in 1..MaxTurns /\ Active(<<b, c + 1>>)
      BY <1>1, <1>3, <2>5 DEF InOrder
    <3>2. Active(<<b, c + 1>>)'
      BY <2>2, <3>1 DEF Active
    <3>3. \A m \in (c + 2)..sent[b] : pc'[<<b, m>>] = "queued"
      BY <1>1, <1>3, <2>2, <2>5 DEF InOrder
    <3>4. queue'[b] = [i \in 1..(sent[b] - c - 1) |-> c + 1 + i]
      BY <1>1, <2>1, <2>5 DEF InOrder
    <3> QED
      BY <2>1, <2>3, <2>4, <2>5, <3>1, <3>2, <3>3, <3>4 DEF InOrder
  <2>6. CASE ~draining[b]
    BY <1>1, <2>1, <2>3, <2>4, <2>6 DEF InOrder
  <2> QED
    BY <2>5, <2>6
<1>7. ASSUME b = a, MayDrain(a) PROVE InOrder(b, c)'
  <2>1. c = sent[a] /\ queue[a] = <<>> /\ ~draining[a]
    BY <1>1, <1>7 DEF InOrder, MayDrain
  <2>2. /\ sent'[a] = n /\ draining'[a] = TRUE /\ queue'[a] = <<>>
        /\ pc' = [pc EXCEPT ![<<a, n>>] = StartOf(a)]
    BY <1>2, <1>7, <2>1 DEF Send
  <2>3. \A m \in 1..MaxTurns : pc'[<<a, m>>] = IF m = n THEN StartOf(a)
                                               ELSE pc[<<a, m>>]
    BY <1>2, <1>5, <1>7, <2>2
  <2>4. Active(<<a, c + 1>>)'
    <3>1. StartOf(a) \in ActivePcs
      BY DEF StartOf, ActivePcs
    <3> QED
      BY <1>3, <2>1, <2>3, <3>1 DEF Active
  <2>5. \A m \in 1..c : pc'[<<a, m>>] \in EndPcs
    BY <1>1, <1>3, <1>7, <2>1, <2>3 DEF InOrder
  <2>6. \A m \in (n + 1)..MaxTurns : pc'[<<a, m>>] = "unsent"
    BY <1>1, <1>3, <1>7, <2>1, <2>3 DEF InOrder
  <2>7. queue'[a] = [i \in 1..(n - c - 1) |-> c + 1 + i]
    <3>1. n - c - 1 = 0
      BY <1>3, <2>1
    <3> QED
      BY <2>2, <3>1
  <2>8. c < n /\ \A m \in (c + 2)..n : pc'[<<a, m>>] = "queued"
    BY <1>3, <2>1
  <2> QED
    BY <1>7, <2>2, <2>4, <2>5, <2>6, <2>7, <2>8 DEF InOrder
<1>8. ASSUME b = a, ~MayDrain(a) PROVE InOrder(b, c)'
  <2>1. /\ c < sent[a] /\ draining[a]
        /\ queue[a] = [i \in 1..(sent[a] - c - 1) |-> c + 1 + i]
    BY <1>1, <1>8 DEF InOrder, MayDrain
  <2>2. /\ sent'[a] = n /\ draining'[a] /\ queue'[a] = Append(queue[a], n)
        /\ pc' = [pc EXCEPT ![<<a, n>>] = "queued"]
    BY <1>2, <1>8, <2>1 DEF Send
  <2>3. \A m \in 1..MaxTurns : pc'[<<a, m>>] = IF m = n THEN "queued"
                                               ELSE pc[<<a, m>>]
    BY <1>2, <1>5, <1>8, <2>2
  <2>4. Active(<<a, c + 1>>)'
    <3>1. c + 1 \in 1..MaxTurns /\ c + 1 # n /\ Active(<<a, c + 1>>)
      BY <1>1, <1>3, <1>8, <2>1 DEF InOrder
    <3> QED
      BY <2>3, <3>1 DEF Active
  <2>5. ASSUME NEW m \in 1..c PROVE pc'[<<a, m>>] \in EndPcs
    <3>1. m \in 1..MaxTurns /\ m # n
      BY <1>3, <2>1
    <3> QED
      BY <1>1, <1>8, <2>3, <3>1 DEF InOrder
  <2>6. ASSUME NEW m \in (n + 1)..MaxTurns PROVE pc'[<<a, m>>] = "unsent"
    <3>1. m \in 1..MaxTurns /\ m # n /\ m \in (sent[a] + 1)..MaxTurns
      BY <1>3
    <3> QED
      BY <1>1, <1>8, <2>3, <3>1 DEF InOrder
  <2>7. queue'[a] = [i \in 1..(n - c - 1) |-> c + 1 + i]
    <3> DEFINE l == sent[a] - c - 1
    <3>1. l \in Nat /\ l + 1 = n - c - 1 /\ n = c + 1 + (l + 1)
      <4>1. sent[a] \in Nat /\ c \in Nat /\ c < sent[a]
        BY <1>3, <2>1
      <4> QED
        BY <4>1
    <3>2. queue[a] = [i \in 1..l |-> c + 1 + i]
      BY <2>1
    <3> HIDE DEF l, n
    <3>3. /\ Len([i \in 1..l |-> c + 1 + i]) = l
          /\ [i \in 1..l |-> c + 1 + i] \in Seq(Nat)
      BY <1>3, <3>1
    <3>4. Append(queue[a], n) =
            [i \in 1..(l + 1) |-> IF i = l + 1 THEN n ELSE queue[a][i]]
      BY <3>1, <3>2, <3>3
    <3> QED
      BY <2>2, <3>1, <3>2, <3>4
  <2>8. c < n /\ \A m \in (c + 2)..n : pc'[<<a, m>>] = "queued"
    <3>1. \A m \in (c + 2)..sent[a] : pc[<<a, m>>] = "queued"
      BY <1>1, <1>8, <2>1 DEF InOrder
    <3>2. ASSUME NEW m \in (c + 2)..n PROVE pc'[<<a, m>>] = "queued"
      <4>1. m \in 1..MaxTurns /\ (m # n => m \in (c + 2)..sent[a])
        BY <1>3
      <4> QED
        BY <2>3, <3>1, <4>1
    <3> QED
      BY <1>3, <2>1, <3>2
  <2> QED
    BY <1>8, <2>2, <2>4, <2>5, <2>6, <2>7, <2>8 DEF InOrder
<1> QED
  BY <1>6, <1>7, <1>8

\* Every step keeps the order.  Its turn, if it has one, is running.
LEMMA StepInOrder ==
  ASSUME TypeOK, DrainsInOrder, Next
  PROVE  DrainsInOrder'
<1>1. ASSUME NEW a \in Agent, Interrupt(a) \/ InterruptStep(a)
      PROVE  DrainsInOrder'
  BY <1>1, RestsInOrder DEF Interrupt, InterruptStep, InterruptArrives,
     InterruptLogged, hostVars
<1>2. ASSUME NEW t \in Turn, TurnStep(t) PROVE DrainsInOrder'
  <2>1. CASE Opened(t) \/ Prepared(t) \/ WaitsForSlot(t) \/ Settle(t)
    <3>1. {"preparing", "quota", "slot", "finishing"} \subseteq ActivePcs
      BY DEF ActivePcs
    <3>2. Active(t)
      BY <2>1 DEF Opened, Prepared, WaitsForSlot, Settle, Active, ActivePcs
    <3>3. CASE Opened(t)
      BY <3>1, <3>2, <3>3, MovesInOrder DEF Opened
    <3>4. CASE Prepared(t)
      BY <3>1, <3>2, <3>4, MovesInOrder DEF Prepared
    <3>5. CASE WaitsForSlot(t)
      BY <3>1, <3>2, <3>5, MovesInOrder DEF WaitsForSlot
    <3>6. CASE Settle(t)
      BY <3>1, <3>2, <3>6, MovesInOrder DEF Settle
    <3> QED
      BY <2>1, <3>3, <3>4, <3>5, <3>6
  <2>2. CASE TakesSlot(t) \/ GotSlot(t)
    <3>1. Active(t) /\ "running" \in ActivePcs
      BY <2>2 DEF TakesSlot, GotSlot, Active, ActivePcs
    <3>2. /\ pc' = [pc EXCEPT ![t] = "running"]
          /\ UNCHANGED <<sent, queue, draining>>
      BY <2>2 DEF TakesSlot, GotSlot, SendTo
    <3> QED
      BY <3>1, <3>2, MovesInOrder
  <2>3. CASE LoopEnds(t)
    BY <2>3, RestsInOrder DEF LoopEnds, hostVars
  <2>4. CASE Finish(t)
    <3>1. Active(t) /\ "done" \in EndPcs
      BY <2>4 DEF Finish, Active, ActivePcs, EndPcs
    <3> QED
      BY <2>4, <3>1, DrainNextInOrder DEF Finish
  <2>5. CASE Throw(t)
    <3>1. Active(t) /\ "thrown" \in EndPcs
      BY <2>5 DEF Throw, Active, ActivePcs, EndPcs
    <3> QED
      BY <2>5, <3>1, DrainNextInOrder DEF Throw
  <2> QED
    BY <1>2, <2>1, <2>2, <2>3, <2>4, <2>5 DEF TurnStep
<1>3. ASSUME NEW t \in Turn, AskStep(t) PROVE DrainsInOrder'
  BY <1>3, RestsInOrder DEF AskStep, AskLogged, AskOpens, Answered,
     ResumeWithoutSlot, RetakeSlot, QueueAgain, SlotAgain, hostVars
<1>4. ASSUME NEW t \in Turn, Breaks(t) PROVE DrainsInOrder'
  <2>1. Active(t) /\ "thrown" \in EndPcs /\ "broken" \in EndPcs
    BY <1>4 DEF Breaks, OpenFails, PrepareFails, PumpFails, FinishFails, Active,
       ActivePcs, EndPcs
  <2>2. CASE OpenFails(t)
    BY <2>1, <2>2, DrainNextInOrder DEF OpenFails
  <2>3. CASE PrepareFails(t)
    BY <2>1, <2>3, DrainNextInOrder DEF PrepareFails
  <2>4. CASE PumpFails(t)
    BY <2>1, <2>4, DrainNextInOrder DEF PumpFails
  <2>5. CASE FinishFails(t)
    BY <2>1, <2>5, DrainNextInOrder DEF FinishFails
  <2> QED
    BY <1>4, <2>2, <2>3, <2>4, <2>5 DEF Breaks
<1>5. ASSUME NEW t \in Turn, QuotaWaits(t) \/ Asks(t) \/ Respond(t)
      PROVE  DrainsInOrder'
  BY <1>5, RestsInOrder DEF QuotaWaits, Asks, Respond, hostVars
<1>6. HostExit => DrainsInOrder'
  BY RestsInOrder DEF HostExit, hostVars
<1> QED
  BY <1>1, <1>2, <1>3, <1>4, <1>5, <1>6, SendInOrder DEF Next

\* Nothing has been sent to a host that starts.
LEMMA InitInOrder == Init => DrainsInOrder
<1> SUFFICES ASSUME Init, NEW a \in Agent PROVE InOrder(a, 0)
  BY TurnsAssumption DEF DrainsInOrder
<1>1. \A n \in 1..MaxTurns : <<a, n>> \in Turn
  BY TurnParts
<1> QED
  BY <1>1 DEF Init, InOrder

----------------------------------------------------------------------------
\* The third layer: what a turn is doing agrees with its loop in the agent
\* host, with the handle and its stream, and with the holder registered for
\* the agent.
HandleMatches(t) ==
  /\ pc[t] \in {"preparing", "quota", "slot", "running"} => hasHandle[t[1]]
  /\ pc[t] \in {"opening", "finishing"} => ~hasHandle[t[1]]

LoopMatches(t) ==
  /\ loop[t] = "off" => pc[t] \notin {"running", "finishing", "done"}
  /\ loop[t] \in {"thinking", "asking"} => pc[t] = "running"
  /\ loop[t] = "ended" => pc[t] \in {"running", "finishing", "done", "broken"}
  /\ loop[t] = "refused" => pc[t] \in {"running", "thrown"}
  /\ pc[t] \in {"finishing", "done"} => loop[t] = "ended"

\* A turn ends: it is over, it was rejected, or something broke on its way.
Ends(t) == Finish(t) \/ Throw(t) \/ Breaks(t)

\* ... and what becomes of it.
EndsAs(t, result) ==
  \/ result = "done" /\ Finish(t)
  \/ result = "thrown" /\ (OpenFails(t) \/ Throw(t))
  \/ result = "broken" /\ (PrepareFails(t) \/ PumpFails(t) \/ FinishFails(t))

\* A loop asks only while its stream is open.  A send that was rejected leaves
\* its handle behind, and the stream of that never opens again.
LinkMatches(t) ==
  /\ loop[t] = "asking" => link[t[1]].stream = "open"
  /\ loop[t] = "refused" => hasHandle[t[1]] /\ link[t[1]].stream # "open"

TurnMatches(t) == HandleMatches(t) /\ LoopMatches(t) /\ LinkMatches(t)

\* ... so that every later send of the agent is rejected too.
DeadForGood ==
  \A t, u \in Turn :
    t[1] = u[1] /\ loop[t] = "refused" /\ pc[u] = "running"
      => loop[u] = "refused"

HolderRuns ==
  /\ \A t \in Turn : pc[t] = "running" => turnSlots[t[1]] = t[2]
  /\ \A t \in Turn : t[2] = turnSlots[t[1]] => pc[t] = "running"

Matched == /\ \A t \in Turn : TurnMatches(t)
           /\ DeadForGood
           /\ HolderRuns

\* The stream of a link after the assignments that the actions make to it.
LEMMA StreamAfter ==
  ASSUME TypeOK, NEW a \in Agent
  PROVE  /\ ReplaceController(a)
              => \A b \in Agent : link'[b].stream = link[b].stream
         /\ link' = [link EXCEPT ![a].stream = "open"]
              => \A b \in Agent :
                   link'[b].stream = IF b = a THEN "open" ELSE link[b].stream
         /\ link' = [link EXCEPT ![a].stream = "closed"]
              => \A b \in Agent :
                   link'[b].stream = IF b = a THEN "closed" ELSE link[b].stream
         /\ link' = [link EXCEPT ![a].ctl = "none"]
              => \A b \in Agent : link'[b].stream = link[b].stream
         /\ \A x : link' = [link EXCEPT ![a].aborted = x]
              => \A b \in Agent : link'[b].stream = link[b].stream
         /\ OpenLink(a) => \A b \in Agent :
              link'[b].stream = IF b = a /\ ~hasHandle[a] THEN "none"
                                ELSE link[b].stream
<1>1. link \in [Agent -> LinkType]
  BY LinkTyped
<1>2. ASSUME NEW l \in LinkType
      PROVE  /\ \A c : [l EXCEPT !.ctl = c].stream = l.stream
             /\ \A c : [l EXCEPT !.aborted = c].stream = l.stream
             /\ \A c : [l EXCEPT !.stream = c].stream = c
  BY DEF LinkType
<1>3. FreshLink.stream = "none"
  BY DEF FreshLink
<1>4. ASSUME NEW f, NEW b \in Agent, link' = [link EXCEPT ![a] = f]
      PROVE  link'[b] = IF b = a THEN f ELSE link[b]
  BY <1>1, <1>4
<1>5. ReplaceController(a) => \A b \in Agent : link'[b].stream = link[b].stream
  BY <1>1, <1>2, <1>4 DEF ReplaceController
<1>6. ASSUME NEW s, link' = [link EXCEPT ![a].stream = s]
      PROVE  \A b \in Agent :
               link'[b].stream = IF b = a THEN s ELSE link[b].stream
  BY <1>1, <1>2, <1>4, <1>6
<1>7. ASSUME link' = [link EXCEPT ![a].ctl = "none"]
      PROVE  \A b \in Agent : link'[b].stream = link[b].stream
  BY <1>1, <1>2, <1>4, <1>7
<1>8. ASSUME NEW x, link' = [link EXCEPT ![a].aborted = x]
      PROVE  \A b \in Agent : link'[b].stream = link[b].stream
  BY <1>1, <1>2, <1>4, <1>8
<1>9. ASSUME OpenLink(a)
      PROVE  \A b \in Agent :
              link'[b].stream = IF b = a /\ ~hasHandle[a] THEN "none"
                                ELSE link[b].stream
  BY <1>3, <1>4, <1>9 DEF OpenLink
<1> QED
  BY <1>5, <1>6, <1>7, <1>8, <1>9

\* A turn that is not running does not notice what another one does.
LEMMA IdleMatches ==
  ASSUME NEW u \in Turn, TurnMatches(u), ~Active(u),
         pc'[u] = pc[u], loop'[u] = loop[u],
         loop[u] = "refused" =>
           hasHandle'[u[1]] /\ link'[u[1]].stream # "open"
  PROVE  TurnMatches(u)'
BY DEF TurnMatches, HandleMatches, LoopMatches, LinkMatches, Active, ActivePcs

\* Nor does a turn that a step leaves alone.
LEMMA KeptMatches ==
  ASSUME NEW u \in Turn, TurnMatches(u),
         pc'[u] = pc[u], loop'[u] = loop[u],
         hasHandle'[u[1]] = hasHandle[u[1]],
         link'[u[1]].stream = link[u[1]].stream
  PROVE  TurnMatches(u)'
BY DEF TurnMatches, HandleMatches, LoopMatches, LinkMatches

\* The streams and handles of the other agents stay as they are, and an agent
\* with a rejected send stays without an open stream.
LinkOfOne(a) ==
  /\ \A b \in Agent \ {a} : /\ hasHandle'[b] = hasHandle[b]
                            /\ link'[b].stream = link[b].stream
  /\ \A u \in Turn : u[1] = a /\ loop[u] = "refused"
                      => hasHandle'[a] /\ link'[a].stream # "open"

\* What a rejected send leaves behind in its agent.
LEMMA RefusedLink ==
  ASSUME Matched, NEW a
  PROVE  \A u \in Turn : u[1] = a /\ loop[u] = "refused"
                           => hasHandle[a] /\ link[a].stream # "open"
BY DEF Matched, TurnMatches, LinkMatches

\* While a turn runs, the others of its agent do not, and take no notice.
LEMMA OthersMatch ==
  ASSUME TypeOK, DrainsInOrder, Matched, NEW t \in Turn, Active(t),
         LinkOfOne(t[1]), NEW u \in Turn, u # t,
         pc'[u] = pc[u], loop'[u] = loop[u]
  PROVE  TurnMatches(u)'
<1>1. TurnMatches(u) /\ u[1] \in Agent
  BY TurnParts DEF Matched
<1>2. CASE u[1] # t[1]
  BY <1>1, <1>2, KeptMatches DEF LinkOfOne
<1>3. CASE u[1] = t[1]
  <2>1. ~Active(u)
    BY <1>3, OneActive
  <2> QED
    BY <1>1, <1>3, <2>1, IdleMatches DEF LinkOfOne
<1> QED
  BY <1>2, <1>3

\* A turn starts: it has no loop yet.
LEMMA StartMatches ==
  ASSUME TypeOK, NEW h \in Turn, TurnMatches(h),
         pc[h] \in {"unsent", "queued"},
         pc'[h] = StartOf(h[1]), loop'[h] = loop[h],
         hasHandle'[h[1]] = hasHandle[h[1]]
  PROVE  TurnMatches(h)'
<1>1. loop[h] = "off"
  BY DEF TypeOK, TurnMatches, LoopMatches
<1> QED
  BY <1>1 DEF StartOf, TurnMatches, HandleMatches, LoopMatches, LinkMatches

\* The holder while the turn that runs, if any, stays the same.
LEMMA HolderKept ==
  ASSUME HolderRuns, turnSlots' = turnSlots,
         \A u \in Turn : pc'[u] = "running" <=> pc[u] = "running"
  PROVE  HolderRuns'
BY DEF HolderRuns

\* No send is rejected or started.
LEMMA DeadKept ==
  ASSUME DeadForGood,
         \A u \in Turn : pc'[u] = "running" => pc[u] = "running",
         \A u \in Turn : loop'[u] = "refused" <=> loop[u] = "refused"
  PROVE  DeadForGood'
BY DEF DeadForGood

\* The steps from the handle to the line for a slot.
LEMMA MoveMatched ==
  ASSUME TypeOK, DrainsInOrder, Matched, NEW t \in Turn,
         Opened(t) \/ Prepared(t) \/ WaitsForSlot(t)
  PROVE  Matched'
<1> DEFINE a == t[1]
<1>1. a \in Agent /\ TurnMatches(t) /\ Active(t)
  BY TurnParts DEF Matched, Opened, Prepared, WaitsForSlot, Active, ActivePcs
<1>2. PICK p \in {"preparing", "quota", "slot"} :
        pc' = [pc EXCEPT ![t] = p]
  BY DEF Opened, Prepared, WaitsForSlot
<1>3. pc \in [Turn -> PcType] /\ hasHandle \in [Agent -> BOOLEAN]
  BY DEF TypeOK, PcType
<1>4. /\ loop' = loop /\ turnSlots' = turnSlots /\ hasHandle'[a]
      /\ \A b \in Agent \ {a} : hasHandle'[b] = hasHandle[b]
  BY <1>1, <1>3 DEF Opened, Prepared, WaitsForSlot, askVars, agentVars,
     TurnMatches, HandleMatches
<1>5. \A b \in Agent : \/ link'[b].stream = link[b].stream
                       \/ b = a /\ ~hasHandle[a]
  BY <1>1, StreamAfter DEF Opened, Prepared, WaitsForSlot, agentVars,
     TurnMatches, HandleMatches
<1> HIDE DEF a
<1>6. LinkOfOne(a)
  BY <1>1, <1>4, <1>5, RefusedLink DEF LinkOfOne
<1>7. ASSUME NEW u \in Turn PROVE TurnMatches(u)'
  <2>1. CASE u # t
    BY <1>1, <1>2, <1>3, <1>4, <1>6, <2>1, OthersMatch DEF a
  <2>2. CASE u = t
    <3>1. loop[t] = "off"
      BY <1>1 DEF Opened, Prepared, WaitsForSlot, TypeOK, TurnMatches,
         LoopMatches
    <3> QED
      BY <1>2, <1>3, <1>4, <2>2, <3>1 DEF a, TurnMatches, HandleMatches,
         LoopMatches, LinkMatches
  <2> QED
    BY <2>1, <2>2
<1>8. \A u \in Turn : pc'[u] = "running" <=> pc[u] = "running"
  BY <1>2, <1>3 DEF Opened, Prepared, WaitsForSlot
<1> QED
  BY <1>4, <1>7, <1>8, HolderKept, DeadKept DEF Matched

\* The turn is sent: its loop runs, or it is rejected at once.
LEMMA SendToMatched ==
  ASSUME TypeOK, DrainsInOrder, Matched, NEW t \in Turn,
         TakesSlot(t) \/ GotSlot(t)
  PROVE  Matched'
<1> DEFINE a == t[1]
<1>1. a \in Agent /\ TurnMatches(t) /\ Active(t) /\ hasHandle[a]
  BY TurnParts DEF Matched, TakesSlot, GotSlot, Active, ActivePcs, TurnMatches,
     HandleMatches
<1>2. /\ pc' = [pc EXCEPT ![t] = "running"]
      /\ turnSlots' = [turnSlots EXCEPT ![a] = t[2]]
      /\ loop' = [loop EXCEPT ![t] = IF link[a].stream = "open"
                                    THEN "thinking" ELSE "refused"]
      /\ hasHandle' = hasHandle /\ link' = link
  BY DEF TakesSlot, GotSlot, SendTo
<1>3. /\ pc \in [Turn -> PcType]
      /\ turnSlots \in [Agent -> 0..MaxTurns]
      /\ DOMAIN loop = Turn
  BY DEF TypeOK, PcType
<1>4. /\ pc'[t] = "running" /\ turnSlots'[a] = t[2]
      /\ loop'[t] = IF link[a].stream = "open" THEN "thinking" ELSE "refused"
      /\ \A u \in Turn : u # t => pc'[u] = pc[u] /\ loop'[u] = loop[u]
      /\ \A b \in Agent : b # a => turnSlots'[b] = turnSlots[b]
  BY <1>1, <1>2, <1>3
<1>5. \A u \in Turn : u[1] = a /\ u # t => pc[u] # "running" /\ u[2] # t[2]
  BY <1>1, OneActive, TurnParts DEF Active, ActivePcs
<1>6. LinkOfOne(a)
  BY <1>1, <1>2, RefusedLink DEF LinkOfOne
<1>7. ASSUME NEW u \in Turn PROVE TurnMatches(u)'
  <2>1. CASE u # t
    BY <1>1, <1>4, <1>6, <2>1, OthersMatch
  <2>2. CASE u = t
    BY <1>1, <1>2, <1>4, <2>2 DEF TurnMatches, HandleMatches, LoopMatches,
       LinkMatches
  <2> QED
    BY <2>1, <2>2
<1>8. HolderRuns'
  <2> SUFFICES ASSUME NEW u \in Turn
               PROVE  /\ pc'[u] = "running" => turnSlots'[u[1]] = u[2]
                      /\ u[2] = turnSlots'[u[1]] => pc'[u] = "running"
    BY DEF HolderRuns
  <2>1. CASE u[1] = a
    BY <1>4, <1>5, <2>1
  <2>2. CASE u[1] # a
    BY <1>4, <2>2, TurnParts DEF Matched, HolderRuns
  <2> QED
    BY <2>1, <2>2
<1>9. DeadForGood'
  <2> SUFFICES ASSUME NEW v \in Turn, NEW u \in Turn, v[1] = u[1],
                      loop'[v] = "refused", pc'[u] = "running"
               PROVE  loop'[u] = "refused"
    BY DEF DeadForGood
  <2>1. CASE u = t
    <3>1. CASE v = t
      BY <2>1, <3>1
    <3>2. CASE v # t
      BY <1>4, <2>1, <3>2, RefusedLink
    <3> QED
      BY <3>1, <3>2
  <2>2. CASE u # t
    BY <1>4, <1>5, <2>2 DEF Matched, DeadForGood
  <2> QED
    BY <2>1, <2>2
<1> QED
  BY <1>7, <1>8, <1>9 DEF Matched

\* The loop returns and closes its stream.
LEMMA LoopEndsMatched ==
  ASSUME TypeOK, DrainsInOrder, Matched, NEW t \in Turn, LoopEnds(t)
  PROVE  Matched'
<1> DEFINE a == t[1]
<1>1. /\ a \in Agent /\ TurnMatches(t) /\ Active(t)
      /\ pc[t] = "running" /\ hasHandle[a]
  BY TurnParts
     DEF Matched, LoopEnds, Active, ActivePcs, TurnMatches, LoopMatches,
         HandleMatches
<1>2. /\ pc' = pc /\ turnSlots' = turnSlots /\ hasHandle' = hasHandle
      /\ link' = [link EXCEPT ![a].stream = "closed"]
  BY DEF LoopEnds, hostVars, askVars
<1>7. \A b \in Agent :
        link'[b].stream = IF b = a THEN "closed" ELSE link[b].stream
  <2>1. link' = [link EXCEPT ![a].stream = "closed"]
    BY <1>2
  <2> HIDE DEF a
  <2> QED
    BY <1>1, <2>1, StreamAfter
<1>3. /\ \A u \in Turn : u # t => loop'[u] = loop[u]
      /\ loop[t] = "thinking"
      /\ loop'[t] = IF link[a].stream = "open" THEN "ended" ELSE "refused"
  BY DEF LoopEnds, TypeOK
<1>4. LinkOfOne(a)
  BY <1>1, <1>2, <1>7, RefusedLink DEF LinkOfOne
<1>5. ASSUME NEW u \in Turn PROVE TurnMatches(u)'
  <2>1. CASE u # t
    BY <1>1, <1>2, <1>3, <1>4, <2>1, OthersMatch
  <2>2. CASE u = t
    BY <1>1, <1>2, <1>3, <1>7, <2>2
       DEF TurnMatches, HandleMatches, LoopMatches,
       LinkMatches
  <2> QED
    BY <2>1, <2>2
<1>6. DeadForGood'
  <2> SUFFICES ASSUME NEW v \in Turn, NEW u \in Turn, v[1] = u[1],
                      loop'[v] = "refused", pc'[u] = "running"
               PROVE  loop'[u] = "refused"
    BY DEF DeadForGood
  <2>1. Active(u) /\ (u[1] = a => u = t)
    BY <1>1, <1>2, OneActive DEF Active, ActivePcs
  <2>2. CASE v = t
    BY <2>1, <2>2
  <2>3. CASE v # t
    BY <1>2, <1>3, <2>1, <2>3 DEF Matched, DeadForGood
  <2> QED
    BY <2>2, <2>3
<1> QED
  BY <1>2, <1>5, <1>6, HolderKept DEF Matched

\* A turn that settles drops the handle: nothing of its agent was rejected.
LEMMA SettleMatched ==
  ASSUME TypeOK, DrainsInOrder, Matched, NEW t \in Turn, Settle(t)
  PROVE  Matched'
<1> DEFINE a == t[1]
<1>1. /\ a \in Agent /\ TurnMatches(t) /\ pc[t] = "running" /\ Active(t)
      /\ loop[t] = "ended"
  BY TurnParts DEF Matched, Settle, Active, ActivePcs
<1>2. \A u \in Turn : u[1] = a => loop[u] # "refused"
  BY <1>1 DEF Matched, DeadForGood
<1>3. /\ pc' = [pc EXCEPT ![t] = "finishing"] /\ loop' = loop
      /\ turnSlots' = [turnSlots EXCEPT ![a] = 0]
      /\ hasHandle' = [hasHandle EXCEPT ![a] = FALSE]
      /\ link' = [link EXCEPT ![a].ctl = "none"]
  BY DEF Settle, DropHandle
<1>4. /\ pc \in [Turn -> PcType]
      /\ turnSlots \in [Agent -> 0..MaxTurns]
      /\ hasHandle \in [Agent -> BOOLEAN]
  BY DEF TypeOK, PcType
<1>5. /\ pc'[t] = "finishing" /\ turnSlots'[a] = 0 /\ ~hasHandle'[a]
      /\ \A u \in Turn : u # t => pc'[u] = pc[u]
      /\ \A b \in Agent : b # a => /\ turnSlots'[b] = turnSlots[b]
                                   /\ hasHandle'[b] = hasHandle[b]
      /\ \A b \in Agent : link'[b].stream = link[b].stream
  BY <1>1, <1>3, <1>4, StreamAfter
<1>6. LinkOfOne(a)
  BY <1>2, <1>5 DEF LinkOfOne
<1>7. ASSUME NEW u \in Turn PROVE TurnMatches(u)'
  <2>1. CASE u # t
    BY <1>1, <1>3, <1>5, <1>6, <2>1, OthersMatch
  <2>2. CASE u = t
    BY <1>1, <1>3, <1>5, <2>2 DEF TurnMatches, HandleMatches, LoopMatches,
       LinkMatches
  <2> QED
    BY <2>1, <2>2
<1>8. HolderRuns'
  <2> SUFFICES ASSUME NEW u \in Turn
               PROVE  /\ pc'[u] = "running" => turnSlots'[u[1]] = u[2]
                      /\ u[2] = turnSlots'[u[1]] => pc'[u] = "running"
    BY DEF HolderRuns
  <2>1. u[1] = a => pc'[u] # "running" /\ u[2] # 0
    BY <1>1, <1>5, OneActive, TurnParts DEF Active, ActivePcs
  <2>2. CASE u[1] # a
    BY <1>1, <1>5, <2>2, TurnParts DEF Matched, HolderRuns
  <2> QED
    BY <1>5, <2>1, <2>2
<1>9. DeadForGood'
  BY <1>3, <1>5, DeadKept DEF Matched
<1> QED
  BY <1>7, <1>8, <1>9 DEF Matched

\* A turn comes to its end, and the next of its agent may start.
LEMMA EndsMatched ==
  ASSUME TypeOK, DrainsInOrder, Matched, NEW t \in Turn, Ends(t)
  PROVE  Matched'
<1> DEFINE a == t[1]
           Lets == Throw(t) \/ PumpFails(t)
<1> USE DEF Ends, Breaks
<1>1. a \in Agent /\ TurnMatches(t) /\ Active(t)
  BY TurnParts DEF Matched, OpenFails, PrepareFails, PumpFails, FinishFails,
     Finish, Throw, Active, ActivePcs
<1>2. PICK result \in EndPcs :
        /\ DrainNext(t, result)
        /\ EndsAs(t, result)
  BY DEF EndsAs, OpenFails, PrepareFails, PumpFails, FinishFails, Finish, Throw,
     EndPcs
<1>3. /\ loop' = loop /\ hasHandle' = hasHandle /\ sent' = sent
      /\ turnSlots' = IF Lets THEN [turnSlots EXCEPT ![a] = 0] ELSE turnSlots
  BY DEF OpenFails, PrepareFails, PumpFails, FinishFails, Finish, Throw, askVars
<1> HIDE DEF Ends, Breaks
<1>4. /\ pc \in [Turn -> PcType]
      /\ turnSlots \in [Agent -> 0..MaxTurns]
  BY DEF TypeOK, PcType
<1>5. DrainedOut(t, result) \/ \E h \in Turn : DrainedTo(t, result, h)
  BY <1>1, <1>2, <1>3, DrainNextInOrder
<1>6. \A b \in Agent :
        link'[b].stream = IF b = a /\ ~hasHandle[a] /\ link' # link
                          THEN "none" ELSE link[b].stream
  BY <1>1, <1>5, StreamAfter DEF DrainedOut, DrainedTo
<1>7. LinkOfOne(a)
  BY <1>1, <1>3, <1>6, RefusedLink DEF LinkOfOne
<1>8. /\ pc'[t] = result
      /\ \A u \in Turn : u # t =>
           \/ pc'[u] = pc[u]
           \/ pc[u] = "queued" /\ u[1] = a /\ pc'[u] = StartOf(a)
  <2>1. CASE DrainedOut(t, result)
    BY <1>4, <2>1 DEF DrainedOut
  <2>2. ASSUME NEW h \in Turn, DrainedTo(t, result, h)
        PROVE  /\ pc'[t] = result
               /\ \A u \in Turn : u # t =>
                    \/ pc'[u] = pc[u]
                    \/ pc[u] = "queued" /\ u[1] = a /\ pc'[u] = StartOf(a)
    BY <1>4, <2>2 DEF DrainedTo
  <2> QED
    BY <1>5, <2>1, <2>2
<1>9. ASSUME NEW u \in Turn PROVE TurnMatches(u)'
  <2>1. CASE u # t /\ pc'[u] = pc[u]
    BY <1>1, <1>3, <1>7, <2>1, OthersMatch
  <2>2. CASE u # t /\ pc[u] = "queued" /\ u[1] = a /\ pc'[u] = StartOf(a)
    BY <1>3, <2>2, StartMatches DEF Matched
  <2>3. CASE u = t
    <3>1. CASE result = "done"
      <4>1. loop[t] = "ended"
        BY <1>1, <1>2, <3>1 DEF EndsAs, Finish, TurnMatches, LoopMatches
      <4> QED
        BY <1>3, <1>8, <2>3, <3>1, <4>1 DEF TurnMatches, HandleMatches,
           LoopMatches, LinkMatches
    <3>2. CASE result = "thrown"
      <4>1. loop[t] \in {"off", "refused"}
        BY <1>1, <1>2, <3>2
           DEF EndsAs, OpenFails, Throw, TurnMatches, LoopMatches, TypeOK
      <4>2. loop[t] = "refused" => hasHandle[a] /\ link'[a].stream # "open"
        BY <1>1, <1>6, RefusedLink
      <4> QED
        BY <1>3, <1>8, <2>3, <3>2, <4>1, <4>2 DEF TurnMatches, HandleMatches,
           LoopMatches, LinkMatches
    <3>3. CASE result = "broken"
      <4>1. loop[t] \in {"off", "ended"}
        BY <1>1, <1>2, <3>3
           DEF EndsAs, PrepareFails, PumpFails, FinishFails, TurnMatches,
               LoopMatches, TypeOK
      <4> QED
        BY <1>3, <1>8, <2>3, <3>3, <4>1 DEF TurnMatches, HandleMatches,
           LoopMatches, LinkMatches
    <3> QED
      BY <3>1, <3>2, <3>3 DEF EndPcs
  <2> QED
    BY <1>8, <2>1, <2>2, <2>3
<1>10. \A u \in Turn : pc'[u] = "running" <=> u # t /\ pc[u] = "running"
  BY <1>8 DEF EndPcs, StartOf
<1>11. HolderRuns'
  <2>1. CASE Lets
    <3> SUFFICES ASSUME NEW u \in Turn
                 PROVE  /\ pc'[u] = "running" => turnSlots'[u[1]] = u[2]
                        /\ u[2] = turnSlots'[u[1]] => pc'[u] = "running"
      BY DEF HolderRuns
    <3>1. /\ turnSlots'[a] = 0
          /\ \A b \in Agent : b # a => turnSlots'[b] = turnSlots[b]
      BY <1>1, <1>3, <1>4, <2>1
    <3>2. u[1] = a => pc'[u] # "running" /\ u[2] # 0
      BY <1>1, <1>10, OneActive, TurnParts DEF Active, ActivePcs
    <3>3. CASE u[1] # a
      BY <1>10, <3>1, <3>3, TurnParts DEF Matched, HolderRuns
    <3> QED
      BY <3>1, <3>2, <3>3
  <2>2. CASE ~Lets
    <3>1. pc[t] # "running"
      BY <2>2 DEF Ends, Breaks, OpenFails, PrepareFails, FinishFails, Finish
    <3> QED
      BY <1>3, <1>10, <2>2, <3>1, HolderKept DEF Matched
  <2> QED
    BY <2>1, <2>2
<1>12. DeadForGood'
  BY <1>3, <1>10, DeadKept DEF Matched
<1> QED
  BY <1>9, <1>11, <1>12 DEF Matched

\* The loop asks, or its request is answered: nothing else changes.
Talks ==
  /\ pc' = pc /\ hasHandle' = hasHandle /\ turnSlots' = turnSlots
  /\ \A a \in Agent : link'[a].stream = link[a].stream
  /\ \A u \in Turn :
       \/ loop'[u] = loop[u]
       \/ /\ loop[u] = "thinking" /\ loop'[u] = "asking"
          /\ link[u[1]].stream = "open"
       \/ loop[u] = "asking" /\ loop'[u] = "thinking"

\* Steps in which no turn moves and no loop starts or ends.
LEMMA TalksMatched ==
  ASSUME Matched, Talks
  PROVE  Matched'
<1>1. ASSUME NEW u \in Turn PROVE TurnMatches(u)'
  <2>1. TurnMatches(u) /\ u[1] \in Agent
    BY TurnParts DEF Matched
  <2> QED
    BY <2>1 DEF Talks, TurnMatches, HandleMatches, LoopMatches, LinkMatches
<1>2. HolderRuns'
  BY HolderKept DEF Talks, Matched
<1>3. DeadForGood'
  BY DeadKept DEF Talks, Matched
<1> QED
  BY <1>1, <1>2, <1>3 DEF Matched

\* A request and its answer are such steps,
LEMMA AskTalks ==
  ASSUME TypeOK, NEW t \in Turn,
         AskStep(t) \/ Asks(t) \/ Respond(t) \/ QuotaWaits(t)
  PROVE  Talks
<1> USE DEF Talks, hostVars, askVars, agentVars
<1>1. t[1] \in Agent /\ DOMAIN loop = Turn
  BY TurnParts DEF TypeOK
<1>2. DeliverDecision(t) =>
        \A u \in Turn : \/ loop'[u] = loop[u]
                        \/ loop[u] = "asking" /\ loop'[u] = "thinking"
  BY <1>1 DEF DeliverDecision
<1>3. CASE AskLogged(t)
  BY <1>3 DEF AskLogged
<1>4. CASE AskOpens(t)
  BY <1>4 DEF AskOpens
<1>5. CASE Answered(t)
  BY <1>5 DEF Answered
<1>6. CASE ResumeWithoutSlot(t)
  BY <1>2, <1>6 DEF ResumeWithoutSlot
<1>7. CASE RetakeSlot(t)
  BY <1>2, <1>7 DEF RetakeSlot
<1>8. CASE QueueAgain(t)
  BY <1>1, <1>8, StreamAfter DEF QueueAgain
<1>9. CASE SlotAgain(t)
  BY <1>2, <1>9 DEF SlotAgain
<1>10. CASE Asks(t)
  BY <1>1, <1>10 DEF Asks
<1>11. CASE Respond(t)
  BY <1>11 DEF Respond
<1>12. CASE QuotaWaits(t)
  BY <1>1, <1>12, StreamAfter DEF QuotaWaits
<1> QED
  BY <1>3, <1>4, <1>5, <1>6, <1>7, <1>8, <1>9, <1>10, <1>11, <1>12 DEF AskStep

\* ... and so is interrupt() on the side of the session host.
LEMMA InterruptTalks ==
  ASSUME TypeOK, NEW a \in Agent,
         Interrupt(a) \/ InterruptLogged(a)
  PROVE  Talks
<1> USE DEF Talks, hostVars, askVars, agentVars
<1>1. CASE Interrupt(a)
  BY <1>1, StreamAfter DEF Interrupt
<1>2. CASE InterruptLogged(a)
  BY <1>2 DEF InterruptLogged
<1> QED
  BY <1>1, <1>2

\* The agent host closes the stream: nobody asks through it any more.
LEMMA InterruptArrivesMatched ==
  ASSUME TypeOK, Matched, NEW a \in Agent, InterruptArrives(a)
  PROVE  Matched'
<1>1. CASE link[a].stream = "open"
  <2>1. link' = [link EXCEPT ![a].stream = "closed"]
    BY <1>1 DEF InterruptArrives
  <2>2. \A b \in Agent :
          link'[b].stream = IF b = a THEN "closed" ELSE link[b].stream
    BY <2>1, StreamAfter
  <2>3. \A u \in Turn : loop'[u] = IF u[1] = a /\ loop[u] = "asking"
                                    THEN "thinking" ELSE loop[u]
    BY <1>1 DEF InterruptArrives
  <2>4. pc' = pc /\ hasHandle' = hasHandle /\ turnSlots' = turnSlots
    BY DEF InterruptArrives, hostVars, askVars
  <2>5. ASSUME NEW u \in Turn PROVE TurnMatches(u)'
    <3>1. TurnMatches(u) /\ u[1] \in Agent
      BY TurnParts DEF Matched
    <3> QED
      BY <2>2, <2>3, <2>4, <3>1 DEF TurnMatches, HandleMatches, LoopMatches,
         LinkMatches
  <2>6. HolderRuns'
    BY <2>4, HolderKept DEF Matched
  <2>7. DeadForGood'
    BY <2>3, <2>4, DeadKept DEF Matched
  <2> QED
    BY <2>5, <2>6, <2>7 DEF Matched
<1>2. CASE link[a].stream # "open"
  <2>1. Talks
    BY <1>2 DEF InterruptArrives, Talks, hostVars, askVars
  <2> QED
    BY <2>1, TalksMatched
<1> QED
  BY <1>1, <1>2

\* The turns that ran are rejected, and their streams are gone.
LEMMA HostExitMatched ==
  ASSUME TypeOK, DrainsInOrder, Matched, HostExit
  PROVE  Matched'
<1>1. pc' = pc /\ hasHandle' = hasHandle /\ turnSlots' = turnSlots
  BY DEF HostExit, hostVars, askVars
<1>2. \A b \in Agent : link'[b].stream = IF hasHandle[b] THEN "closed"
                                         ELSE link[b].stream
  <2>1. \A l \in LinkType : [l EXCEPT !.stream = "closed"].stream = "closed"
    BY DEF LinkType
  <2> QED
    BY <2>1, LinkTyped DEF HostExit
<1>3. \A u \in Turn :
        \/ loop'[u] = "refused" /\ loop[u] # "off" /\ pc[u] = "running"
        \/ /\ loop'[u] = loop[u]
           /\ ~(loop[u] \in {"thinking", "asking"} /\ pc[u] = "running")
  BY DEF HostExit
<1>4. ASSUME NEW u \in Turn PROVE TurnMatches(u)'
  <2>1. TurnMatches(u) /\ u[1] \in Agent
    BY TurnParts DEF Matched
  <2> QED
    BY <1>1, <1>2, <1>3, <2>1 DEF TurnMatches, HandleMatches, LoopMatches,
       LinkMatches
<1>5. HolderRuns'
  BY <1>1, HolderKept DEF Matched
<1>6. DeadForGood'
  <2> SUFFICES ASSUME NEW v \in Turn, NEW u \in Turn, v[1] = u[1],
                      loop'[v] = "refused", pc'[u] = "running"
               PROVE  loop'[u] = "refused"
    BY DEF DeadForGood
  <2>1. CASE v = u
    BY <2>1
  <2>2. CASE v # u
    <3>1. pc[v] # "running"
      BY <1>1, <2>2, OneActive DEF Active, ActivePcs
    <3> QED
      BY <1>1, <1>3, <3>1 DEF Matched, DeadForGood
  <2> QED
    BY <2>1, <2>2
<1> QED
  BY <1>4, <1>5, <1>6 DEF Matched

\* send() adds a turn that was not there, and starts it if nobody drains.
LEMMA SendStarts ==
  ASSUME TypeOK, DrainsInOrder, NEW a \in Agent, Send(a)
  PROVE  \E t \in Turn :
           /\ t[1] = a /\ pc[t] = "unsent"
           /\ \/ pc' = [pc EXCEPT ![t] = "queued"] /\ link' = link
              \/ /\ pc' = [pc EXCEPT ![t] = StartOf(a)]
                 /\ ~draining[a] /\ OpenLink(a)
<1> DEFINE n == sent[a] + 1
           t == <<a, n>>
<1>1. n \in 1..MaxTurns /\ t \in Turn /\ t[1] = a
  <2>3. sent[a] \in 0..MaxTurns
    BY DEF TypeOK
  <2>4. MaxTurns \in Nat /\ MaxSends[a] \in 0..MaxTurns
    BY TurnsAssumption
  <2>1. sent[a] \in 0..MaxTurns /\ MaxTurns \in Nat /\ n <= MaxTurns
    BY <2>3, <2>4 DEF Send
  <2>2. n \in 1..MaxTurns
    BY <2>1
  <2> HIDE DEF n
  <2> QED
    BY <2>2, TurnParts
<1>2. pc[t] = "unsent"
  <2>1. PICK c \in 0..MaxTurns : InOrder(a, c)
    BY DEF DrainsInOrder
  <2>2. n \in (sent[a] + 1)..MaxTurns
    BY <1>1, TurnsAssumption DEF TypeOK
  <2> QED
    BY <2>1, <2>2 DEF InOrder
<1> HIDE DEF t
<1>3. \/ pc' = [pc EXCEPT ![t] = "queued"] /\ link' = link
      \/ /\ pc' = [pc EXCEPT ![t] = StartOf(a)]
         /\ ~draining[a] /\ OpenLink(a)
  BY DEF Send, t, MayDrain
<1> QED
  BY <1>1, <1>2, <1>3

\* A new turn has no loop.
LEMMA SendMatched ==
  ASSUME TypeOK, DrainsInOrder, Matched, NEW a \in Agent, Send(a)
  PROVE  Matched'
<1>1. PICK t \in Turn :
        /\ t[1] = a /\ pc[t] = "unsent"
        /\ \/ pc' = [pc EXCEPT ![t] = "queued"] /\ link' = link
           \/ /\ pc' = [pc EXCEPT ![t] = StartOf(a)]
              /\ ~draining[a] /\ OpenLink(a)
  BY SendStarts
<1>3. /\ loop' = loop /\ hasHandle' = hasHandle /\ turnSlots' = turnSlots
      /\ \/ pc' = [pc EXCEPT ![t] = "queued"] /\ link' = link
         \/ /\ pc' = [pc EXCEPT ![t] = StartOf(a)]
            /\ ~draining[a] /\ OpenLink(a)
  BY <1>1 DEF Send, askVars
<1>4. pc \in [Turn -> PcType]
  BY DEF TypeOK, PcType
<1>5. /\ pc'[t] \in {"queued", StartOf(a)}
      /\ \A u \in Turn : u # t => pc'[u] = pc[u]
  BY <1>1, <1>3, <1>4
<1>6. loop[t] = "off"
  BY <1>1 DEF TypeOK, Matched, TurnMatches, LoopMatches
<1>7. ASSUME NEW u \in Turn PROVE TurnMatches(u)'
  <2>1. TurnMatches(u) /\ TurnMatches(t) /\ u[1] \in Agent
    BY <1>1, TurnParts DEF Matched
  <2>2. CASE u = t
    BY <1>1, <1>3, <1>5, <1>6, <2>2 DEF StartOf, TurnMatches, HandleMatches,
       LoopMatches, LinkMatches
  <2>3. CASE u # t /\ link' = link
    BY <1>3, <1>5, <2>1, <2>3, KeptMatches
  <2>4. CASE u # t /\ ~draining[a] /\ OpenLink(a)
    <3>1. \A b \in Agent :
            link'[b].stream = IF b = a /\ ~hasHandle[a] THEN "none"
                              ELSE link[b].stream
      BY <2>4, StreamAfter
    <3>2. CASE u[1] # a
      BY <1>3, <1>5, <2>1, <2>4, <3>1, <3>2, KeptMatches
    <3>3. CASE u[1] = a
      <4>1. ~Active(u)
        BY <2>4, <3>3, OneActive
      <4>2. loop[u] = "refused" => hasHandle'[a] /\ link'[a].stream # "open"
        BY <1>3, <3>1, <3>3, RefusedLink
      <4> QED
        BY <1>3, <1>5, <2>1, <2>4, <3>3, <4>1, <4>2, IdleMatches
    <3> QED
      BY <3>2, <3>3
  <2> QED
    BY <1>3, <2>2, <2>3, <2>4
<1>8. \A u \in Turn : pc'[u] = "running" <=> pc[u] = "running"
  BY <1>1, <1>5 DEF StartOf
<1> QED
  BY <1>3, <1>7, <1>8, HolderKept, DeadKept DEF Matched

\* Every action keeps turns, loops, handles and holders together.
LEMMA StepMatched ==
  ASSUME TypeOK, DrainsInOrder, Matched, Next
  PROVE  Matched'
BY SendMatched, InterruptTalks, TalksMatched, InterruptArrivesMatched,
   MoveMatched, SendToMatched, LoopEndsMatched, SettleMatched, EndsMatched,
   AskTalks, HostExitMatched
   DEF Next, InterruptStep, TurnStep, Ends

\* No turn runs on a host that starts.
LEMMA InitMatched == Init => Matched
BY TurnParts DEF Init, Matched, TurnMatches, HandleMatches, LoopMatches,
   LinkMatches, DeadForGood, HolderRuns

----------------------------------------------------------------------------
\* The fourth layer: the slot of a turn agrees with its loop and its request.
AskMatches(t) ==
  /\ ask[t] # "none" => /\ loop[t] \in {"thinking", "asking", "refused"}
                        /\ loop[t] = "thinking" => link[t[1]].stream # "open"
  /\ ask[t] \in {"appending", "logged"}
       => phase[t] = IF pc[t] = "running" THEN "held" ELSE "released"
  /\ ask[t] \in {"pending", "answering", "resuming"} => phase[t] = "released"
  /\ ask[t] \in {"pending", "answering", "resuming", "requeued"}
       /\ loop[t] = "asking" => holderOf[t] = t[2]

PhaseMatches(t) ==
  /\ loop[t] = "thinking" /\ link[t[1]].stream = "open" => phase[t] = "held"
  /\ loop[t] = "ended" /\ pc[t] = "running" => phase[t] = "held"
  /\ pc[t] \in {"finishing", "done"} => phase[t] = "released"

OneAsk ==
  \A t, u \in Turn :
    t[1] = u[1] /\ ask[t] # "none" /\ ask[u] # "none" => t = u

\* decide may find the holder of a later turn in turnSlots; that turn was
\* rejected, and asks for nothing.
StrangersHolder ==
  \A t, u \in Turn :
    t # u /\ t[1] = u[1] /\ holderOf[t] = u[2]
      => loop[u] = "refused" /\ ask[u] = "none"

SlotsMatch == /\ \A t \in Turn : AskMatches(t) /\ PhaseMatches(t)
              /\ OneAsk
              /\ StrangersHolder

\* What the class TurnSlots does to the phases of the turns.
Steady(u) == phase[u] \in {"held", "released"} => phase'[u] = phase[u]

\* A turn that holds a slot keeps it until it is released, by name.
LEMMA PhaseAfter ==
  ASSUME SlotInv, NEW k \in Turn
  PROVE  /\ Slots!TakeSlot(k) =>
              phase'[k] = "held" /\ \A u \in Turn \ {k} : Steady(u)
         /\ Slots!JoinQueue(k) => \A u \in Turn \ {k} : Steady(u)
         /\ Slots!Resume(k) =>
              phase'[k] = "held" /\ \A u \in Turn \ {k} : Steady(u)
         /\ Slots!Release(k) =>
              /\ phase[k] = "held" => phase'[k] = "released"
              /\ phase[k] = "released" => phase'[k] = "released"
              /\ \A u \in Turn \ {k} : Steady(u)
<1>1. phase \in [Turn -> Slots!Phases] /\ waiting \in Seq(Turn)
  BY DEF SlotInv, Slots!TypeOK
<1>2. Slots!TakeSlot(k) =>
        phase'[k] = "held" /\ \A u \in Turn \ {k} : Steady(u)
  BY <1>1 DEF Slots!TakeSlot, Steady
<1>3. Slots!JoinQueue(k) => \A u \in Turn \ {k} : Steady(u)
  BY <1>1 DEF Slots!JoinQueue, Steady
<1>4. Slots!Resume(k) =>
        phase'[k] = "held" /\ \A u \in Turn \ {k} : Steady(u)
  BY <1>1 DEF Slots!Resume, Steady
<1>5. ASSUME Slots!Release(k), phase[k] # "held"
      PROVE  /\ phase[k] = "released" => phase'[k] = "released"
             /\ \A u \in Turn \ {k} : Steady(u)
  BY <1>5 DEF Slots!Release, Slots!FirstCall, Slots!slotVars, Steady
<1>6. ASSUME Slots!Release(k), phase[k] = "held"
      PROVE  phase'[k] = "released" /\ \A u \in Turn \ {k} : Steady(u)
  <2>1. Slots!GiveBack(k)
    BY <1>6 DEF Slots!Release, Slots!FirstCall
  <2>2. CASE waiting = <<>>
    BY <1>1, <2>1, <2>2 DEF Slots!GiveBack, Steady
  <2>3. CASE waiting # <<>>
    <3>1. Head(waiting) \in Turn /\ phase[Head(waiting)] = "queued"
      BY <1>1, <2>3 DEF SlotInv, Slots!SlotSafety, Slots!QueueIsQueued
    <3>2. phase' = [phase EXCEPT ![k] = "released", ![Head(waiting)] = "woken"]
      BY <2>1, <2>3 DEF Slots!GiveBack
    <3> QED
      BY <1>1, <1>6, <3>1, <3>2 DEF Steady
  <2> QED
    BY <2>2, <2>3
<1> QED
  BY <1>2, <1>3, <1>4, <1>5, <1>6

\* A turn that the step is not about.
LEMMA KeptSlots ==
  ASSUME NEW u \in Turn, AskMatches(u), PhaseMatches(u), Steady(u),
         ask'[u] = ask[u], loop'[u] = loop[u], pc'[u] = pc[u],
         holderOf'[u] = holderOf[u],
         loop[u] = "thinking" /\ link'[u[1]].stream = "open"
           => link[u[1]].stream = "open"
  PROVE  AskMatches(u)' /\ PhaseMatches(u)'
BY DEF AskMatches, PhaseMatches, Steady

\* A turn that has no loop, or has one that never started.
LEMMA NoLoopSlots ==
  ASSUME NEW u \in Turn, AskMatches(u), loop[u] = "off",
         ask'[u] = ask[u], loop'[u] = loop[u],
         pc'[u] \notin {"finishing", "done"}
  PROVE  AskMatches(u)' /\ PhaseMatches(u)'
BY DEF AskMatches, PhaseMatches

\* No request is made and no rejected loop comes back.
LEMMA AsksKept ==
  ASSUME OneAsk, StrangersHolder, UNCHANGED holderOf,
         \A u \in Turn : ask[u] = "none" => ask'[u] = "none",
         \A u \in Turn : loop[u] = "refused" => loop'[u] = "refused"
  PROVE  OneAsk' /\ StrangersHolder'
BY DEF OneAsk, StrangersHolder

\* A turn that a step is not about: at most it is started.
MayStart(u) == \/ pc'[u] = pc[u]
               \/ loop[u] = "off" /\ pc'[u] \notin {"finishing", "done"}

Bystander(u) ==
  /\ Steady(u)
  /\ ask'[u] = ask[u] /\ loop'[u] = loop[u] /\ holderOf'[u] = holderOf[u]
  /\ MayStart(u)

\* No loop that runs gets its stream back.
StreamsStay ==
  \A u \in Turn : loop[u] = "thinking" /\ link'[u[1]].stream = "open"
                    => link[u[1]].stream = "open"

\* The slots of a turn that a step is not about.
LEMMA BystanderSlots ==
  ASSUME NEW u \in Turn, AskMatches(u), PhaseMatches(u), StreamsStay,
         Bystander(u)
  PROVE  AskMatches(u)' /\ PhaseMatches(u)'
<1>1. CASE pc'[u] = pc[u]
  BY <1>1, KeptSlots DEF Bystander, StreamsStay
<1>2. CASE pc'[u] # pc[u]
  BY <1>2, NoLoopSlots DEF Bystander, MayStart
<1> QED
  BY <1>1, <1>2

\* A step about one turn.
LEMMA OneTurnSlots ==
  ASSUME SlotsMatch, StreamsStay, NEW t \in Turn,
         \A u \in Turn \ {t} : Bystander(u),
         AskMatches(t)', PhaseMatches(t)'
  PROVE  \A u \in Turn : AskMatches(u)' /\ PhaseMatches(u)'
<1> SUFFICES ASSUME NEW u \in Turn \ {t}
             PROVE  AskMatches(u)' /\ PhaseMatches(u)'
  OBVIOUS
<1>1. AskMatches(u) /\ PhaseMatches(u)
  BY DEF SlotsMatch
<1> QED
  BY <1>1, BystanderSlots

\* A step about no slot and no request.
LEMMA RestSlots ==
  ASSUME SlotsMatch, StreamsStay, \A u \in Turn : Bystander(u)
  PROVE  SlotsMatch'
<1>1. \A u \in Turn : AskMatches(u)' /\ PhaseMatches(u)'
  BY BystanderSlots DEF SlotsMatch
<1>2. OneAsk' /\ StrangersHolder'
  BY DEF SlotsMatch, OneAsk, StrangersHolder, Bystander
<1> QED
  BY <1>1, <1>2 DEF SlotsMatch

\* A turn without a loop asks nothing.
LEMMA OffIsIdle ==
  ASSUME TypeOK, Matched, NEW t \in Turn,
         pc[t] \notin {"running", "finishing", "done", "thrown", "broken"}
  PROVE  loop[t] = "off"
BY DEF TypeOK, Matched, TurnMatches, LoopMatches

\* Turns on their way to the slot have no loop, so nothing is asked of them.
LEMMA StartSlots ==
  ASSUME TypeOK, DrainsInOrder, Matched, SlotsMatch, NEW t \in Turn,
         Opened(t) \/ Prepared(t) \/ QuotaWaits(t) \/ OpenFails(t)
           \/ PrepareFails(t)
  PROVE  SlotsMatch'
<1>1. t[1] \in Agent /\ loop[t] = "off" /\ Active(t)
  BY TurnParts, OffIsIdle DEF Opened, Prepared, QuotaWaits, OpenFails,
     PrepareFails, Active, ActivePcs
<1>2. /\ phase' = phase /\ ask' = ask /\ loop' = loop /\ holderOf' = holderOf
      /\ sent' = sent
  BY DEF Opened, Prepared, QuotaWaits, OpenFails, PrepareFails, slotVars, askVars,
     agentVars, hostVars
<1>3. \A u \in Turn : Steady(u)
  BY <1>2 DEF Steady
<1>4. CASE OpenFails(t) \/ PrepareFails(t)
  <2>1. PICK result \in {"thrown", "broken"} :
          DrainNext(t, result) /\ result \in EndPcs
    BY <1>4 DEF OpenFails, PrepareFails, EndPcs
  <2>2. DrainedOut(t, result) \/ \E h \in Turn : DrainedTo(t, result, h)
    BY <1>1, <1>2, <2>1, DrainNextInOrder
  <2>3. StreamsStay
    BY <1>1, <2>2, StreamAfter, TurnParts
       DEF DrainedOut, DrainedTo, StreamsStay
  <2>5. ASSUME NEW u \in Turn PROVE MayStart(u)
    <3>1. pc \in [Turn -> PcType]
      BY DEF TypeOK, PcType
    <3>2. CASE DrainedOut(t, result)
      BY <1>1, <3>1, <3>2 DEF DrainedOut, MayStart
    <3>3. ASSUME NEW h \in Turn, DrainedTo(t, result, h) PROVE MayStart(u)
      <4>1. loop[h] = "off"
        BY <3>3, OffIsIdle DEF DrainedTo
      <4> QED
        BY <1>1, <3>1, <3>3, <4>1 DEF DrainedTo, StartOf, MayStart
    <3> QED
      BY <2>2, <3>2, <3>3
  <2> QED
    BY <1>2, <1>3, <2>3, <2>5, RestSlots DEF Bystander
<1>5. CASE Opened(t) \/ Prepared(t) \/ QuotaWaits(t)
  <2>1. ASSUME NEW u \in Turn PROVE MayStart(u)
    <3>1. PICK p \in {"preparing", "quota", pc[t]} : pc' = [pc EXCEPT ![t] = p]
      BY <1>5 DEF Opened, Prepared, QuotaWaits, hostVars, TypeOK
    <3>2. pc[t] \notin {"finishing", "done"} /\ pc \in [Turn -> PcType]
      BY <1>5 DEF Opened, Prepared, QuotaWaits, TypeOK, PcType
    <3> QED
      BY <1>1, <3>1, <3>2 DEF MayStart
  <2>2. StreamsStay
    <3> SUFFICES ASSUME NEW u \in Turn, loop[u] = "thinking",
                        link'[u[1]].stream = "open"
                 PROVE  link[u[1]].stream = "open"
      BY DEF StreamsStay
    <3>1. u[1] \in Agent /\ pc[u] = "running"
      BY TurnParts DEF Matched, TurnMatches, LoopMatches
    <3>2. u[1] # t[1]
      BY <1>1, <3>1, OneActive DEF Active, ActivePcs
    <3> QED
      BY <1>1, <1>5, <3>1, <3>2, StreamAfter DEF Opened, Prepared, QuotaWaits,
         agentVars
  <2> QED
    BY <1>2, <1>3, <2>1, <2>2, RestSlots DEF Bystander
<1> QED
  BY <1>4, <1>5

\* Nor has a turn that was just sent.
LEMMA SendSlots ==
  ASSUME TypeOK, DrainsInOrder, Matched, SlotsMatch, NEW a \in Agent, Send(a)
  PROVE  SlotsMatch'
<1>1. PICK t \in Turn : /\ pc[t] = "unsent"
                        /\ \/ pc' = [pc EXCEPT ![t] = "queued"] /\ link' = link
                           \/ /\ pc' = [pc EXCEPT ![t] = StartOf(a)]
                              /\ OpenLink(a)
  BY SendStarts
<1>2. loop[t] = "off"
  BY <1>1, OffIsIdle
<1>3. /\ phase' = phase /\ ask' = ask /\ loop' = loop /\ holderOf' = holderOf
  BY DEF Send, slotVars, askVars
<1>4. StreamsStay
  BY <1>1, StreamAfter, TurnParts DEF StreamsStay
<1>5. \A u \in Turn : \/ pc'[u] = pc[u]
                      \/ u = t /\ pc'[t] \in {"queued", StartOf(a)}
  BY <1>1 DEF TypeOK
<1> QED
  BY <1>2, <1>3, <1>4, <1>5, RestSlots DEF Bystander, MayStart, Steady, StartOf

\* acquireSlot: the turn has its slot before its loop runs.
LEMMA SlotSlots ==
  ASSUME TypeOK, SlotInv, DrainsInOrder, Matched, SlotsMatch, NEW t \in Turn,
         TakesSlot(t) \/ WaitsForSlot(t) \/ GotSlot(t)
  PROVE  SlotsMatch'
<1>1. t[1] \in Agent /\ loop[t] = "off" /\ AskMatches(t)
  BY TurnParts, OffIsIdle DEF TakesSlot, WaitsForSlot, GotSlot, SlotsMatch
<1>2. ask[t] = "none"
  BY <1>1 DEF AskMatches
<1>3. /\ ask' = ask /\ holderOf' = holderOf
      /\ \A u \in Turn \ {t} : pc'[u] = pc[u] /\ loop'[u] = loop[u]
  BY DEF TakesSlot, WaitsForSlot, GotSlot, SendTo, askVars, TypeOK
<1>4. \A u \in Turn \ {t} : Steady(u)
  BY PhaseAfter DEF TakesSlot, WaitsForSlot, GotSlot
<1>5. StreamsStay
  <2>1. \/ link' = link \/ ReplaceController(t[1])
    BY DEF TakesSlot, WaitsForSlot, GotSlot
  <2> QED
    BY <1>1, <2>1, StreamAfter, TurnParts DEF StreamsStay
<1>6. AskMatches(t)'
  BY <1>2, <1>3 DEF AskMatches
<1>7. PhaseMatches(t)'
  <2>1. CASE WaitsForSlot(t)
    BY <1>1, <2>1 DEF WaitsForSlot, PhaseMatches, TypeOK
  <2>2. CASE TakesSlot(t) \/ GotSlot(t)
    <3>1. phase'[t] = "held" /\ pc'[t] = "running"
      BY <2>2, PhaseAfter DEF TakesSlot, GotSlot, SendTo, TypeOK
    <3> QED
      BY <3>1 DEF PhaseMatches
  <2> QED
    BY <2>1, <2>2
<1>8. OneAsk' /\ StrangersHolder'
  BY <1>1, <1>3, AsksKept DEF SlotsMatch
<1>9. \A u \in Turn : AskMatches(u)' /\ PhaseMatches(u)'
  BY <1>3, <1>4, <1>5, <1>6, <1>7, OneTurnSlots DEF Bystander, MayStart
<1> QED
  BY <1>8, <1>9 DEF SlotsMatch

\* The loop returns: its turn keeps the slot until it settles.
LEMMA LoopEndsSlots ==
  ASSUME TypeOK, SlotsMatch, Matched, NEW t \in Turn, LoopEnds(t)
  PROVE  SlotsMatch'
<1>1. /\ t[1] \in Agent /\ AskMatches(t) /\ PhaseMatches(t)
      /\ loop[t] = "thinking" /\ pc[t] = "running"
  BY TurnParts DEF LoopEnds, SlotsMatch, Matched, TurnMatches, LoopMatches
<1>2. /\ phase' = phase /\ ask' = ask /\ pc' = pc /\ holderOf' = holderOf
      /\ \A u \in Turn \ {t} : loop'[u] = loop[u]
      /\ loop'[t] = IF link[t[1]].stream = "open" THEN "ended" ELSE "refused"
  BY DEF LoopEnds, hostVars, askVars, slotVars, TypeOK
<1>3. \A b \in Agent :
        link'[b].stream = IF b = t[1] THEN "closed" ELSE link[b].stream
  BY <1>1, StreamAfter DEF LoopEnds
<1>4. StreamsStay
  BY <1>3, TurnParts DEF StreamsStay
<1>5. \A u \in Turn \ {t} : Bystander(u)
  BY <1>2 DEF Bystander, MayStart, Steady
<1>6. AskMatches(t)' /\ PhaseMatches(t)'
  BY <1>1, <1>2 DEF AskMatches, PhaseMatches
<1>7. OneAsk' /\ StrangersHolder'
  <2>1. \A u \in Turn : loop[u] = "refused" => loop'[u] = "refused"
    BY <1>1, <1>2
  <2> QED
    BY <1>2, <2>1, AsksKept DEF SlotsMatch
<1> QED
  BY <1>4, <1>5, <1>6, <1>7, OneTurnSlots DEF SlotsMatch

\* The `finally` of a turn that settles gives its slot back,
LEMMA SettleSlots ==
  ASSUME TypeOK, SlotInv, SlotsMatch, NEW t \in Turn, Settle(t)
  PROVE  SlotsMatch'
<1>1. /\ t[1] \in Agent /\ AskMatches(t) /\ PhaseMatches(t)
      /\ loop[t] = "ended" /\ pc[t] = "running"
  BY TurnParts DEF Settle, SlotsMatch
<1>2. ask[t] = "none" /\ phase[t] = "held"
  BY <1>1 DEF AskMatches, PhaseMatches
<1>3. phase'[t] = "released" /\ \A u \in Turn \ {t} : Steady(u)
  BY <1>2, PhaseAfter DEF Settle, ReleaseTurn
<1>4. /\ ask' = ask /\ loop' = loop /\ holderOf' = holderOf
      /\ pc'[t] = "finishing"
      /\ \A u \in Turn \ {t} : pc'[u] = pc[u]
  BY DEF Settle, TypeOK
<1>5. StreamsStay
  BY <1>1, StreamAfter, TurnParts DEF Settle, StreamsStay
<1>6. AskMatches(t)' /\ PhaseMatches(t)'
  BY <1>1, <1>2, <1>3, <1>4 DEF AskMatches, PhaseMatches
<1>7. OneAsk' /\ StrangersHolder'
  BY <1>4, AsksKept DEF SlotsMatch
<1> QED
  BY <1>3, <1>4, <1>5, <1>6, <1>7, OneTurnSlots
     DEF SlotsMatch, Bystander, MayStart

\* ... and so does that of a turn whose send was rejected.
LEMMA EndSlots ==
  ASSUME TypeOK, SlotInv, DrainsInOrder, Matched, SlotsMatch, NEW t \in Turn,
         Finish(t) \/ Throw(t) \/ PumpFails(t) \/ FinishFails(t)
  PROVE  SlotsMatch'
<1>1. t[1] \in Agent /\ Active(t) /\ AskMatches(t) /\ PhaseMatches(t)
  BY TurnParts DEF Finish, Throw, PumpFails, FinishFails, Active, ActivePcs, SlotsMatch
<1>2. PICK result \in EndPcs :
        /\ DrainNext(t, result)
        /\ \/ result \in {"done", "broken"} /\ (Finish(t) \/ FinishFails(t))
           \/ result = "thrown" /\ Throw(t)
           \/ result = "broken" /\ PumpFails(t)
  BY DEF Finish, Throw, PumpFails, FinishFails, EndPcs
<1>3. /\ ask' = ask /\ loop' = loop /\ holderOf' = holderOf /\ sent' = sent
  BY DEF Finish, Throw, PumpFails, FinishFails, askVars
<1>4. DrainedOut(t, result) \/ \E h \in Turn : DrainedTo(t, result, h)
  BY <1>1, <1>2, <1>3, DrainNextInOrder
<1>5. StreamsStay
  BY <1>1, <1>4, StreamAfter, TurnParts DEF DrainedOut, DrainedTo, StreamsStay
<1>6. /\ pc'[t] = result
      /\ \A u \in Turn \ {t} : MayStart(u)
  <2>1. pc \in [Turn -> PcType]
    BY DEF TypeOK, PcType
  <2>2. CASE DrainedOut(t, result)
    BY <2>1, <2>2 DEF DrainedOut, MayStart
  <2>3. ASSUME NEW h \in Turn, DrainedTo(t, result, h)
        PROVE  pc'[t] = result /\ \A u \in Turn \ {t} : MayStart(u)
    <3>1. loop[h] = "off"
      BY <2>3, OffIsIdle DEF DrainedTo
    <3> QED
      BY <2>1, <2>3, <3>1 DEF DrainedTo, StartOf, MayStart
  <2> QED
    BY <1>4, <2>2, <2>3
<1>7. \A u \in Turn \ {t} : Steady(u)
  BY PhaseAfter DEF Finish, Throw, PumpFails, FinishFails, ReleaseTurn, Steady, slotVars
<1>8. AskMatches(t)' /\ PhaseMatches(t)'
  <2>1. CASE Finish(t) \/ FinishFails(t)
    <3>1. loop[t] = "ended" /\ pc[t] = "finishing" /\ phase' = phase
      BY <2>1 DEF Finish, FinishFails, Matched, TurnMatches, LoopMatches, slotVars
    <3>2. ask[t] = "none" /\ phase[t] = "released"
      BY <1>1, <3>1 DEF AskMatches, PhaseMatches
    <3> QED
      BY <1>2, <1>3, <1>6, <2>1, <3>1, <3>2 DEF AskMatches, PhaseMatches, EndPcs
  <2>2. CASE result = "thrown" /\ Throw(t)
    <3>1. pc[t] = "running" /\ loop[t] = "refused" /\ Slots!Release(t)
      BY <2>2 DEF Throw, ReleaseTurn
    <3>2. phase[t] \in {"held", "released"} => phase'[t] = "released"
      BY <3>1, PhaseAfter
    <3> QED
      BY <1>1, <1>3, <1>6, <2>2, <3>1, <3>2 DEF AskMatches, PhaseMatches
  <2>3. CASE PumpFails(t)
    <3>1. loop[t] = "ended" /\ pc[t] = "running" /\ Slots!Release(t)
      BY <2>3 DEF PumpFails, ReleaseTurn
    <3>2. ask[t] = "none" /\ phase[t] = "held"
      BY <1>1, <3>1 DEF AskMatches, PhaseMatches
    <3>3. phase'[t] = "released"
      BY <3>1, <3>2, PhaseAfter
    <3> QED
      BY <1>3, <1>6, <3>1, <3>2, <3>3 DEF AskMatches, PhaseMatches, EndPcs
  <2> QED
    BY <1>2, <2>1, <2>2, <2>3
<1>9. OneAsk' /\ StrangersHolder'
  BY <1>3, AsksKept DEF SlotsMatch
<1> QED
  BY <1>3, <1>5, <1>6, <1>7, <1>8, <1>9, OneTurnSlots DEF SlotsMatch, Bystander

\* The loop of a turn asks: no other request of the agent is open, because
\* whoever made it was rejected and with it the stream.
LEMMA AsksSlots ==
  ASSUME TypeOK, DrainsInOrder, Matched, SlotsMatch, NEW t \in Turn, Asks(t)
  PROVE  SlotsMatch'
<1>1. /\ t[1] \in Agent /\ TurnMatches(t) /\ AskMatches(t) /\ PhaseMatches(t)
      /\ loop[t] = "thinking" /\ link[t[1]].stream = "open"
  BY TurnParts DEF Asks, SlotsMatch, Matched
<1>2. pc[t] = "running" /\ phase[t] = "held"
  BY <1>1 DEF TurnMatches, LoopMatches, PhaseMatches
<1>3. /\ phase' = phase /\ pc' = pc /\ holderOf' = holderOf /\ link' = link
      /\ \A u \in Turn \ {t} : ask'[u] = ask[u] /\ loop'[u] = loop[u]
      /\ ask'[t] = "appending" /\ loop'[t] = "asking"
  BY DEF Asks, hostVars, slotVars, TypeOK
<1>4. ASSUME NEW u \in Turn, u[1] = t[1], u # t PROVE ask[u] = "none"
  <2>1. loop[u] # "refused"
    BY <1>1, <1>4, RefusedLink
  <2>2. loop[u] \notin {"thinking", "asking"}
    BY <1>2, <1>4, OneActive DEF Matched, TurnMatches, LoopMatches, Active,
       ActivePcs
  <2> QED
    BY <2>1, <2>2 DEF SlotsMatch, AskMatches
<1>5. OneAsk'
  BY <1>3, <1>4 DEF SlotsMatch, OneAsk
<1>6. StrangersHolder'
  BY <1>1, <1>3 DEF SlotsMatch, StrangersHolder
<1>7. AskMatches(t)' /\ PhaseMatches(t)'
  BY <1>1, <1>2, <1>3 DEF AskMatches, PhaseMatches
<1>8. StreamsStay /\ \A u \in Turn \ {t} : Bystander(u)
  BY <1>3 DEF StreamsStay, Bystander, MayStart, Steady
<1> QED
  BY <1>5, <1>6, <1>7, <1>8, OneTurnSlots DEF SlotsMatch

\* A request moves on and keeps the slot as it is.
LEMMA TalkSlots ==
  ASSUME TypeOK, SlotsMatch, NEW t \in Turn,
         AskLogged(t) \/ Respond(t) \/ Answered(t) \/ ResumeWithoutSlot(t)
  PROVE  SlotsMatch'
<1>1. /\ t[1] \in Agent /\ t[2] # 0 /\ AskMatches(t) /\ PhaseMatches(t)
      /\ ask[t] # "none"
  BY TurnParts DEF AskLogged, Respond, Pending, Answered, ResumeWithoutSlot,
     SlotsMatch
<1>2. /\ phase' = phase /\ pc' = pc /\ holderOf' = holderOf /\ link' = link
      /\ \A u \in Turn \ {t} : ask'[u] = ask[u] /\ loop'[u] = loop[u]
  BY DEF AskLogged, Respond, Answered, ResumeWithoutSlot, DeliverDecision,
     hostVars, agentVars, slotVars, TypeOK
<1>3. loop'[t] = loop[t]
  BY <1>1 DEF AskLogged, Respond, Answered, ResumeWithoutSlot, DeliverDecision,
     Reacquires, AskMatches, agentVars, TypeOK
<1>4. AskMatches(t)' /\ PhaseMatches(t)'
  <2>1. CASE AskLogged(t)
    BY <1>1, <1>2, <1>3, <2>1 DEF AskLogged, AskMatches, PhaseMatches, TypeOK
  <2>2. CASE Respond(t)
    BY <1>1, <1>2, <1>3, <2>2 DEF Respond, Pending, AskMatches, PhaseMatches,
       TypeOK
  <2>3. CASE Answered(t)
    BY <1>1, <1>2, <1>3, <2>3 DEF Answered, AskMatches, PhaseMatches, TypeOK
  <2>4. CASE ResumeWithoutSlot(t)
    <3>1. ask'[t] = "none"
      BY <2>4 DEF ResumeWithoutSlot, DeliverDecision, TypeOK
    <3> QED
      BY <1>1, <1>2, <1>3, <3>1 DEF AskMatches, PhaseMatches
  <2> QED
    BY <2>1, <2>2, <2>3, <2>4
<1>5. StreamsStay /\ \A u \in Turn \ {t} : Bystander(u)
  BY <1>2 DEF StreamsStay, Bystander, MayStart, Steady
<1>6. OneAsk' /\ StrangersHolder'
  BY <1>1, <1>2, <1>3, AsksKept DEF SlotsMatch
<1> QED
  BY <1>4, <1>5, <1>6, OneTurnSlots DEF SlotsMatch

\* decide gives up the slot of its own turn, unless a send of the agent was
\* rejected in the meantime.
LEMMA AskOpensSlots ==
  ASSUME TypeOK, SlotInv, Matched, SlotsMatch, NEW t \in Turn, AskOpens(t)
  PROVE  SlotsMatch'
<1> DEFINE k == <<t[1], turnSlots[t[1]]>>
<1>1. /\ t[1] \in Agent /\ t[2] # 0 /\ t = <<t[1], t[2]>>
      /\ AskMatches(t) /\ PhaseMatches(t) /\ ask[t] = "logged"
  BY TurnParts DEF AskOpens, SlotsMatch
<1>2. /\ pc' = pc /\ link' = link /\ loop' = loop
      /\ \A u \in Turn \ {t} : ask'[u] = ask[u] /\ holderOf'[u] = holderOf[u]
      /\ ask'[t] = "pending" /\ holderOf'[t] = turnSlots[t[1]]
      /\ ReleaseWhileAsking(t)
  BY DEF AskOpens, hostVars, agentVars, TypeOK
<1>3. StreamsStay
  BY <1>2 DEF StreamsStay
<1>4. OneAsk'
  BY <1>1, <1>2 DEF SlotsMatch, OneAsk
<1>5. \A v, u \in Turn :
        v # u /\ v[1] = u[1] /\ holderOf[v] = u[2]
          => loop[u] = "refused" /\ ask'[u] = "none"
  BY <1>1, <1>2 DEF SlotsMatch, StrangersHolder
<1>6. CASE pc[t] = "running"
  <2>1. turnSlots[t[1]] = t[2]
    BY <1>6 DEF Matched, HolderRuns
  <2>2. phase[t] = "held" /\ Slots!Release(t)
    BY <1>1, <1>2, <1>6, <2>1 DEF ReleaseWhileAsking, AskMatches
  <2>3. phase'[t] = "released" /\ \A u \in Turn \ {t} : Steady(u)
    BY <2>2, PhaseAfter
  <2>4. \A u \in Turn \ {t} : Bystander(u)
    BY <1>2, <2>3 DEF Bystander, MayStart
  <2>5. AskMatches(t)' /\ PhaseMatches(t)'
    BY <1>1, <1>2, <1>6, <2>1, <2>3 DEF AskMatches, PhaseMatches
  <2>6. StrangersHolder'
    BY <1>2, <1>5, <2>1, TurnParts DEF StrangersHolder
  <2> QED
    BY <1>3, <1>4, <2>4, <2>5, <2>6, OneTurnSlots DEF SlotsMatch
<1>7. CASE pc[t] # "running"
  <2>1. loop[t] = "refused" /\ phase[t] = "released"
    BY <1>1, <1>7 DEF AskMatches, Matched, TurnMatches, LoopMatches
  <2>2. \A u \in Turn : u[1] = t[1] /\ u[2] = turnSlots[t[1]]
                          => /\ loop[u] = "refused" /\ pc[u] = "running"
                             /\ u # t /\ ask[u] = "none"
    BY <1>1, <1>7, <2>1
       DEF Matched, HolderRuns, DeadForGood, SlotsMatch, OneAsk
  <2>3. StrangersHolder'
    BY <1>2, <1>5, <2>2 DEF StrangersHolder
  <2>4. \A u \in Turn : u # k => Steady(u)
    <3>1. CASE turnSlots[t[1]] = 0
      BY <1>2, <3>1 DEF ReleaseWhileAsking, Steady, slotVars
    <3>2. CASE turnSlots[t[1]] # 0
      <4>1. turnSlots[t[1]] \in 0..MaxTurns
        BY <1>1 DEF TypeOK
      <4>2. k \in Turn
        BY <1>1, <3>2, <4>1, TurnParts, TurnsAssumption
      <4>3. Slots!Release(k)
        BY <1>2, <3>2 DEF ReleaseWhileAsking
      <4> HIDE DEF k
      <4> QED
        BY <4>2, <4>3, PhaseAfter
    <3> QED
      BY <3>1, <3>2
  <2>5. ASSUME NEW u \in Turn PROVE AskMatches(u)' /\ PhaseMatches(u)'
    <3>1. AskMatches(u) /\ PhaseMatches(u)
      BY DEF SlotsMatch
    <3>2. CASE u = k
      <4>1. /\ loop[u] = "refused" /\ pc[u] = "running"
            /\ u # t /\ ask[u] = "none"
        BY <2>2, <3>2, TurnParts
      <4> QED
        BY <1>2, <4>1 DEF AskMatches, PhaseMatches
    <3>3. CASE u = t
      <4>1. phase'[t] = "released"
        <5>1. t # k
          BY <2>2, TurnParts
        <5> QED
          BY <2>1, <2>4, <5>1 DEF Steady
      <4> QED
        BY <1>2, <2>1, <3>1, <3>3, <4>1 DEF AskMatches, PhaseMatches
    <3>4. CASE u # k /\ u # t
      BY <1>2, <1>3, <2>4, <3>1, <3>4, BystanderSlots DEF Bystander, MayStart
    <3> QED
      BY <3>2, <3>3, <3>4
  <2> QED
    BY <1>4, <2>3, <2>5 DEF SlotsMatch
<1> QED
  BY <1>6, <1>7

\* decide takes a slot again for the holder it found, and the loop gets its
\* answer: the slot is its own, or the loop was rejected long ago.
LEMMA RetakeSlots ==
  ASSUME TypeOK, AsksCounted, SlotInv, Matched, SlotsMatch, NEW t \in Turn,
         RetakeSlot(t) \/ QueueAgain(t) \/ SlotAgain(t)
  PROVE  SlotsMatch'
<1> DEFINE k == <<t[1], holderOf[t]>>
<1>1. /\ t[1] \in Agent /\ t = <<t[1], t[2]>>
      /\ AskMatches(t) /\ PhaseMatches(t) /\ AskCounted(t)
      /\ ask[t] \in {"resuming", "requeued"}
  BY TurnParts DEF RetakeSlot, QueueAgain, SlotAgain, SlotsMatch, AsksCounted
<1>2. k \in Turn
  <2>1. holderOf[t] \in 0..MaxTurns /\ holderOf[t] # 0
    BY <1>1
       DEF RetakeSlot, QueueAgain, SlotAgain, Reacquires, AskCounted, TypeOK
  <2> QED
    BY <1>1, <2>1, TurnParts, TurnsAssumption
<1>3. k[1] = t[1] /\ k[2] = holderOf[t]
  OBVIOUS
<1>4. /\ Slots!TakeSlot(k) \/ Slots!JoinQueue(k) \/ Slots!Resume(k)
      /\ ~QueueAgain(t) => phase'[k] = "held"
  <2>1. /\ RetakeSlot(t) => Slots!TakeSlot(k)
        /\ QueueAgain(t) => Slots!JoinQueue(k)
        /\ SlotAgain(t) => Slots!Resume(k)
    BY DEF RetakeSlot, QueueAgain, SlotAgain
  <2> HIDE DEF k
  <2> QED
    BY <1>2, <2>1, PhaseAfter
<1>5. /\ pc' = pc /\ holderOf' = holderOf
      /\ link' = link \/ ReplaceController(t[1])
      /\ \A u \in Turn \ {t} : ask'[u] = ask[u] /\ loop'[u] = loop[u]
      /\ \/ ~QueueAgain(t) /\ ask'[t] = "none"
         \/ QueueAgain(t) /\ ask'[t] = "requeued" /\ loop' = loop
      /\ loop'[t] = IF loop[t] = "asking" /\ ~QueueAgain(t) THEN "thinking"
                    ELSE loop[t]
  BY <1>1 DEF RetakeSlot, QueueAgain, SlotAgain, DeliverDecision, hostVars,
     TypeOK
<1> HIDE DEF k
<1>6. \A b \in Agent : link'[b].stream = link[b].stream
  BY <1>1, <1>5, StreamAfter
<1>7. StreamsStay
  BY <1>6, TurnParts DEF StreamsStay
<1>8. \A u \in Turn : u # k => Steady(u)
  BY <1>2, <1>4, PhaseAfter
<1>9. k # t => loop[k] = "refused" /\ ask[k] = "none" /\ loop[t] # "asking"
  <2>1. k # t => holderOf[t] # t[2]
    BY <1>1 DEF k
  <2> QED
    BY <1>1, <1>2, <1>3, <2>1 DEF SlotsMatch, StrangersHolder, AskMatches
<1>10. OneAsk' /\ StrangersHolder'
  <2>1. /\ \A u \in Turn : ask[u] = "none" => ask'[u] = "none"
        /\ \A u \in Turn : loop[u] = "refused" => loop'[u] = "refused"
    BY <1>1, <1>5
  <2> QED
    BY <1>5, <2>1, AsksKept DEF SlotsMatch
<1>11. ASSUME NEW u \in Turn PROVE AskMatches(u)' /\ PhaseMatches(u)'
  <2>1. AskMatches(u) /\ PhaseMatches(u) /\ u[1] \in Agent
    BY TurnParts DEF SlotsMatch
  <2>2. CASE u # k /\ u # t
    BY <1>5, <1>7, <1>8, <2>1, <2>2, BystanderSlots DEF Bystander, MayStart
  <2>3. CASE u = k /\ u # t
    <3>1. /\ loop'[u] = "refused" /\ ask'[u] = "none"
          /\ pc[u] \notin {"finishing", "done"}
      BY <1>5, <1>9, <2>1, <2>3 DEF Matched, TurnMatches, LoopMatches
    <3> QED
      BY <1>5, <3>1 DEF AskMatches, PhaseMatches
  <2>4. CASE u = t
    <3>1. /\ loop[t] \in {"thinking", "asking", "refused"}
          /\ loop[t] = "thinking" => link'[t[1]].stream # "open"
          /\ pc'[t] \notin {"finishing", "done"}
      BY <1>1, <1>5, <1>6 DEF AskMatches, Matched, TurnMatches, LoopMatches
    <3>2. AskMatches(t)'
      BY <1>1, <1>5, <3>1 DEF AskMatches
    <3>3. PhaseMatches(t)'
      <4>1. loop[t] = "asking" /\ ~QueueAgain(t) => phase'[t] = "held"
        BY <1>4, <1>9
      <4> QED
        BY <1>5, <3>1, <4>1 DEF PhaseMatches
    <3> QED
      BY <2>4, <3>2, <3>3
  <2> QED
    BY <2>2, <2>3, <2>4
<1> QED
  BY <1>10, <1>11 DEF SlotsMatch

\* A loop that was asking goes on without its slot, its stream closed.
LEMMA InterruptSlots ==
  ASSUME TypeOK, SlotsMatch, NEW a \in Agent,
         Interrupt(a) \/ InterruptStep(a)
  PROVE  SlotsMatch'
<1>1. /\ phase' = phase /\ pc' = pc /\ ask' = ask /\ holderOf' = holderOf
  BY DEF Interrupt, InterruptStep, InterruptArrives, InterruptLogged, hostVars,
     askVars, slotVars
<1>2. CASE loop' = loop
  <2>1. \A b \in Agent : link'[b].stream = link[b].stream
                         \/ link'[b].stream = "closed"
    BY StreamAfter DEF Interrupt, InterruptStep, InterruptArrives,
       InterruptLogged, agentVars
  <2>2. StreamsStay
    BY <2>1, TurnParts DEF StreamsStay
  <2> QED
    BY <1>1, <1>2, <2>2, RestSlots DEF Bystander, MayStart, Steady
<1>3. CASE loop' # loop
  <2>1. /\ link' = [link EXCEPT ![a].stream = "closed"]
        /\ loop' = [t \in Turn |-> IF t[1] = a /\ loop[t] = "asking"
                                   THEN "thinking" ELSE loop[t]]
    BY <1>3 DEF Interrupt, InterruptStep, InterruptArrives, InterruptLogged,
       agentVars
  <2>2. \A b \in Agent :
          link'[b].stream = IF b = a THEN "closed" ELSE link[b].stream
    BY <2>1, StreamAfter
  <2>3. \A u \in Turn : loop'[u] = IF u[1] = a /\ loop[u] = "asking"
                                   THEN "thinking" ELSE loop[u]
    BY <2>1
  <2>4. ASSUME NEW u \in Turn PROVE AskMatches(u)' /\ PhaseMatches(u)'
    <3>1. AskMatches(u) /\ PhaseMatches(u) /\ u[1] \in Agent
      BY TurnParts DEF SlotsMatch
    <3> QED
      BY <1>1, <2>2, <2>3, <3>1 DEF AskMatches, PhaseMatches
  <2>5. OneAsk' /\ StrangersHolder'
    BY <1>1, <2>3, AsksKept DEF SlotsMatch
  <2> QED
    BY <2>4, <2>5 DEF SlotsMatch
<1> QED
  BY <1>2, <1>3

\* The loops are gone; the slots wait for the `finally` of their turns.
LEMMA HostExitSlots ==
  ASSUME TypeOK, Matched, SlotsMatch, HostExit
  PROVE  SlotsMatch'
<1>1. /\ phase' = phase /\ pc' = pc /\ ask' = ask /\ holderOf' = holderOf
  BY DEF HostExit, hostVars, askVars, slotVars
<1>2. \A b \in Agent : link'[b].stream = link[b].stream
                       \/ link'[b].stream = "closed"
  <2>1. \A l \in LinkType : [l EXCEPT !.stream = "closed"].stream = "closed"
    BY DEF LinkType
  <2> QED
    BY <2>1, LinkTyped DEF HostExit
<1>3. \A u \in Turn :
        \/ loop'[u] = "refused" /\ loop[u] # "off" /\ pc[u] = "running"
        \/ loop'[u] = loop[u]
  BY DEF HostExit
<1>4. ASSUME NEW u \in Turn PROVE AskMatches(u)' /\ PhaseMatches(u)'
  <2>1. AskMatches(u) /\ PhaseMatches(u) /\ u[1] \in Agent /\ LoopMatches(u)
    BY TurnParts DEF SlotsMatch, Matched, TurnMatches
  <2>2. CASE loop'[u] = loop[u]
    BY <1>1, <1>2, <2>1, <2>2 DEF AskMatches, PhaseMatches
  <2>3. CASE loop'[u] = "refused" /\ loop[u] # "off" /\ pc[u] = "running"
    BY <1>1, <2>1, <2>3 DEF AskMatches, PhaseMatches
  <2> QED
    BY <1>3, <2>2, <2>3
<1>5. OneAsk' /\ StrangersHolder'
  BY <1>1, <1>3, AsksKept DEF SlotsMatch
<1> QED
  BY <1>4, <1>5 DEF SlotsMatch

\* Every action keeps slots, loops and requests together.
LEMMA StepSlotsMatch ==
  ASSUME TypeOK, AsksCounted, SlotInv, DrainsInOrder, Matched, SlotsMatch, Next
  PROVE  SlotsMatch'
BY SendSlots, StartSlots, SlotSlots, LoopEndsSlots, SettleSlots, EndSlots,
   AsksSlots, TalkSlots, AskOpensSlots, RetakeSlots, InterruptSlots,
   HostExitSlots
   DEF Next, TurnStep, Breaks, AskStep

\* Nothing is asked on a host that starts.
LEMMA InitSlotsMatch == Init => SlotsMatch
<1> SUFFICES ASSUME Init PROVE SlotsMatch
  OBVIOUS
<1>1. \A t \in Turn : /\ ask[t] = "none" /\ loop[t] = "off" /\ t[2] # 0
                      /\ pc[t] = "unsent" /\ holderOf[t] = 0
  BY TurnParts DEF Init
<1> QED
  BY <1>1 DEF SlotsMatch, AskMatches, PhaseMatches, OneAsk, StrangersHolder

----------------------------------------------------------------------------
\* The fifth layer: the session's state agrees with the agent's turns, for as
\* long as none of its sends has been rejected, and but for what a turn that
\* broke off has left behind.
AtWork(t)  == pc[t] \in {"quota", "slot", "running", "finishing"}
Open(t)    == ask[t] \in {"logged", "pending", "answering"}
Dead(t)    == pc[t] = "thrown" /\ loop[t] = "refused"
HasDead(a) == \E t \in Turn : t[1] = a /\ Dead(t)

StateMatches(a) ==
  /\ hasHandle[a] /\ ~draining[a] => HasDead(a) \/ BrokeOff(a)
  /\ ~HasDead(a) =>
       /\ state[a] \in {"working", "awaiting_permission"}
            => BrokeOff(a) \/ \E t \in Turn : t[1] = a /\ AtWork(t)
       /\ \A t \in Turn : t[1] = a /\ Open(t)
                            => state[a] = "awaiting_permission"

StatesMatch == \A a \in Agent : StateMatches(a)

\* In the terms of the model.
LEMMA DeadIsRejected == \A a \in Agent : HasDead(a) <=> Rejected(a)
<1> SUFFICES ASSUME NEW a \in Agent PROVE HasDead(a) <=> Rejected(a)
  OBVIOUS
<1>1. ASSUME NEW t \in Turn, t[1] = a, Dead(t) PROVE Rejected(a)
  <2>1. t[2] \in 1..MaxTurns /\ t = <<a, t[2]>>
    BY <1>1, TurnParts
  <2> QED
    BY <1>1, <2>1 DEF Dead, Rejected
<1>2. ASSUME NEW n \in 1..MaxTurns, Dead(<<a, n>>) PROVE HasDead(a)
  <2>1. <<a, n>> \in Turn /\ <<a, n>>[1] = a
    BY TurnParts
  <2> QED
    BY <1>2, <2>1 DEF HasDead
<1> QED
  BY <1>1, <1>2 DEF HasDead, Rejected, Dead

\* What broke off stays so until a turn is done.
LEMMA BrokenStays ==
  ASSUME NEW a \in Agent, BrokeOff(a),
         \A u \in Turn : u[1] = a =>
           /\ pc[u] = "broken" => pc'[u] = "broken"
           /\ pc'[u] = "done" => pc[u] = "done"
  PROVE  BrokeOff(a)'
<1>1. PICK n \in 1..MaxTurns :
        /\ pc[<<a, n>>] = "broken"
        /\ \A m \in (n + 1)..MaxTurns : pc[<<a, m>>] # "done"
  BY DEF BrokeOff
<1>2. \A m \in 1..MaxTurns : <<a, m>> \in Turn /\ <<a, m>>[1] = a
  BY TurnParts
<1>3. \A m \in (n + 1)..MaxTurns : m \in 1..MaxTurns
  BY TurnsAssumption
<1> QED
  BY <1>1, <1>2, <1>3 DEF BrokeOff

\* A step that takes nothing from an agent and tells its session nothing.
TurnStays(u) == /\ Dead(u) => Dead(u)'
                /\ AtWork(u) => AtWork(u)'
                /\ Open(u)' => Open(u)
                /\ pc[u] = "broken" => pc'[u] = "broken"
                /\ pc'[u] = "done" => pc[u] = "done"

StateStays(a) ==
  /\ state'[a] = state[a]
  /\ hasHandle'[a] /\ ~draining'[a] => hasHandle[a] /\ ~draining[a]
  /\ \A u \in Turn : u[1] = a => TurnStays(u)

\* The session's state stays true through such a step.
LEMMA StateKept ==
  ASSUME NEW a \in Agent, StateMatches(a), StateStays(a)
  PROVE  StateMatches(a)'
<1>1. BrokeOff(a) => BrokeOff(a)'
  BY BrokenStays DEF StateStays, TurnStays
<1>2. HasDead(a) => HasDead(a)'
  BY DEF StateStays, HasDead, TurnStays
<1> QED
  BY <1>1, <1>2 DEF StateMatches, StateStays, TurnStays

\* A rejected turn stays one.
LEMMA DeadStays ==
  ASSUME NEW u \in Turn, Dead(u), pc'[u] = pc[u],
         loop[u] = "refused" => loop'[u] = "refused"
  PROVE  Dead(u)'
BY DEF Dead

\* Whoever still asks is at work, or was rejected.
LEMMA AskerWorks ==
  ASSUME Matched, SlotsMatch, NEW u \in Turn, ask[u] # "none"
  PROVE  pc[u] = "running" \/ Dead(u)
BY DEF Matched, TurnMatches, LoopMatches, SlotsMatch, AskMatches, Dead

\* Actions that leave the queue, the turns and the states alone.
LEMMA QuietStates ==
  ASSUME TypeOK, StatesMatch, UNCHANGED <<pc, draining, hasHandle, state>>,
         \A u \in Turn : Open(u)' => Open(u),
         \A u \in Turn : loop[u] = "refused" => loop'[u] = "refused"
  PROVE  StatesMatch'
<1> SUFFICES ASSUME NEW a \in Agent PROVE StateMatches(a)'
  BY DEF StatesMatch
<1>1. StateStays(a)
  BY DEF StateStays, TurnStays, Dead, AtWork
<1> QED
  BY <1>1, StateKept DEF StatesMatch

\* Those are the steps of a loop and of most of decide.
LEMMA NextQuiet ==
  ASSUME TypeOK, StatesMatch, Matched, NEW t \in Turn,
         \/ QuotaWaits(t) \/ LoopEnds(t) \/ Asks(t) \/ AskOpens(t)
         \/ Respond(t) \/ ResumeWithoutSlot(t) \/ RetakeSlot(t)
         \/ QueueAgain(t) \/ SlotAgain(t)
  PROVE  StatesMatch'
<1>1. UNCHANGED <<pc, draining, hasHandle, state>>
  BY DEF QuotaWaits, LoopEnds, Asks, AskOpens, Respond, ResumeWithoutSlot,
     RetakeSlot, QueueAgain, SlotAgain, hostVars
<1>2. \A u \in Turn : loop[u] = "refused" => loop'[u] = "refused"
  BY DEF QuotaWaits, LoopEnds, Asks, AskOpens, Respond, ResumeWithoutSlot,
     RetakeSlot, QueueAgain, SlotAgain, DeliverDecision, agentVars, TypeOK
<1>3. \A u \in Turn : Open(u)' => Open(u)
  BY DEF QuotaWaits, LoopEnds, Asks, AskOpens, Respond, ResumeWithoutSlot,
     RetakeSlot, QueueAgain, SlotAgain, DeliverDecision, askVars, TypeOK, Open,
     Pending
<1> QED
  BY <1>1, <1>2, <1>3, QuietStates

\* interrupt() moves only a session that works and has no handle.
LEMMA InterruptStates ==
  ASSUME TypeOK, StatesMatch, NEW a \in Agent, Interrupt(a) \/ InterruptStep(a)
  PROVE  StatesMatch'
<1>1. \A u \in Turn : loop[u] = "refused" => loop'[u] = "refused"
  BY DEF Interrupt, InterruptStep, InterruptArrives, InterruptLogged, agentVars
<1>2. UNCHANGED <<pc, draining, hasHandle, ask>>
  BY DEF Interrupt, InterruptStep, InterruptArrives, InterruptLogged, hostVars,
     askVars
<1>3. CASE state' = state
  BY <1>1, <1>2, <1>3, QuietStates DEF Open
<1>4. CASE state' # state
  <2>1. /\ state[a] = "working" /\ state'[a] = "awaiting_input"
        /\ \A b \in Agent : b # a => state'[b] = state[b]
    BY <1>4 DEF Interrupt, InterruptStep, InterruptArrives, InterruptLogged,
       hostVars, TypeOK
  <2>2. \A u \in Turn : TurnStays(u)
    BY <1>1, <1>2, DeadStays DEF TurnStays, AtWork, Open
  <2> SUFFICES ASSUME NEW b \in Agent PROVE StateMatches(b)'
    BY DEF StatesMatch
  <2>3. CASE b # a
    <3>1. StateStays(b)
      BY <1>2, <2>1, <2>2, <2>3 DEF StateStays
    <3> QED
      BY <3>1, StateKept DEF StatesMatch
  <2>4. CASE b = a
    <3>1. StateMatches(a)
      BY DEF StatesMatch
    <3>2. HasDead(a) => HasDead(a)'
      BY <2>2 DEF HasDead, TurnStays
    <3>3. BrokeOff(a) => BrokeOff(a)'
      BY <2>2, BrokenStays DEF TurnStays
    <3> QED
      BY <1>2, <2>1, <2>2, <2>4, <3>1, <3>2, <3>3 DEF StateMatches, TurnStays
  <2> QED
    BY <2>3, <2>4
<1> QED
  BY <1>3, <1>4

\* The exit of the agent host tells the sessions nothing.
LEMMA HostExitStates ==
  ASSUME TypeOK, StatesMatch, HostExit
  PROVE  StatesMatch'
<1>1. \A u \in Turn : loop[u] = "refused" => loop'[u] = "refused"
  BY DEF HostExit
<1> QED
  BY <1>1, QuietStates DEF HostExit, hostVars, askVars, Open

\* While a turn of an agent does anything else than run, nothing asks for the
\* agent unless a send was rejected.
LEMMA NobodyAsks ==
  ASSUME TypeOK, DrainsInOrder, Matched, SlotsMatch,
         NEW t \in Turn, Active(t), pc[t] # "running",
         NEW u \in Turn, u[1] = t[1], ask[u] # "none"
  PROVE  Dead(u)
<1>1. pc[u] = "running" => u = t
  BY OneActive DEF Active, ActivePcs
<1> QED
  BY <1>1, AskerWorks

\* A step of one turn that leaves the queue alone: what it owes the state.
LEMMA MoveStates ==
  ASSUME TypeOK, StatesMatch, NEW t \in Turn, NEW a, a = t[1], a \in Agent,
         UNCHANGED draining, draining[a],
         \A b \in Agent \ {a} : /\ state'[b] = state[b]
                                /\ hasHandle'[b] = hasHandle[b],
         \A u \in Turn \ {t} : pc'[u] = pc[u] /\ loop'[u] = loop[u]
                               /\ ask'[u] = ask[u],
         ~HasDead(a)' =>
           /\ state'[a] \in {"working", "awaiting_permission"}
                => BrokeOff(a)' \/ \E u \in Turn : u[1] = a /\ AtWork(u)'
           /\ \A u \in Turn : u[1] = a /\ Open(u)'
                                => state'[a] = "awaiting_permission"
  PROVE  StatesMatch'
<1> SUFFICES ASSUME NEW b \in Agent PROVE StateMatches(b)'
  BY DEF StatesMatch
<1>1. CASE b # a
  <2>1. \A u \in Turn : u[1] = b => TurnStays(u)
    BY <1>1 DEF TurnStays, Dead, AtWork, Open
  <2>2. StateStays(b)
    BY <1>1, <2>1 DEF StateStays
  <2> QED
    BY <2>2, StateKept DEF StatesMatch
<1>2. CASE b = a
  BY <1>2 DEF StateMatches
<1> QED
  BY <1>1, <1>2

\* The agent's turn moves on to a pc where it is at work.
LEMMA WorkStates ==
  ASSUME TypeOK, DrainsInOrder, Matched, SlotsMatch, StatesMatch,
         NEW t \in Turn,
         Opened(t) \/ Prepared(t) \/ TakesSlot(t) \/ WaitsForSlot(t)
           \/ GotSlot(t) \/ Settle(t)
  PROVE  StatesMatch'
<1> DEFINE a == t[1]
<1>1. /\ a \in Agent /\ Active(t) /\ draining[a] /\ StateMatches(a)
      /\ pc[t] # "thrown"
  BY TurnParts, OneActive DEF Opened, Prepared, TakesSlot, WaitsForSlot,
     GotSlot, Settle, Active, ActivePcs, StatesMatch
<1>2. /\ \A u \in Turn \ {t} : pc'[u] = pc[u] /\ loop'[u] = loop[u]
      /\ pc'[t] \in {"preparing", "quota", "slot", "running", "finishing"}
      /\ pc'[t] = "preparing" => ~AtWork(t)
      /\ ask' = ask /\ draining' = draining
      /\ \A b \in Agent \ {a} : /\ state'[b] = state[b]
                                /\ hasHandle'[b] = hasHandle[b]
      /\ IF Prepared(t) THEN state'[a] = "working" ELSE state' = state
  BY <1>1 DEF Opened, Prepared, TakesSlot, WaitsForSlot, GotSlot, Settle,
     SendTo, DropHandle, askVars, agentVars, TypeOK, AtWork
<1> HIDE DEF a
<1>3. HasDead(a) => HasDead(a)'
  BY <1>1, <1>2 DEF HasDead, Dead
<1>6. BrokeOff(a) => BrokeOff(a)'
  <2>1. pc[t] # "broken"
    BY <1>1 DEF Active, ActivePcs
  <2> QED
    BY <1>2, <2>1, BrokenStays, <1>1
<1>4. ASSUME ~HasDead(a)', state'[a] \in {"working", "awaiting_permission"}
      PROVE  BrokeOff(a)' \/ \E u \in Turn : u[1] = a /\ AtWork(u)'
  <2>1. CASE pc'[t] # "preparing"
    <3>1. AtWork(t)'
      BY <1>2, <2>1 DEF AtWork
    <3> QED
      BY <3>1 DEF a
  <2>2. CASE pc'[t] = "preparing"
    <3>1. Opened(t) \/ ~Prepared(t)
      BY <1>2, <2>2 DEF Prepared, TypeOK
    <3>2. state' = state
      BY <1>2, <3>1 DEF Opened, Prepared
    <3>3. BrokeOff(a) \/ \E u \in Turn : u[1] = a /\ AtWork(u)
      BY <1>1, <1>3, <1>4, <3>2 DEF StateMatches
    <3> QED
      BY <1>2, <1>6, <2>2, <3>3 DEF AtWork
  <2> QED
    BY <2>1, <2>2
<1>5. ASSUME ~HasDead(a)', NEW u \in Turn, u[1] = a, Open(u)'
      PROVE  state'[a] = "awaiting_permission"
  <2>1. Open(u) /\ ~HasDead(a)
    BY <1>2, <1>3, <1>5 DEF Open
  <2>2. CASE Prepared(t)
    <3>1. pc[t] = "preparing"
      BY <2>2 DEF Prepared
    <3>2. Dead(u)
      BY <1>1, <1>5, <2>1, <3>1, NobodyAsks DEF Open, a
    <3> QED
      BY <1>5, <2>1, <3>2 DEF HasDead
  <2>3. CASE ~Prepared(t)
    BY <1>1, <1>2, <1>5, <2>1, <2>3 DEF StateMatches
  <2> QED
    BY <2>2, <2>3
<1> QED
  BY <1>1, <1>2, <1>4, <1>5, MoveStates DEF a

\* permission.requested and the decision are logged: the agent that asks is at
\* work, and asks for one thing at a time.
LEMMA AskStates ==
  ASSUME TypeOK, DrainsInOrder, Matched, SlotsMatch, StatesMatch,
         NEW t \in Turn, AskLogged(t) \/ Answered(t)
  PROVE  StatesMatch'
<1> DEFINE a == t[1]
<1>1. /\ a \in Agent /\ StateMatches(a) /\ ask[t] # "none"
      /\ pc[t] = "running" \/ Dead(t)
  BY TurnParts, AskerWorks DEF AskLogged, Answered, StatesMatch
<1>2. /\ pc' = pc /\ loop' = loop /\ draining' = draining
      /\ hasHandle' = hasHandle
      /\ \A u \in Turn \ {t} : ask'[u] = ask[u]
      /\ \A b \in Agent \ {a} : state'[b] = state[b]
  BY DEF AskLogged, Answered, agentVars, TypeOK
<1> HIDE DEF a
<1>3. \A u \in Turn : Dead(u) <=> Dead(u)'
  BY <1>2 DEF Dead
<1>4. \A u \in Turn : /\ AtWork(u) <=> AtWork(u)'
                      /\ pc'[u] = pc[u]
  BY <1>2 DEF AtWork
<1>5. ~HasDead(a) => draining[a]
  <2>1. ~HasDead(a) => Active(t)
    BY <1>1 DEF HasDead, a, Active, ActivePcs
  <2> QED
    BY <2>1, OneActive DEF a
<1>6. ASSUME ~HasDead(a)
      PROVE  /\ \E u \in Turn : u[1] = a /\ AtWork(u)'
             /\ \A u \in Turn : u[1] = a /\ Open(u)'
                                 => state'[a] = "awaiting_permission"
  <2>1. AtWork(t)'
    BY <1>1, <1>2, <1>6 DEF HasDead, AtWork, a
  <2>2. ASSUME NEW u \in Turn, u[1] = a, Open(u)'
        PROVE  state'[a] = "awaiting_permission"
    <3>1. u = t
      <4>1. u # t => ask[u] # "none"
        BY <1>2, <2>2 DEF Open
      <4> QED
        BY <1>1, <2>2, <4>1 DEF SlotsMatch, OneAsk, a
    <3>2. AskLogged(t)
      BY <2>2, <3>1 DEF Open, Answered, TypeOK
    <3> QED
      BY <1>1, <3>2 DEF AskLogged, TypeOK, a
  <2> QED
    BY <2>1, <2>2 DEF a
<1> SUFFICES ASSUME NEW b \in Agent PROVE StateMatches(b)'
  BY DEF StatesMatch
<1>7. CASE b # a
  <2>1. \A u \in Turn : u[1] = b => TurnStays(u)
    BY <1>2, <1>3, <1>4, <1>7 DEF TurnStays, Open, a
  <2>2. StateStays(b)
    BY <1>2, <1>7, <2>1 DEF StateStays
  <2> QED
    BY <2>2, StateKept DEF StatesMatch
<1>8. CASE b = a
  <2>1. HasDead(a)' <=> HasDead(a)
    BY <1>3 DEF HasDead
  <2>2. BrokeOff(a) => BrokeOff(a)'
    BY <1>2 DEF BrokeOff
  <2> QED
    BY <1>1, <1>2, <1>6, <1>8, <2>1, <2>2 DEF StateMatches
<1> QED
  BY <1>7, <1>8

\* send(): at most a turn that was not there is started.
LEMMA SendStates ==
  ASSUME TypeOK, DrainsInOrder, StatesMatch, NEW a \in Agent, Send(a)
  PROVE  StatesMatch'
<1>1. PICK t \in Turn : /\ pc[t] = "unsent"
                        /\ \/ pc' = [pc EXCEPT ![t] = "queued"]
                           \/ pc' = [pc EXCEPT ![t] = StartOf(a)]
  BY SendStarts
<1>2. /\ state' = state /\ hasHandle' = hasHandle /\ ask' = ask /\ loop' = loop
      /\ \A b \in Agent : draining[b] => draining'[b]
  <2>1. draining \in [Agent -> BOOLEAN]
    BY DEF TypeOK
  <2> QED
    BY <2>1 DEF Send, askVars
<1>3. \A u \in Turn : u # t => pc'[u] = pc[u]
  BY <1>1 DEF TypeOK
<1>4. pc'[t] \in {"queued", "preparing", "opening"}
  BY <1>1 DEF TypeOK, StartOf
<1>6. \A u \in Turn : TurnStays(u)
  BY <1>1, <1>2, <1>3, <1>4 DEF TurnStays, Dead, AtWork, Open
<1> SUFFICES ASSUME NEW b \in Agent PROVE StateMatches(b)'
  BY DEF StatesMatch
<1>5. StateStays(b)
  BY <1>2, <1>6 DEF StateStays
<1> QED
  BY <1>5, StateKept DEF StatesMatch

\* Turns run in order, so that no turn after one that breaks off is done.
LEMMA EndLeaves ==
  ASSUME TypeOK, DrainsInOrder, NEW t \in Turn, Active(t), pc'[t] = "broken",
         \A u \in Turn \ {t} : pc'[u] = "done" => pc[u] = "done"
  PROVE  BrokeOff(t[1])'
<1> DEFINE a == t[1]
           n == t[2]
<1>1. a \in Agent /\ n \in 1..MaxTurns /\ t = <<a, n>>
  BY TurnParts
<1>3. PICK c \in 0..MaxTurns : InOrder(a, c)
  BY <1>1 DEF DrainsInOrder
<1> HIDE DEF a, n
<1>4. n = c + 1
  BY <1>1, <1>3, InOrderPcs DEF a, n
<1>5. ASSUME NEW m \in (n + 1)..MaxTurns PROVE pc'[<<a, m>>] # "done"
  <2>1. m \in 1..MaxTurns /\ m # n /\ ~(m <= c)
    BY <1>1, <1>4, <1>5, TurnsAssumption
  <2>2. pc[<<a, m>>] \notin EndPcs
    BY <1>1, <1>3, <2>1, InOrderPcs
  <2>3. <<a, m>> \in Turn \ {t}
    BY <1>1, <2>1, TurnParts
  <2> QED
    BY <2>2, <2>3 DEF EndPcs
<1> QED
  BY <1>1, <1>5 DEF BrokeOff, a

\* A turn comes to its end: it takes the session out of `working` itself, was
\* rejected, broke off, or never got as far.
LEMMA EndStates ==
  ASSUME TypeOK, DrainsInOrder, Matched, SlotsMatch, StatesMatch,
         NEW t \in Turn, Ends(t)
  PROVE  StatesMatch'
<1> DEFINE a == t[1]
<1> USE DEF Ends, Breaks
<1>1. a \in Agent /\ Active(t) /\ StateMatches(a) /\ TurnMatches(t)
  BY TurnParts DEF OpenFails, PrepareFails, PumpFails, FinishFails, Finish, Throw,
     Active, ActivePcs, StatesMatch, Matched
<1>2. PICK result \in EndPcs :
        /\ DrainNext(t, result)
        /\ EndsAs(t, result)
  BY DEF EndsAs, OpenFails, PrepareFails, PumpFails, FinishFails, Finish, Throw,
     EndPcs
<1>3. /\ ask' = ask /\ loop' = loop /\ hasHandle' = hasHandle /\ sent' = sent
      /\ \A b \in Agent \ {a} : state'[b] = state[b]
  BY <1>1 DEF OpenFails, PrepareFails, PumpFails, FinishFails, Finish, Throw,
     askVars, TypeOK
<1>11. /\ Finish(t) => state'[a] \in {"failed", "awaiting_input"}
       /\ OpenFails(t) \/ Throw(t) => state' = state
  BY <1>1 DEF OpenFails, Finish, Throw, StateOfStop, TypeOK
<1> HIDE DEF Ends, Breaks
<1>4. DrainedOut(t, result) \/ \E h \in Turn : DrainedTo(t, result, h)
  BY <1>1, <1>2, <1>3, DrainNextInOrder
<1>5. /\ pc'[t] = result
      /\ \A u \in Turn \ {t} : \/ pc'[u] = pc[u]
                               \/ /\ pc[u] = "queued"
                                  /\ pc'[u] \in {"preparing", "opening"}
  <2>1. pc \in [Turn -> PcType]
    BY DEF TypeOK, PcType
  <2>2. CASE DrainedOut(t, result)
    BY <2>1, <2>2 DEF DrainedOut
  <2>3. ASSUME NEW h \in Turn, DrainedTo(t, result, h)
        PROVE  /\ pc'[t] = result
               /\ \A u \in Turn \ {t} :
                    \/ pc'[u] = pc[u]
                    \/ /\ pc[u] = "queued"
                       /\ pc'[u] \in {"preparing", "opening"}
    BY <2>1, <2>3 DEF DrainedTo, StartOf
  <2> QED
    BY <1>4, <2>2, <2>3
<1>6. \A b \in Agent : b # a => draining'[b] = draining[b]
  BY <1>2, DrainNextOthers
<1>7. \A u \in Turn \ {t} : TurnStays(u)
  BY <1>3, <1>5 DEF TurnStays, Dead, AtWork, Open
<1>12. ~Dead(t) => (HasDead(a) => HasDead(a)')
  BY <1>7 DEF HasDead, TurnStays
<1> SUFFICES ASSUME NEW b \in Agent PROVE StateMatches(b)'
  BY DEF StatesMatch
<1>8. CASE b # a
  <2>1. StateStays(b)
    BY <1>3, <1>6, <1>7, <1>8 DEF StateStays
  <2> QED
    BY <2>1, StateKept DEF StatesMatch
<1>9. CASE b = a /\ result = "thrown" /\ Throw(t)
  <2>1. Dead(t)'
    BY <1>3, <1>5, <1>9 DEF Throw, Dead
  <2>2. HasDead(a)'
    BY <2>1 DEF HasDead
  <2> QED
    BY <1>9, <2>2 DEF StateMatches
<1>10. CASE /\ b = a
            /\ \/ result = "thrown" /\ OpenFails(t)
               \/ result = "done" /\ Finish(t)
  <2>1. ~hasHandle[a] /\ pc[t] \in {"opening", "finishing"}
    BY <1>1, <1>10 DEF OpenFails, Finish, TurnMatches, HandleMatches
  <2>2. ~Dead(t)
    BY <2>1 DEF Dead
  <2>4. ASSUME ~HasDead(a)', NEW u \in Turn, u[1] = a, Open(u)' PROVE FALSE
    <3>1. ask[u] # "none"
      BY <1>3, <2>4 DEF Open
    <3>2. Dead(u)
      BY <1>1, <2>1, <2>4, <3>1, NobodyAsks
    <3> QED
      BY <1>12, <2>2, <2>4, <3>2 DEF HasDead
  <2>5. ASSUME ~HasDead(a)', state'[a] \in {"working", "awaiting_permission"}
        PROVE  BrokeOff(a)'
    <3>1. OpenFails(t) /\ pc[t] = "opening" /\ state' = state
      BY <1>10, <1>11, <2>5 DEF OpenFails
    <3>2. ~HasDead(a)
      BY <1>12, <2>2, <2>5
    <3>3. BrokeOff(a) \/ \E u \in Turn : u[1] = a /\ AtWork(u)
      BY <1>1, <2>5, <3>1, <3>2 DEF StateMatches
    <3>4. ASSUME NEW u \in Turn, u[1] = a, AtWork(u) PROVE FALSE
      <4>1. u = t
        BY <1>1, <3>4, OneActive DEF AtWork, Active, ActivePcs
      <4> QED
        BY <3>1, <3>4, <4>1 DEF AtWork
    <3>5. BrokeOff(a)
      BY <3>3, <3>4
    <3>6. result = "thrown"
      BY <1>10, <1>11, <2>5
    <3>7. pc[t] # "broken" /\ pc'[t] # "done"
      BY <1>5, <3>1, <3>6
    <3> QED
      BY <1>1, <1>5, <3>5, <3>7, BrokenStays
  <2> QED
    BY <1>3, <1>10, <2>1, <2>4, <2>5 DEF StateMatches
<1>13. CASE /\ b = a /\ result = "broken"
            /\ PrepareFails(t) \/ PumpFails(t) \/ FinishFails(t)
  <2>1. BrokeOff(a)'
    BY <1>1, <1>5, <1>13, EndLeaves
  <2>2. pc[t] \notin {"thrown"} /\ ~Dead(t)
    BY <1>1 DEF Dead, Active, ActivePcs
  <2>3. ASSUME ~HasDead(a)', NEW u \in Turn, u[1] = a, Open(u)'
        PROVE  state'[a] = "awaiting_permission"
    <3>1. ask[u] # "none" /\ Open(u) /\ ~Dead(u)
      BY <1>3, <1>12, <2>2, <2>3 DEF Open, HasDead
    <3>2. pc[t] = "running"
      BY <1>1, <2>3, <3>1, NobodyAsks
    <3>3. PumpFails(t)
      BY <1>13, <3>2 DEF PrepareFails, FinishFails
    <3>4. state' = state
      BY <3>3 DEF PumpFails
    <3> QED
      BY <1>1, <1>12, <2>2, <2>3, <3>1, <3>4 DEF StateMatches
  <2> QED
    BY <1>13, <2>1, <2>3 DEF StateMatches
<1> QED
  BY <1>2, <1>8, <1>9, <1>10, <1>13 DEF EndsAs

\* Every action keeps the state of a session true.
LEMMA StepStatesMatch ==
  ASSUME TypeOK, DrainsInOrder, Matched, SlotsMatch, StatesMatch, Next
  PROVE  StatesMatch'
BY NextQuiet, InterruptStates, HostExitStates, WorkStates, AskStates,
   SendStates, EndStates DEF Next, TurnStep, Ends, AskStep

\* A host that starts has sessions that wait for a person.
LEMMA InitStatesMatch == Init => StatesMatch
BY DEF Init, StatesMatch, StateMatches, Open

----------------------------------------------------------------------------
\* The inductive invariant.
IInv == /\ TypeOK
        /\ AsksCounted
        /\ SlotInv
        /\ DrainsInOrder
        /\ Matched
        /\ SlotsMatch
        /\ StatesMatch

\* IInv holds at the start,
LEMMA InitIInv == Init => IInv
BY InitTyped, InitInOrder, InitMatched, InitSlotsMatch, InitStatesMatch
   DEF IInv

\* ... every action preserves it,
LEMMA NextIInv == IInv /\ Next => IInv'
<1> SUFFICES ASSUME IInv, Next PROVE IInv'
  OBVIOUS
<1> QED
  BY StepTypeOK, StepAsksCounted, StepSlotInv, StepInOrder, StepMatched,
     StepSlotsMatch, StepStatesMatch DEF IInv

\* ... and so does a step that changes nothing.
LEMMA StutterIInv == IInv /\ UNCHANGED vars => IInv'
<1> SUFFICES ASSUME IInv, UNCHANGED vars PROVE IInv'
  OBVIOUS
<1> USE DEF IInv, vars, hostVars, askVars, agentVars, envVars, slotVars
<1>1. TypeOK' /\ SlotInv'
  <2>1. SlotInv'
    BY SlotsStep
  <2> QED
    BY <2>1 DEF TypeOK, SlotInv
<1>2. AsksCounted'
  BY DEF AsksCounted, AskCounted, Reacquires
<1>3. DrainsInOrder'
  BY RestsInOrder
<1>4. Matched'
  BY DEF Matched, TurnMatches, HandleMatches, LoopMatches, LinkMatches,
     DeadForGood, HolderRuns
<1>5. SlotsMatch'
  BY RestSlots DEF StreamsStay, Bystander, MayStart, Steady
<1>6. StatesMatch'
  BY QuietStates DEF Open
<1> QED
  BY <1>1, <1>2, <1>3, <1>4, <1>5, <1>6

\* The layers hold in every state of every run of the session host.
THEOREM Invariance == SafeSpec => []IInv
<1>1. IInv /\ [Next]_vars => IInv'
  BY NextIInv, StutterIInv
<1> QED
  BY <1>1, InitIInv, PTL DEF SafeSpec

----------------------------------------------------------------------------
\* The theorems.

\* The state of sessions, turns, loops and slots keeps its types; no turn logs
\* more decisions than the requests it may make.
THEOREM TypeCorrect == SafeSpec => []TypeOK
<1>1. IInv => TypeOK
  BY DEF IInv
<1> QED
  BY <1>1, Invariance, PTL

\* respondPermission: however many clients answer a request, one decision is
\* logged, and none while it is open.
THEOREM DecidesOnce == SafeSpec => []AnsweredOnce
<1>1. ASSUME IInv PROVE AnsweredOnce
  <2> SUFFICES ASSUME NEW t \in Turn
               PROVE  decided[t] <= asks[t] - (IF Pending(t) THEN 1 ELSE 0)
    BY DEF AnsweredOnce
  <2>1. AskCounted(t) /\ decided[t] \in Nat
    BY <1>1, TurnsAssumption DEF IInv, AsksCounted, TypeOK
  <2> QED
    BY <2>1 DEF AskCounted, Pending
<1> QED
  BY <1>1, Invariance, PTL

\* acquireSlot and decide: a loop that nobody interrupted works only while its
\* turn holds a slot, through any sequence of requests, answers and rejections.
THEOREM WorkersHoldSlots == SafeSpec => []LoopHoldsSlot
<1>1. IInv => LoopHoldsSlot
  BY DEF IInv, SlotsMatch, PhaseMatches, LoopHoldsSlot
<1> QED
  BY <1>1, Invariance, PTL

\* decide and the `finally` of runTurn: no open prompt and no turn that came
\* to its end occupies a slot of the host.
THEOREM IdleHoldNoSlots == SafeSpec => []OnlyWorkHoldsSlots
<1>1. IInv => OnlyWorkHoldsSlots
  BY
     DEF IInv, SlotsMatch, AskMatches, PhaseMatches, OnlyWorkHoldsSlots,
         Pending
<1> QED
  BY <1>1, Invariance, PTL

\* How many loops work at a time.
Workers == {t \in Turn : loop[t] = "thinking" /\ link[t[1]].stream = "open"}

\* The cap of the host bounds the loops that really work, not only the counter
\* of TurnSlots: at most Cap of them work at any time.
THEOREM WorkersWithinCap == SafeSpec => [](Cardinality(Workers) <= Cap)
<1>1. ASSUME IInv PROVE Cardinality(Workers) <= Cap
  <2>1. Workers \in SUBSET Slots!Owners
    BY <1>1 DEF IInv, SlotsMatch, PhaseMatches, Workers, Slots!Owners
  <2>2. IsFiniteSet(Slots!Owners) /\ Slots!Owners \in SUBSET Turn
    BY TurnFinite, FS_Subset DEF Slots!Owners
  <2>3. Cardinality(Workers) <= Cardinality(Slots!Owners)
    BY <2>1, <2>2, FS_Subset
  <2>4. \A S : Slots!Cardinality(S) = Cardinality(S)
    BY Zenon DEF Slots!Cardinality, Cardinality
  <2>5. held = Cardinality(Slots!Owners) /\ held <= Cap
    BY <1>1, <2>4 DEF IInv, SlotInv, Slots!SlotSafety, Slots!HeldIsOwned,
       Slots!WithinCap
  <2>6. IsFiniteSet(Workers)
    BY <2>1, <2>2, FS_Subset
  <2>7. /\ Cardinality(Workers) \in Nat /\ Cap \in Nat
        /\ Cardinality(Slots!Owners) \in Nat
    BY <2>2, <2>6, FS_CardinalityType, TurnsAssumption
  <2> QED
    BY <2>3, <2>5, <2>7
<1> QED
  BY <1>1, Invariance, PTL

\* setState and interrupt: the state of a session is about its turn until a
\* send is rejected, and between a turn that broke off and one that is done.
THEOREM StateIsTrue == SafeSpec => []StateTellsTheTruth
<1>1. ASSUME IInv PROVE StateTellsTheTruth
  <2> SUFFICES ASSUME NEW a \in Agent, ~Rejected(a)
               PROVE  /\ state[a] \in {"working", "awaiting_permission"}
                           => draining[a] \/ BrokeOff(a)
                      /\ HasPending(a) => state[a] = "awaiting_permission"
                      /\ hasHandle[a] => draining[a] \/ BrokeOff(a)
    BY DEF StateTellsTheTruth
  <2>1. StateMatches(a) /\ ~HasDead(a)
    BY <1>1, DeadIsRejected DEF IInv, StatesMatch
  <2>2. \A t \in Turn : t[1] = a /\ AtWork(t) => draining[a]
    BY <1>1, OneActive DEF IInv, AtWork, Active, ActivePcs
  <2>3. HasPending(a) => \E t \in Turn : t[1] = a /\ Open(t)
    <3> SUFFICES ASSUME NEW n \in 1..MaxTurns, Pending(<<a, n>>)
                 PROVE  \E t \in Turn : t[1] = a /\ Open(t)
      BY DEF HasPending
    <3>1. <<a, n>> \in Turn /\ <<a, n>>[1] = a /\ Open(<<a, n>>)
      BY TurnParts DEF Pending, Open
    <3> QED
      BY <3>1
  <2> QED
    BY <2>1, <2>2, <2>3 DEF StateMatches
<1> QED
  BY <1>1, Invariance, PTL

\* send and drain: an agent runs at most one turn, in the order they were sent,
\* and draining, the queue and the turns say the same.
THEOREM TurnsInOrder == SafeSpec => []OneTurnAtATime
<1>1. ASSUME IInv, NEW a \in Agent
      PROVE  LET running == {n \in 1..MaxTurns : Active(<<a, n>>)}
                 ended   == {n \in 1..MaxTurns : pc[<<a, n>>] \in EndPcs}
             IN  /\ Cardinality(running) = IF draining[a] THEN 1 ELSE 0
                 /\ \A n \in running : ended = 1..(n - 1)
                 /\ queue[a] =
                      [i \in 1..(sent[a] - Cardinality(running \cup ended)) |->
                         Cardinality(running \cup ended) + i]
  <2> DEFINE running == {n \in 1..MaxTurns : Active(<<a, n>>)}
             ended   == {n \in 1..MaxTurns : pc[<<a, n>>] \in EndPcs}
  <2>0. /\ running = {n \in 1..MaxTurns : Active(<<a, n>>)}
        /\ ended = {n \in 1..MaxTurns : pc[<<a, n>>] \in EndPcs}
    OBVIOUS
  <2> SUFFICES
        /\ Cardinality(running) = IF draining[a] THEN 1 ELSE 0
        /\ \A n \in running : ended = 1..(n - 1)
        /\ queue[a] = [i \in 1..(sent[a] - Cardinality(running \cup ended)) |->
                         Cardinality(running \cup ended) + i]
    BY Zenon DEF running, ended
  <2> HIDE DEF running, ended
  <2>1. PICK c \in 0..MaxTurns : InOrder(a, c)
    BY <1>1 DEF IInv, DrainsInOrder
  <2>2. sent[a] \in 0..MaxTurns /\ MaxTurns \in Nat /\ draining[a] \in BOOLEAN
    BY <1>1, TurnsAssumption DEF IInv, TypeOK
  <2>3. draining[a] => c + 1 \in 1..MaxTurns
    BY <2>1, <2>2 DEF InOrder
  <2>4. \A n \in 1..MaxTurns :
          /\ n \in running <=> (draining[a] /\ n = c + 1)
          /\ n \in ended <=> n <= c
    BY <1>1, <2>0, <2>1, InOrderPcs DEF IInv
  <2>5. ended = 1..c
    BY <2>0, <2>2, <2>4
  <2>8. Cardinality(1..c) = c /\ Cardinality(1..(c + 1)) = c + 1
    <3>1. 1 \in Int /\ c \in Int /\ c + 1 \in Int /\ c >= 0
      BY <2>2
    <3>2. /\ Cardinality(1..c) = IF 1 > c THEN 0 ELSE c - 1 + 1
          /\ Cardinality(1..(c + 1)) = IF 1 > c + 1 THEN 0 ELSE c + 1 - 1 + 1
      BY <3>1, FS_Interval
    <3> QED
      BY <3>1, <3>2
  <2>6. CASE draining[a]
    <3>1. running = {c + 1}
      BY <2>0, <2>3, <2>4, <2>6
    <3>2. running \cup ended = 1..(c + 1)
      BY <2>5, <3>1
    <3>3. Cardinality(running) = 1
      BY <3>1, FS_Singleton
    <3>4. Cardinality(running \cup ended) = c + 1
      BY <2>8, <3>2
    <3>5. queue[a] = [i \in 1..(sent[a] - c - 1) |-> c + 1 + i]
      BY <2>1, <2>6 DEF InOrder
    <3>6. sent[a] - (c + 1) = sent[a] - c - 1 /\ c = (c + 1) - 1
      BY <2>2
    <3>7. \A n \in running : ended = 1..(n - 1)
      BY <2>5, <3>1, <3>6
    <3>8. queue[a] = [i \in 1..(sent[a] - Cardinality(running \cup ended)) |->
                        Cardinality(running \cup ended) + i]
      <4> DEFINE total == Cardinality(running \cup ended)
      <4>1. total = c + 1
        BY <3>4
      <4> HIDE DEF total
      <4>2. queue[a] = [i \in 1..(sent[a] - total) |-> total + i]
        BY <3>5, <3>6, <4>1
      <4> QED
        BY <4>2 DEF total
    <3> QED
      BY <2>6, <3>3, <3>7, <3>8
  <2>7. CASE ~draining[a]
    <3>1. running = {}
      BY <2>0, <2>4, <2>7
    <3>2. Cardinality(running) = 0
      BY <3>1, FS_EmptySet
    <3>3. Cardinality(running \cup ended) = c
      <4>1. running \cup ended = 1..c
        BY <2>5, <3>1
      <4> QED
        BY <2>8, <4>1
    <3>4. c = sent[a] /\ queue[a] = <<>>
      BY <2>1, <2>7 DEF InOrder
    <3>5. queue[a] = [i \in 1..(sent[a] - c) |-> c + i]
      BY <2>2, <3>4
    <3>6. queue[a] = [i \in 1..(sent[a] - Cardinality(running \cup ended)) |->
                        Cardinality(running \cup ended) + i]
      <4> DEFINE total == Cardinality(running \cup ended)
      <4>1. total = c
        BY <3>3
      <4> HIDE DEF total
      <4>2. queue[a] = [i \in 1..(sent[a] - total) |-> total + i]
        BY <3>5, <4>1
      <4> QED
        BY <4>2 DEF total
    <3> QED
      BY <2>7, <3>1, <3>2, <3>6, Zenon
  <2> QED
    BY <2>6, <2>7
<1>2. IInv => OneTurnAtATime
  BY <1>1 DEF OneTurnAtATime
<1> QED
  BY <1>2, Invariance, PTL

\* runTurn, decide and their `finally` blocks call the slots only in ways that
\* TurnSlots allows.
THEOREM SessionsUseSlots == SafeSpec => Slots!SafeSpec
<1>1. Init => Slots!Init
  BY DEF Init
<1>2. IInv /\ [Next]_vars => [Slots!Next]_(Slots!slotVars)
  <2> SUFFICES ASSUME IInv, [Next]_vars PROVE [Slots!Next]_(Slots!slotVars)
    OBVIOUS
  <2>1. [Slots!Next]_slotVars
    BY NextSlots DEF IInv, vars
  <2> QED
    BY <2>1 DEF slotVars, Slots!slotVars
<1> QED
  BY <1>1, <1>2, Invariance, PTL DEF SafeSpec, Slots!SafeSpec

\* So the turns of a host implement the semaphore that concurrency.ts promises:
\* first come, first served, and never more than Cap of them.
THEOREM SessionsImplementSemaphore ==
  SafeSpec => SlotProofs!ImplementsSemaphore
<1>1. Init => SlotProofs!Init
  BY Zenon DEF Init, Slots!Init, SlotProofs!Init
<1>2. IInv /\ [Next]_vars => [SlotProofs!Next]_(SlotProofs!slotVars)
  <2> SUFFICES ASSUME IInv, [Next]_vars
               PROVE  [SlotProofs!Next]_(SlotProofs!slotVars)
    OBVIOUS
  <2>1. [Slots!Next]_slotVars
    BY NextSlots DEF IInv, vars
  <2> QED
    BY <2>1, SameSteps
<1>3. SafeSpec => SlotProofs!SafeSpec
  BY <1>1, <1>2, Invariance, PTL DEF SafeSpec, SlotProofs!SafeSpec
<1>4. SlotProofs!SafeSpec => SlotProofs!ImplementsSemaphore
  BY SlotProofs!TurnSlotsImplementsSemaphore, SlotsHaveTurns
<1> QED
  BY <1>3, <1>4
====
