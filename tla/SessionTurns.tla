---------------------------- MODULE SessionTurns ----------------------------
(***************************************************************************)
(* main/sessionManager.ts: how the turns of a host's agents run.           *)
(*                                                                         *)
(* Each agent is the one seat of a session.  send() queues a turn, drain() *)
(* runs an agent's turns one at a time, and runTurn() opens a handle to a  *)
(* loop in the agent host process, waits for the shared credential and for *)
(* a slot of the host (TurnSlots), and sends the turn.  The loop asks for  *)
(* permission through decide(), which gives the slot up while a person is  *)
(* being asked and queues for it again when respondPermission() answers.   *)
(* interrupt() aborts the loop and closes its stream, and the agent host   *)
(* process may exit at any time.                                           *)
(*                                                                         *)
(* An action ends where the code awaits.  A write of the log that fails    *)
(* ends the turn that waits for it, wherever it is.  Left out: budgets,    *)
(* parking on a quota, and the content of turns; writes that fail in       *)
(* decide, respondPermission and interrupt; a policy that answers a        *)
(* request by itself changes nothing here.                                 *)
(***************************************************************************)
EXTENDS Naturals, Sequences, FiniteSets

CONSTANTS Agent,         \* the seats of the host's sessions, one each
          Cap,           \* slots of the host
          MaxTurns,      \* bound: turns sent to one agent
          MaxSends,      \* bound: turns sent to each agent
          MaxAsks,       \* bound: requests that reach a person, in one turn
          MaxUpsets      \* bound: interrupts, and exits of the agent host

ASSUME TurnsAssumption == /\ IsFiniteSet(Agent)
                          /\ Cap \in Nat \ {0}
                          /\ MaxTurns \in Nat \ {0}
                          /\ MaxAsks \in Nat
                          /\ MaxSends \in [Agent -> 0..MaxTurns]
                          /\ MaxUpsets \in Nat

\* The nth turn sent to agent a is <<a, n>>.
Turn == Agent \X (1..MaxTurns)

VARIABLES
  \* the session host
  sent,       \* turns sent to each agent so far
  queue,      \* this.queues: serials of the turns that wait
  draining,   \* this.draining
  pc,         \* where each turn is in drain and runTurn
  state,      \* live.session.state
  status,     \* record.status
  hasHandle,  \* live.handles has the agent
  turnSlots,  \* this.turnSlots: serial of the turn whose holder it is, or 0
  ask,        \* where each turn's permission request is in decide
  holderOf,   \* the holder that decide took from turnSlots, or 0
  decided,    \* decisions logged for a turn (a count of log events)
  intr,       \* where an interrupt() of the agent is
  \* the handle and its loop in the agent host process
  link,       \* [ctl, aborted, stream] of the agent's latest handle
  loop,       \* what the loop that serves a turn does
  asks,       \* requests of a turn that reached a person so far
  \* environment
  upsets,
  \* the host's TurnSlots, with a turn as its ticket
  held, waiting, phase

hostVars  == <<sent, queue, draining, pc, state, status, hasHandle>>
askVars   == <<turnSlots, ask, holderOf, decided>>
agentVars == <<link, loop, asks>>
envVars   == <<intr, upsets>>
slotVars  == <<held, waiting, phase>>
vars == <<hostVars, askVars, agentVars, envVars, slotVars>>

Slots == INSTANCE TurnSlots WITH Ticket <- Turn

\* Turns that drain has shifted and that have not returned.
ActivePcs == {"opening", "preparing", "quota", "slot", "running", "finishing"}
EndPcs    == {"done", "thrown", "broken"}
Active(t) == pc[t] \in ActivePcs

\* The signal of a new controller, which contextFor puts in live.aborts and
\* registerHandle forwards; nothing has been opened with it yet.
FreshLink == [ctl |-> "wired", aborted |-> FALSE, stream |-> "none"]

Init ==
  /\ sent = [a \in Agent |-> 0]
  /\ queue = [a \in Agent |-> <<>>]
  /\ draining = [a \in Agent |-> FALSE]
  /\ pc = [t \in Turn |-> "unsent"]
  /\ state = [a \in Agent |-> "awaiting_input"]
  /\ status = [a \in Agent |-> "idle"]
  /\ hasHandle = [a \in Agent |-> FALSE]
  /\ turnSlots = [a \in Agent |-> 0]
  /\ ask = [t \in Turn |-> "none"]
  /\ holderOf = [t \in Turn |-> 0]
  /\ decided = [t \in Turn |-> 0]
  /\ intr = [a \in Agent |-> "none"]
  /\ link = [a \in Agent |-> [FreshLink EXCEPT !.ctl = "none"]]
  /\ loop = [t \in Turn |-> "off"]
  /\ asks = [t \in Turn |-> 0]
  /\ upsets = 0
  /\ Slots!Init

----------------------------------------------------------------------------
(* The queue of one agent: send and drain.                                 *)

\* Mutant: drain may be entered while a turn of the agent runs.
NobodyDrains(a) == TRUE

\* drain returns at once when another call of it is at work on this agent.
MayDrain(a) == ~draining[a]

\* The start of runTurn up to its first await: a handle kept from an earlier
\* turn is used again, otherwise openHandle makes a new abort controller.
StartOf(a) == IF hasHandle[a] THEN "preparing" ELSE "opening"
OpenLink(a) == link' = IF hasHandle[a] THEN link
                       ELSE [link EXCEPT ![a] = FreshLink]

\* send(): the turn is pushed and drain is called.
Send(a) ==
  LET n == sent[a] + 1 IN
  /\ n <= MaxSends[a]
  /\ sent' = [sent EXCEPT ![a] = n]
  /\ \/ /\ MayDrain(a)
        /\ draining' = [draining EXCEPT ![a] = TRUE]
        /\ pc' = [pc EXCEPT ![<<a, n>>] = StartOf(a)]
        /\ OpenLink(a)
        /\ UNCHANGED queue
     \/ /\ ~MayDrain(a)
        /\ queue' = [queue EXCEPT ![a] = Append(@, n)]
        /\ pc' = [pc EXCEPT ![<<a, n>>] = "queued"]
        /\ UNCHANGED <<draining, link>>
  /\ UNCHANGED <<state, status, hasHandle, askVars, loop, asks, envVars,
                 slotVars>>

\* Mutant: a turn that throws ends the drain loop and leaves it marked.
StopDraining(t, result) ==
  /\ pc' = [pc EXCEPT ![t] = result]
  /\ UNCHANGED <<draining, queue, link>>

\* runTurn returned or threw: the sender's promise settles, and drain shifts
\* the next turn or leaves.
DrainNext(t, result) ==
  LET a == t[1] IN
  IF queue[a] = <<>>
  THEN /\ pc' = [pc EXCEPT ![t] = result]
       /\ draining' = [draining EXCEPT ![a] = FALSE]
       /\ UNCHANGED <<queue, link>>
  ELSE /\ pc' = [pc EXCEPT ![t] = result,
                           ![<<a, Head(queue[a])>>] = StartOf(a)]
       /\ queue' = [queue EXCEPT ![a] = Tail(@)]
       /\ OpenLink(a)
       /\ UNCHANGED draining

----------------------------------------------------------------------------
(* runTurn, from the handle to the slot.                                   *)

\* The runtime gave a handle: live.handles.set, before agent.started is on disk.
\* The agent host takes commands in the order they were sent, an interrupt of
\* the handle before this one first.
Opened(t) ==
  LET a == t[1] IN
  /\ pc[t] = "opening"
  /\ intr[a] # "asked"
  /\ pc' = [pc EXCEPT ![t] = "preparing"]
  /\ hasHandle' = [hasHandle EXCEPT ![a] = TRUE]
  /\ link' = [link EXCEPT ![a].stream = "open"]
  /\ UNCHANGED <<sent, queue, draining, state, status, askVars, loop, asks,
                 envVars, slotVars>>

\* openHandle threw: the runtime refused, or its process exited.
OpenFails(t) ==
  /\ pc[t] = "opening"
  /\ DrainNext(t, "thrown")
  /\ UNCHANGED <<sent, state, status, hasHandle, askVars, loop, asks, envVars,
                 slotVars>>

\* agent.started is on disk, the content is fitted, the user.turn appended and
\* the session working; the wait for the shared credential begins.
Prepared(t) ==
  LET a == t[1] IN
  /\ pc[t] = "preparing"
  /\ pc' = [pc EXCEPT ![t] = "quota"]
  /\ state' = [state EXCEPT ![a] = "working"]
  /\ status' = [status EXCEPT ![a] = "running"]
  /\ UNCHANGED <<sent, queue, draining, hasHandle, askVars, agentVars, envVars,
                 slotVars>>

\* One of these throws: an append, fitContent, or the append of setState, which
\* has set the state before.  The handle stays in live.handles, open.
PrepareFails(t) ==
  LET a == t[1] IN
  /\ pc[t] = "preparing"
  /\ \E s \in {state[a], "working"} : state' = [state EXCEPT ![a] = s]
  /\ DrainNext(t, "broken")
  /\ UNCHANGED <<sent, status, hasHandle, askVars, loop, asks, envVars,
                 slotVars>>

\* contextFor, called only to report progress: live.aborts now holds a
\* controller that nothing listens to.
ReplaceController(a) == link' = [link EXCEPT ![a].ctl = "stale"]

\* quota.acquire makes the turn wait, and onWait reports it.
QuotaWaits(t) ==
  /\ pc[t] = "quota"
  /\ ReplaceController(t[1])
  /\ UNCHANGED <<hostVars, askVars, loop, asks, envVars, slotVars>>

\* Sending to a loop: it runs if its stream is open, and the agent host
\* answers "no live handle" otherwise.  The holder is registered first.
SendTo(t) ==
  LET a == t[1] IN
  /\ pc' = [pc EXCEPT ![t] = "running"]
  /\ turnSlots' = [turnSlots EXCEPT ![a] = t[2]]
  /\ loop' = [loop EXCEPT ![t] =
                IF link[a].stream = "open" THEN "thinking" ELSE "refused"]

\* quota.acquire returned; acquireSlot finds a free slot ...
TakesSlot(t) ==
  /\ pc[t] = "quota"
  /\ Slots!TakeSlot(t)
  /\ SendTo(t)
  /\ UNCHANGED <<sent, queue, draining, state, status, hasHandle, ask,
                 holderOf, decided, link, asks, envVars>>

\* ... or joins the line, and onWait reports it.
WaitsForSlot(t) ==
  /\ pc[t] = "quota"
  /\ Slots!JoinQueue(t)
  /\ pc' = [pc EXCEPT ![t] = "slot"]
  /\ ReplaceController(t[1])
  /\ UNCHANGED <<sent, queue, draining, state, status, hasHandle, askVars,
                 loop, asks, envVars>>

GotSlot(t) ==
  /\ pc[t] = "slot"
  /\ Slots!Resume(t)
  /\ SendTo(t)
  /\ UNCHANGED <<sent, queue, draining, state, status, hasHandle, ask,
                 holderOf, decided, link, asks, envVars>>

----------------------------------------------------------------------------
(* The loop in the agent host process.                                     *)

\* The loop returns: it closes its stream.  The agent host answers the send
\* with ok, or with an error if the stream had been closed before.
LoopEnds(t) ==
  LET a == t[1] IN
  /\ loop[t] = "thinking"
  /\ loop' = [loop EXCEPT ![t] =
                IF link[a].stream = "open" THEN "ended" ELSE "refused"]
  /\ link' = [link EXCEPT ![a].stream = "closed"]
  /\ UNCHANGED <<hostVars, askVars, asks, envVars, slotVars>>

\* The loop wants to run a tool that only a person may allow.  A loop whose
\* stream is closed has no context in the session host and is denied at once,
\* which changes nothing.
Asks(t) ==
  /\ loop[t] = "thinking"
  /\ link[t[1]].stream = "open"
  /\ ask[t] = "none"
  /\ asks[t] < MaxAsks
  /\ loop' = [loop EXCEPT ![t] = "asking"]
  /\ ask' = [ask EXCEPT ![t] = "appending"]
  /\ asks' = [asks EXCEPT ![t] = @ + 1]
  /\ UNCHANGED <<hostVars, turnSlots, holderOf, decided, link, envVars,
                 slotVars>>

----------------------------------------------------------------------------
(* decide, from permission.requested to the decision.                      *)

\* permission.requested is on disk.
AskLogged(t) ==
  /\ ask[t] = "appending"
  /\ ask' = [ask EXCEPT ![t] = "logged"]
  /\ state' = [state EXCEPT ![t[1]] = "awaiting_permission"]
  /\ UNCHANGED <<sent, queue, draining, pc, status, hasHandle, turnSlots,
                 holderOf, decided, agentVars, envVars, slotVars>>

\* Mutant: the slot is kept while a person is asked.
KeepSlot(t) == UNCHANGED slotVars

\* holder?.release(): the slot of whichever turn turnSlots names.
ReleaseWhileAsking(t) ==
  LET n == turnSlots[t[1]] IN
  IF n = 0 THEN UNCHANGED slotVars ELSE Slots!Release(<<t[1], n>>)

\* The state change is on disk: the slot is given up and the request is open.
AskOpens(t) ==
  /\ ask[t] = "logged"
  /\ ask' = [ask EXCEPT ![t] = "pending"]
  /\ holderOf' = [holderOf EXCEPT ![t] = turnSlots[t[1]]]
  /\ ReleaseWhileAsking(t)
  /\ UNCHANGED <<hostVars, turnSlots, decided, agentVars, envVars>>

\* Mutant: the request is deleted when the decision is on disk, not before.
StillListed(t) == ask[t] \in {"pending", "answering"}

\* this.pending has the request.
Pending(t) == ask[t] = "pending"

\* respondPermission of any client: the request is deleted before anything is
\* awaited, so a second answer finds nothing.
Respond(t) ==
  /\ Pending(t)
  /\ ask' = [ask EXCEPT ![t] = "answering"]
  /\ decided' = [decided EXCEPT ![t] = @ + 1]
  /\ UNCHANGED <<hostVars, turnSlots, holderOf, agentVars, envVars, slotVars>>

\* hasPendingFor, in the one-seat session of the agent.
HasPending(a) == \E n \in 1..MaxTurns : Pending(<<a, n>>)

\* The decision is on disk: decide is resumed, and a session with no request
\* left is working again.
Answered(t) ==
  /\ ask[t] = "answering"
  /\ ask' = [ask EXCEPT ![t] = "resuming"]
  /\ state' = [state EXCEPT ![t[1]] = IF HasPending(t[1]) THEN @ ELSE "working"]
  /\ UNCHANGED <<sent, queue, draining, pc, status, hasHandle, turnSlots,
                 holderOf, decided, agentVars, envVars, slotVars>>

\* The decision reaches the loop, if it still waits for one.
DeliverDecision(t) ==
  /\ ask' = [ask EXCEPT ![t] = "none"]
  /\ loop' = [loop EXCEPT ![t] = IF @ = "asking" THEN "thinking" ELSE @]

\* Mutant: an answered request goes on at once.
NeverReacquires(t) == FALSE

\* The condition of decide's `finally`: it found a holder when it asked.
Reacquires(t) == holderOf[t] # 0

\* A request that gave no slot up takes none.
ResumeWithoutSlot(t) ==
  /\ ask[t] = "resuming"
  /\ ~Reacquires(t)
  /\ DeliverDecision(t)
  /\ UNCHANGED <<hostVars, turnSlots, holderOf, decided, link, asks, envVars,
                 slotVars>>

\* holder.release = await acquireSlot: a slot is free ...
RetakeSlot(t) ==
  /\ ask[t] = "resuming"
  /\ Reacquires(t)
  /\ Slots!TakeSlot(<<t[1], holderOf[t]>>)
  /\ DeliverDecision(t)
  /\ UNCHANGED <<hostVars, turnSlots, holderOf, decided, link, asks, envVars>>

\* ... or the answered turn goes to the end of the line.
QueueAgain(t) ==
  /\ ask[t] = "resuming"
  /\ Reacquires(t)
  /\ Slots!JoinQueue(<<t[1], holderOf[t]>>)
  /\ ask' = [ask EXCEPT ![t] = "requeued"]
  /\ ReplaceController(t[1])
  /\ UNCHANGED <<hostVars, turnSlots, holderOf, decided, loop, asks, envVars>>

SlotAgain(t) ==
  /\ ask[t] = "requeued"
  /\ Slots!Resume(<<t[1], holderOf[t]>>)
  /\ DeliverDecision(t)
  /\ UNCHANGED <<hostVars, turnSlots, holderOf, decided, link, asks, envVars>>

----------------------------------------------------------------------------
(* The end of runTurn.                                                     *)

\* live.handles.delete
DropHandle(a) == hasHandle' = [hasHandle EXCEPT ![a] = FALSE]

\* The `finally` of runTurn: holder.release().
ReleaseTurn(t) == Slots!Release(t)

\* handle.send resolved and the events are drained: everything the turn held
\* is let go of before the next await.
Settle(t) ==
  LET a == t[1] IN
  /\ pc[t] = "running"
  /\ loop[t] = "ended"
  /\ ReleaseTurn(t)
  /\ turnSlots' = [turnSlots EXCEPT ![a] = 0]
  /\ pc' = [pc EXCEPT ![t] = "finishing"]
  /\ DropHandle(a)
  /\ link' = [link EXCEPT ![a].ctl = "none"]
  /\ \E s \in {"idle", "stopped"} : status' = [status EXCEPT ![a] = s]
  /\ UNCHANGED <<sent, queue, draining, state, ask, holderOf, decided, loop,
                 asks, envVars>>

\* Mutant: a turn that fails leaves the session's state alone.
StateOfSuccess(a) == IF status[a] = "stopped" THEN state[a]
                     ELSE "awaiting_input"

\* stateForStop: the same stops fail the seat and the session.
StateOfStop(a) == IF status[a] = "stopped" THEN "failed" ELSE "awaiting_input"

\* The merge is surfaced; the session takes the state of the stop.
Finish(t) ==
  LET a == t[1] IN
  /\ pc[t] = "finishing"
  /\ state' = [state EXCEPT ![a] = StateOfStop(a)]
  /\ DrainNext(t, "done")
  /\ UNCHANGED <<sent, status, hasHandle, askVars, loop, asks, envVars,
                 slotVars>>

\* handle.send rejected: only the `finally` runs.
Throw(t) ==
  LET a == t[1] IN
  /\ pc[t] = "running"
  /\ loop[t] = "refused"
  /\ ReleaseTurn(t)
  /\ turnSlots' = [turnSlots EXCEPT ![a] = 0]
  /\ DrainNext(t, "thrown")
  /\ UNCHANGED <<sent, state, status, hasHandle, ask, holderOf, decided, loop,
                 asks, envVars>>

\* handle.send resolved, but an event of the turn could not be appended: it is
\* as if the send had been rejected, and the handle stays, with its stream over.
PumpFails(t) ==
  LET a == t[1] IN
  /\ pc[t] = "running"
  /\ loop[t] = "ended"
  /\ ReleaseTurn(t)
  /\ turnSlots' = [turnSlots EXCEPT ![a] = 0]
  /\ DrainNext(t, "broken")
  /\ UNCHANGED <<sent, state, status, hasHandle, ask, holderOf, decided, loop,
                 asks, envVars>>

\* surfaceMerge throws, or the append of setState, which has set the state.
FinishFails(t) ==
  LET a == t[1] IN
  /\ pc[t] = "finishing"
  /\ \E s \in {state[a], StateOfStop(a)} : state' = [state EXCEPT ![a] = s]
  /\ DrainNext(t, "broken")
  /\ UNCHANGED <<sent, status, hasHandle, askVars, loop, asks, envVars,
                 slotVars>>

----------------------------------------------------------------------------
(* interrupt, and the exit of the agent host process.                      *)

\* interrupt() aborts whatever controller live.aborts holds, then asks the
\* handle, if there is one, to interrupt its loop.
Interrupt(a) ==
  /\ intr[a] = "none"
  /\ upsets < MaxUpsets
  /\ upsets' = upsets + 1
  /\ link' = [link EXCEPT ![a].aborted = @ \/ link[a].ctl = "wired"]
  /\ intr' = [intr EXCEPT ![a] = IF hasHandle[a] THEN "asked" ELSE "logging"]
  /\ UNCHANGED <<hostVars, askVars, loop, asks, slotVars>>

\* The agent host closes the stream and denies what the loop was asking; the
\* loop itself runs on until it looks at its abort signal.  A handle whose
\* stream is closed already makes interrupt() throw.
InterruptArrives(a) ==
  /\ intr[a] = "asked"
  /\ \/ /\ link[a].stream = "open"
        /\ link' = [link EXCEPT ![a].stream = "closed"]
        /\ loop' = [t \in Turn |-> IF t[1] = a /\ loop[t] = "asking"
                                   THEN "thinking" ELSE loop[t]]
        /\ intr' = [intr EXCEPT ![a] = "logging"]
     \/ /\ link[a].stream # "open"
        /\ intr' = [intr EXCEPT ![a] = "none"]
        /\ UNCHANGED <<link, loop>>
  /\ UNCHANGED <<hostVars, askVars, asks, upsets, slotVars>>

\* agent.interrupted is on disk: a working session with no handle is moved.
InterruptLogged(a) ==
  /\ intr[a] = "logging"
  /\ intr' = [intr EXCEPT ![a] = "none"]
  /\ state' = [state EXCEPT ![a] = IF @ = "working" /\ ~hasHandle[a]
                                   THEN "awaiting_input" ELSE @]
  /\ UNCHANGED <<sent, queue, draining, pc, status, hasHandle, askVars,
                 agentVars, upsets, slotVars>>

\* The agent host process exits: its loops are gone, the commands in flight
\* are rejected (HostClient.handleClose), and another process takes its place.
\* The answer to a send may be lost with it.
HostExit ==
  /\ upsets < MaxUpsets
  /\ upsets' = upsets + 1
  /\ \E lost \in {{"thinking", "asking"}, {"thinking", "asking", "ended"}} :
       loop' = [t \in Turn |-> IF loop[t] \in lost /\ pc[t] = "running"
                               THEN "refused" ELSE loop[t]]
  /\ link' = [a \in Agent |-> IF hasHandle[a]
                              THEN [link[a] EXCEPT !.stream = "closed"]
                              ELSE link[a]]
  /\ intr' = [a \in Agent |-> IF intr[a] = "asked" THEN "none" ELSE intr[a]]
  /\ UNCHANGED <<hostVars, askVars, asks, slotVars>>

----------------------------------------------------------------------------
\* The steps the code takes by itself: runTurn and the loop it waits for ...
TurnStep(t) ==
  \/ Opened(t) \/ Prepared(t)
  \/ TakesSlot(t) \/ WaitsForSlot(t) \/ GotSlot(t)
  \/ LoopEnds(t) \/ Settle(t) \/ Finish(t) \/ Throw(t)

\* ... and decide.
AskStep(t) ==
  \/ AskLogged(t) \/ AskOpens(t) \/ Answered(t)
  \/ ResumeWithoutSlot(t) \/ RetakeSlot(t) \/ QueueAgain(t) \/ SlotAgain(t)

\* What may fail on the way, wherever runTurn waits.
Breaks(t) == \/ OpenFails(t) \/ PrepareFails(t)
             \/ PumpFails(t) \/ FinishFails(t)

\* ... and interrupt.
InterruptStep(a) == InterruptArrives(a) \/ InterruptLogged(a)

Next ==
  \/ \E a \in Agent : \/ Send(a)
                      \/ Interrupt(a)
                      \/ InterruptStep(a)
  \/ \E t \in Turn : \/ TurnStep(t)
                     \/ AskStep(t)
                     \/ Breaks(t)
                     \/ QuotaWaits(t)
                     \/ Asks(t)
                     \/ Respond(t)
  \/ HostExit

\* What the code does by itself, for the turns that it is busy with.
Busy == {t \in Turn : Active(t) \/ ask[t] # "none"}
OwnStep == \/ \E t \in Busy : TurnStep(t) \/ AskStep(t)
           \/ \E a \in Agent : InterruptStep(a)

\* Every await of the code returns, and a loop ends after boundedly many
\* iterations.  Nobody has to send, to answer or to interrupt.
Fairness == WF_vars(OwnStep)

SafeSpec == Init /\ [][Next]_vars
Spec == SafeSpec /\ Fairness

----------------------------------------------------------------------------
\* The values of each variable; in particular no turn logs more decisions than
\* the requests it may make.
TypeOK ==
  /\ sent \in [Agent -> 0..MaxTurns]
  /\ queue \in [Agent -> Seq(1..MaxTurns)]
  /\ draining \in [Agent -> BOOLEAN]
  /\ pc \in [Turn -> {"unsent", "queued"} \cup ActivePcs \cup EndPcs]
  /\ state \in [Agent -> {"awaiting_input", "working", "awaiting_permission",
                          "failed"}]
  /\ status \in [Agent -> {"idle", "running", "stopped"}]
  /\ hasHandle \in [Agent -> BOOLEAN]
  /\ turnSlots \in [Agent -> 0..MaxTurns]
  /\ ask \in [Turn -> {"none", "appending", "logged", "pending", "answering",
                       "resuming", "requeued"}]
  /\ holderOf \in [Turn -> 0..MaxTurns]
  /\ decided \in [Turn -> 0..MaxAsks]
  /\ intr \in [Agent -> {"none", "asked", "logging"}]
  /\ link \in [Agent -> [ctl : {"none", "wired", "stale"}, aborted : BOOLEAN,
                         stream : {"none", "open", "closed"}]]
  /\ loop \in [Turn -> {"off", "thinking", "asking", "ended", "refused"}]
  /\ asks \in [Turn -> 0..MaxAsks]
  /\ upsets \in 0..MaxUpsets
  /\ Slots!TypeOK

\* drain and its guard: an agent runs at most one turn, it is marked as
\* draining exactly while it does, turns start in the order they were sent,
\* and none is lost between the queue and the drain loop.
OneTurnAtATime ==
  \A a \in Agent :
    LET running == {n \in 1..MaxTurns : Active(<<a, n>>)}
        ended   == {n \in 1..MaxTurns : pc[<<a, n>>] \in EndPcs}
    IN  /\ Cardinality(running) = IF draining[a] THEN 1 ELSE 0
        /\ \A n \in running : ended = 1..(n - 1)
        /\ queue[a] = [i \in 1..(sent[a] - Cardinality(running \cup ended)) |->
                         Cardinality(running \cup ended) + i]

\* acquireSlot and decide: a loop that nobody interrupted works only while its
\* turn holds a slot, so at most Cap of them work at a time whatever is asked,
\* answered or lost in between.
LoopHoldsSlot ==
  \A t \in Turn : loop[t] = "thinking" /\ link[t[1]].stream = "open"
                    => phase[t] = "held"

\* decide (lines 3344-3362) and the `finally` of runTurn: neither an unanswered
\* prompt nor a turn that came to its end occupies the host, whichever slots it
\* took again after a person answered.
OnlyWorkHoldsSlots ==
  \A t \in Turn : Pending(t) \/ pc[t] \in {"finishing", "done"}
                    => phase[t] = "released"

\* respondPermission: two clients that answer the same request log one
\* decision, and a request still open has none.
AnsweredOnce ==
  \A t \in Turn : decided[t] <= asks[t] - (IF Pending(t) THEN 1 ELSE 0)

\* A send of the agent was rejected: it was interrupted, or the agent host
\* exited, while the turn ran.  runTurn then leaves state and handle as they are.
Rejected(a) ==
  \E n \in 1..MaxTurns : pc[<<a, n>>] = "thrown" /\ loop[<<a, n>>] = "refused"

\* A turn of the agent broke off on a write that failed, and none of the agent has
\* come to its end since.
BrokeOff(a) ==
  \E n \in 1..MaxTurns :
    /\ pc[<<a, n>>] = "broken"
    /\ \A m \in (n + 1)..MaxTurns : pc[<<a, m>>] # "done"

\* Unless a send was rejected, the session's state is about its turn: working
\* or asking only while one runs, awaiting_permission whenever a request is
\* open, and a kept handle belongs to a turn (setState, interrupt 2124-2126).
\* What a turn that broke off leaves behind is put right by the next one that
\* comes to its end.
StateTellsTheTruth ==
  \A a \in Agent : ~Rejected(a) =>
    /\ state[a] \in {"working", "awaiting_permission"}
         => draining[a] \/ BrokeOff(a)
    /\ HasPending(a) => state[a] = "awaiting_permission"
    /\ hasHandle[a] => draining[a] \/ BrokeOff(a)

\* runTurn's `finally` (line 1928): "A slot leaked by a thrown turn is a host
\* that runs one fewer agent for the rest of its life".  Whoever holds a slot
\* or waits for one is a turn that is running or waiting to.
SlotsAreOwned ==
  \A t \in Turn : phase[t] \in {"queued", "woken", "held"}
                    => pc[t] \in {"slot", "running"}

\* An agent gets through its queue, on every host and however small its cap,
\* unless it waits for a person itself: no unanswered prompt stops another
\* agent.  A rejected send may leak its slot (SlotsAreOwned), and then nothing
\* is promised.
TurnsEndUnlessAsked ==
  \A a \in Agent : draining[a] ~> \/ ~draining[a] \/ HasPending(a)
                                  \/ \E b \in Agent : Rejected(b)
=============================================================================
