-------------------------- MODULE SchedulesProofs --------------------------
(***************************************************************************)
(* What every run of a workflow and every schedule guarantees, whatever    *)
(* the documents, the roots, the times and the bounds.                     *)
(*                                                                         *)
(* Runs: a node is started after everything it needs is done, and once,    *)
(* or once more for each death of the host.  Both rest on what the advance *)
(* at work carries along (StepIsFresh): the nodes it has still to spawn    *)
(* were ready when it began.  They are unstarted still; and what they need *)
(* is done still, or is one of the children known to have been set going   *)
(* again since.                                                            *)
(*                                                                         *)
(* Schedules: one run is under way at a time (RunsCounted), which rests on *)
(* what a sweep saw before it waited: no run was going, so that those      *)
(* under way then are ones a death of the host had lost, or that left      *)
(* `live` and were set going again (NoneIsForgotten), or that a person     *)
(* started in the meantime.  And an occurrence starts one run              *)
(* (StartsCounted): the latest start is in the file, or with the sweep     *)
(* that has yet to write it, or was forgotten, and then a death of the     *)
(* host or a failed write has paid for the repetition.                     *)
(***************************************************************************)
EXTENDS Schedules, FiniteSetTheorems, SequenceTheorems, TLAPS

RunTypes == /\ doc \in Documents
            /\ DOMAIN step = Root
            /\ made \in [Root -> [Node -> Nat]]
            /\ state \in [Root -> [Node -> NodeState]]
            /\ again \in [Root -> SUBSET Node]
            /\ crashes \in Nat

\* The node of r whose session exists and is not recorded yet.
Unrecorded(r, n) == step[r].at = "created" /\ step[r].node = n

\* What n needs was done when the advance at work looked: it is so still, or was
\* set going again.
FoundDone(r, n) == \A m \in Needs(n) : state[r][m] = "done" \/ m \in again[r]

\* What an advance has still to spawn was ready, and is unstarted.
StepIsFresh ==
  \A r \in Root :
    /\ step[r].at \in {"idle", "spawning", "created"}
    /\ step[r].todo \subseteq Nodes
    /\ step[r].at = "idle" => step[r].todo = {}
    /\ step[r].at = "created" => step[r].node \in step[r].todo
    /\ \A n \in step[r].todo : state[r][n] = "unstarted" /\ FoundDone(r, n)

\* The sessions of a node: one if it is recorded or about to be, and one for
\* each time the host died.
SessionsCounted ==
  \A r \in Root, n \in Node :
    made[r][n] <= crashes + (IF state[r][n] # "unstarted" \/ Unrecorded(r, n)
                             THEN 1 ELSE 0)

IInv == /\ RunTypes
        /\ StepIsFresh
        /\ SessionsCounted

\* Documents have nodes of Node only, and need their own nodes only.
LEMMA NodesOfDocument ==
  ASSUME RunTypes
  PROVE  Nodes \subseteq Node /\ \A n \in Nodes : Needs(n) \subseteq Nodes
BY WorkflowAssumption DEF RunTypes, Nodes, Needs

\* Nothing is made or at work in the beginning.
LEMMA InitIInv == Init => IInv
<1> SUFFICES ASSUME Init PROVE IInv
  OBVIOUS
<1>1. RunTypes
  BY DEF Init, RunInit, RunTypes, NodeState
<1>2. Nodes \subseteq Node
  BY <1>1, NodesOfDocument
<1>3. StepIsFresh
  BY DEF Init, RunInit, StepIsFresh, NoStep
<1>5. SessionsCounted
  BY DEF Init, RunInit, SessionsCounted
<1> QED
  BY <1>1, <1>3, <1>5 DEF IInv

\* Steps that touch neither the nodes nor the advance at work.
LEMMA UnchangedIInv ==
  ASSUME IInv, UNCHANGED <<doc, step, made, state, again, crashes>>
  PROVE  IInv'
BY DEF IInv, RunTypes, StepIsFresh, SessionsCounted, Unrecorded, Nodes, Needs,
       FoundDone

\* An advance ends, or the host dies and all of them do.
LEMMA StepsEndIInv ==
  ASSUME IInv, UNCHANGED <<doc, made, state>>,
         crashes' \in Nat, crashes' >= crashes,
         DOMAIN step' = Root, again' \in [Root -> SUBSET Node],
         \A r \in Root :
           \/ step'[r] = step[r] /\ again'[r] = again[r]
           \/ /\ step'[r] = NoStep
              /\ crashes' > crashes \/ step[r].at # "created"
  PROVE  IInv'
<1>1. RunTypes'
  BY DEF IInv, RunTypes
<1>2. StepIsFresh'
  BY DEF IInv, StepIsFresh, NoStep, Nodes, Needs, FoundDone
<1>4. SessionsCounted'
  <2> SUFFICES ASSUME NEW r \in Root, NEW n \in Node
               PROVE  made[r][n] <= crashes' +
                        (IF state[r][n] # "unstarted" \/ Unrecorded(r, n)'
                         THEN 1 ELSE 0)
    BY DEF SessionsCounted
  <2>1. made[r][n] \in Nat /\ crashes \in Nat
    BY DEF IInv, RunTypes
  <2>2. made[r][n] <= crashes + (IF state[r][n] # "unstarted"
                                    \/ Unrecorded(r, n) THEN 1 ELSE 0)
    BY DEF IInv, SessionsCounted
  <2>3. CASE step'[r] = step[r]
    BY <2>1, <2>2, <2>3 DEF Unrecorded
  <2>4. CASE crashes' > crashes
    BY <2>1, <2>2, <2>4
  <2>5. CASE step'[r] = NoStep /\ step[r].at # "created"
    BY <2>1, <2>2, <2>5 DEF Unrecorded, NoStep
  <2> QED
    BY <2>3, <2>4, <2>5
<1> QED
  BY <1>1, <1>2, <1>4 DEF IInv

\* An advance begins with what is ready.
LEMMA BeginStepIInv ==
  ASSUME IInv, NEW r \in Root, BeginStep(r)
  PROVE  IInv'
<1>1. RunTypes'
  BY DEF IInv, RunTypes, BeginStep
<1>2. StepIsFresh'
  BY DEF IInv, RunTypes, StepIsFresh, BeginStep, Ready, Nodes, Needs, NeedsDone,
         FoundDone
<1>4. SessionsCounted'
  BY DEF IInv, RunTypes, SessionsCounted, BeginStep, MyTurn, Unrecorded
<1> QED
  BY <1>1, <1>2, <1>4 DEF IInv

\* A session is created for a node that is still to be spawned.
LEMMA CreateChildIInv ==
  ASSUME IInv, NEW r \in Root, CreateChild(r)
  PROVE  IInv'
<1>1. PICK m \in step[r].todo :
        /\ step' = [step EXCEPT ![r] =
                      [at |-> "created", todo |-> step[r].todo, node |-> m]]
        /\ made' = [made EXCEPT ![r][m] = @ + 1]
  BY DEF CreateChild
<1>2. /\ m \in Nodes /\ m \in Node
      /\ state[r][m] = "unstarted"
      /\ step[r].at = "spawning"
  BY NodesOfDocument DEF IInv, StepIsFresh, CreateChild
<1>3. UNCHANGED <<doc, state, again, crashes>>
  BY DEF CreateChild
<1>4. RunTypes'
  BY <1>1, <1>2, <1>3 DEF IInv, RunTypes
<1>5. StepIsFresh'
  BY <1>1, <1>3 DEF IInv, RunTypes, StepIsFresh, Nodes, Needs, FoundDone
<1>7. SessionsCounted'
  <2> SUFFICES ASSUME NEW q \in Root, NEW n \in Node
               PROVE  made'[q][n] <= crashes +
                        (IF state[q][n] # "unstarted" \/ Unrecorded(q, n)'
                         THEN 1 ELSE 0)
    BY <1>3 DEF SessionsCounted
  <2>1. /\ made[q][n] \in Nat /\ crashes \in Nat
        /\ made[q][n] <= crashes + (IF state[q][n] # "unstarted"
                                       \/ Unrecorded(q, n) THEN 1 ELSE 0)
    BY DEF IInv, RunTypes, SessionsCounted
  <2>2. CASE q = r /\ n = m
    <3>1. made[q][n] <= crashes
      BY <1>2, <2>1, <2>2 DEF Unrecorded
    <3>2. made'[q][n] = made[q][n] + 1
      BY <1>1, <1>2, <2>2 DEF IInv, RunTypes
    <3>3. Unrecorded(q, n)'
      BY <1>1, <2>2 DEF IInv, RunTypes, Unrecorded
    <3> QED
      BY <2>1, <3>1, <3>2, <3>3
  <2>3. CASE ~(q = r /\ n = m)
    <3>1. made'[q][n] = made[q][n]
      BY <1>1, <1>2, <2>3 DEF IInv, RunTypes
    <3>2. Unrecorded(q, n) => Unrecorded(q, n)'
      BY <1>1, <1>2 DEF IInv, RunTypes, Unrecorded
    <3> QED
      BY <2>1, <3>1, <3>2
  <2> QED
    BY <2>2, <2>3
<1> QED
  BY <1>4, <1>5, <1>7 DEF IInv

\* The state of one node moves on: what was found done stays so, unless it is
\* that very node and nothing remembers it.
LEMMA NodeMoves ==
  ASSUME IInv, NEW r \in Root, NEW m \in Nodes, NEW s \in NodeState,
         state' = [state EXCEPT ![r][m] = s],
         UNCHANGED doc
  PROVE  /\ \A q \in Root, n \in Nodes :
              /\ again[q] \subseteq again'[q]
              /\ (q = r /\ state[r][m] = "done") => m \in again'[r]
              /\ FoundDone(q, n)
              => FoundDone(q, n)'
         /\ state' \in [Root -> [Node -> NodeState]]
<1>1. m \in Node /\ \A n \in Nodes : Needs(n) \subseteq Node
  BY NodesOfDocument DEF IInv
<1>2. state' \in [Root -> [Node -> NodeState]]
  BY <1>1 DEF IInv, RunTypes
<1>3. \A q \in Root, k \in Node : (q # r \/ k # m) => state'[q][k] = state[q][k]
  BY <1>1 DEF IInv, RunTypes
<1>4. ASSUME NEW q \in Root, NEW n \in Nodes,
             again[q] \subseteq again'[q],
             (q = r /\ state[r][m] = "done") => m \in again'[r],
             FoundDone(q, n)
      PROVE  FoundDone(q, n)'
  <2>1. Needs(n)' = Needs(n)
    BY DEF Needs
  <2> SUFFICES ASSUME NEW k \in Needs(n), k \notin again'[q]
               PROVE  state'[q][k] = "done"
    BY <2>1 DEF FoundDone
  <2>2. state[q][k] = "done" /\ k \in Node
    BY <1>1, <1>4 DEF FoundDone
  <2> QED
    BY <1>3, <1>4, <2>2
<1> QED
  BY <1>2, <1>4

\* The root lists the child.
LEMMA RecordChildIInv ==
  ASSUME IInv, NEW r \in Root, RecordChild(r)
  PROVE  IInv'
<1> DEFINE m == step[r].node
           left == step[r].todo \ {m}
<1>1. /\ m \in Nodes /\ m \in Node
      /\ state[r][m] = "unstarted"
      /\ step[r].at = "created"
      /\ left \subseteq Nodes
  BY NodesOfDocument DEF IInv, StepIsFresh, RecordChild
<1>2. /\ state' = [state EXCEPT ![r][m] = "running"]
      /\ UNCHANGED <<doc, made, crashes>>
  BY DEF RecordChild
<1>3. /\ step' = [step EXCEPT ![r] = IF left = {} THEN NoStep
                                     ELSE [at |-> "spawning", todo |-> left]]
      /\ again' = [again EXCEPT ![r] = IF left = {} THEN {} ELSE @]
  BY DEF RecordChild, StepOver, IInv, RunTypes
<1>4. /\ \A q \in Root, n \in Nodes :
           again'[q] = again[q] /\ FoundDone(q, n) => FoundDone(q, n)'
      /\ state' \in [Root -> [Node -> NodeState]]
  <2>1. "running" \in NodeState
    BY DEF NodeState
  <2> QED
    BY <1>1, <1>2, <2>1, NodeMoves
<1>5. RunTypes'
  BY <1>2, <1>3, <1>4 DEF IInv, RunTypes
<1>6. StepIsFresh'
  <2> SUFFICES ASSUME NEW q \in Root
               PROVE  /\ step'[q].at \in {"idle", "spawning", "created"}
                      /\ step'[q].todo \subseteq Nodes
                      /\ step'[q].at = "idle" => step'[q].todo = {}
                      /\ step'[q].at = "created"
                           => step'[q].node \in step'[q].todo
                      /\ \A n \in step'[q].todo : state'[q][n] = "unstarted"
                                                  /\ FoundDone(q, n)'
    BY <1>2 DEF StepIsFresh, Nodes
  <2>1. /\ step[q].at \in {"idle", "spawning", "created"}
        /\ step[q].todo \subseteq Nodes
        /\ step[q].at = "idle" => step[q].todo = {}
        /\ step[q].at = "created" => step[q].node \in step[q].todo
        /\ \A n \in step[q].todo : state[q][n] = "unstarted" /\ FoundDone(q, n)
    BY DEF IInv, StepIsFresh
  <2>2. CASE q = r /\ left = {}
    BY <1>3, <2>2 DEF IInv, RunTypes, NoStep
  <2>3. CASE q = r /\ left # {}
    <3>1. step'[q] = [at |-> "spawning", todo |-> left] /\ again'[q] = again[q]
      BY <1>3, <2>3 DEF IInv, RunTypes
    <3>2. \A n \in left : FoundDone(q, n)'
      BY <1>1, <1>4, <2>1, <2>3, <3>1
    <3>3. \A n \in left : state'[q][n] = "unstarted"
      BY <1>1, <1>2, <2>1, <2>3, NodesOfDocument DEF IInv, RunTypes
    <3> QED
      BY <1>1, <3>1, <3>2, <3>3
  <2>4. CASE q # r
    <3>1. step'[q] = step[q] /\ again'[q] = again[q]
      BY <1>3, <2>4 DEF IInv, RunTypes
    <3>2. \A n \in step[q].todo : FoundDone(q, n)'
      BY <1>4, <2>1, <3>1
    <3>3. \A n \in step[q].todo : state'[q][n] = "unstarted"
      BY <1>2, <2>1, <2>4 DEF IInv, RunTypes
    <3> QED
      BY <2>1, <3>1, <3>2, <3>3
  <2> QED
    BY <2>2, <2>3, <2>4
<1>7. SessionsCounted'
  <2> SUFFICES ASSUME NEW q \in Root, NEW n \in Node
               PROVE  made[q][n] <= crashes +
                        (IF state'[q][n] # "unstarted" \/ Unrecorded(q, n)'
                         THEN 1 ELSE 0)
    BY <1>2 DEF SessionsCounted
  <2>1. /\ made[q][n] \in Nat /\ crashes \in Nat
        /\ made[q][n] <= crashes + (IF state[q][n] # "unstarted"
                                       \/ Unrecorded(q, n) THEN 1 ELSE 0)
    BY DEF IInv, RunTypes, SessionsCounted
  <2>2. CASE q = r /\ n = m
    <3>1. state'[q][n] = "running"
      BY <1>1, <1>2, <2>2 DEF IInv, RunTypes
    <3> QED
      BY <2>1, <3>1
  <2>3. CASE ~(q = r /\ n = m)
    <3>1. state'[q][n] = state[q][n]
      BY <1>1, <1>2, <2>3 DEF IInv, RunTypes
    <3>2. Unrecorded(q, n) => Unrecorded(q, n)'
      BY <1>3, <2>3 DEF IInv, RunTypes, Unrecorded
    <3> QED
      BY <2>1, <3>1, <3>2
  <2> QED
    BY <2>2, <2>3
<1> QED
  BY <1>5, <1>6, <1>7 DEF IInv

\* A child comes to its end, or is set going again: it was started, and what is
\* still to spawn was not.
LEMMA ChildMovesIInv ==
  ASSUME IInv, NEW r \in Root, NEW m \in Nodes,
         Settles(r, m) \/ TurnsAgain(r, m)
  PROVE  IInv'
<1>1. PICK s \in NodeState \ {"unstarted"} : state' = [state EXCEPT ![r][m] = s]
  BY DEF Settles, TurnsAgain, Becomes, NodeState
<1>2. /\ m \in Node
      /\ state[r][m] # "unstarted"
      /\ UNCHANGED <<doc, step, made, crashes>>
  BY NodesOfDocument DEF IInv, Settles, TurnsAgain, Becomes, Running
<1>3. /\ again' \in [Root -> SUBSET Node]
      /\ \A q \in Root : step[q].at # "idle" =>
           /\ again[q] \subseteq again'[q]
           /\ (q = r /\ state[r][m] = "done") => m \in again'[r]
  <2>1. CASE Settles(r, m)
    BY <2>1 DEF Settles, Running, IInv, RunTypes
  <2>2. CASE TurnsAgain(r, m)
    <3>1. again' = [again EXCEPT ![r] = IF step[r].at = "idle" THEN {}
                                        ELSE @ \cup {m}]
      BY <2>2 DEF TurnsAgain
    <3> QED
      BY <1>2, <3>1 DEF IInv, RunTypes
  <2> QED
    BY <2>1, <2>2
<1>4. /\ \A q \in Root, n \in Nodes :
           step[q].at # "idle" /\ FoundDone(q, n) => FoundDone(q, n)'
      /\ state' \in [Root -> [Node -> NodeState]]
  BY <1>1, <1>2, <1>3, NodeMoves
<1>5. \A q \in Root, n \in Node :
        state'[q][n] = "unstarted" <=> state[q][n] = "unstarted"
  BY <1>1, <1>2 DEF IInv, RunTypes
<1>6. RunTypes'
  BY <1>2, <1>3, <1>4 DEF IInv, RunTypes
<1>7. StepIsFresh'
  <2>1. Nodes' = Nodes /\ Nodes \subseteq Node
    BY <1>2, NodesOfDocument DEF IInv, Nodes
  <2> QED
    BY <1>2, <1>4, <1>5, <2>1 DEF IInv, StepIsFresh
<1>8. SessionsCounted'
  BY <1>2, <1>5 DEF IInv, SessionsCounted, Unrecorded
<1> QED
  BY <1>6, <1>7, <1>8 DEF IInv

\* Every step of a run keeps the invariant ...
LEMMA RunNextIInv == IInv /\ RunNext => IInv'
<1> SUFFICES ASSUME IInv, NEW r \in Root,
                    \/ Advance(r) \/ Refused(r) \/ Resume(r)
                    \/ \E n \in Nodes : \/ Settles(r, n) \/ TurnsAgain(r, n)
                                        \/ Stirs(r, n)
             PROVE  IInv'
  BY DEF RunNext
<1>1. CASE NothingToSpawn(r)
  <2>1. /\ step' = [step EXCEPT ![r] = NoStep] /\ step[r].at = "idle"
        /\ again' = [again EXCEPT ![r] = {}]
    BY <1>1 DEF NothingToSpawn, StepOver, MyTurn
  <2>2. UNCHANGED <<doc, made, state, crashes>>
    BY <1>1 DEF NothingToSpawn
  <2>3. /\ crashes' \in Nat /\ crashes' >= crashes
        /\ DOMAIN step' = Root /\ again' \in [Root -> SUBSET Node]
        /\ \A q \in Root : \/ step'[q] = step[q] /\ again'[q] = again[q]
                           \/ step'[q] = NoStep /\ step[q].at # "created"
    BY <2>1, <2>2 DEF IInv, RunTypes
  <2> QED
    BY <2>2, <2>3, StepsEndIInv
<1>2. CASE BeginStep(r)
  BY <1>2, BeginStepIInv
<1>3. CASE CreateChild(r)
  BY <1>3, CreateChildIInv
<1>4. CASE RecordChild(r)
  BY <1>4, RecordChildIInv
<1>5. CASE Refused(r)
  <2>1. /\ step' = [step EXCEPT ![r] = NoStep] /\ step[r].at = "spawning"
        /\ again' = [again EXCEPT ![r] = {}]
    BY <1>5 DEF Refused, StepOver
  <2>2. UNCHANGED <<doc, made, state, crashes>>
    BY <1>5 DEF Refused
  <2>3. /\ crashes' \in Nat /\ crashes' >= crashes
        /\ DOMAIN step' = Root /\ again' \in [Root -> SUBSET Node]
        /\ \A q \in Root : \/ step'[q] = step[q] /\ again'[q] = again[q]
                           \/ step'[q] = NoStep /\ step[q].at # "created"
    BY <2>1, <2>2 DEF IInv, RunTypes
  <2> QED
    BY <2>2, <2>3, StepsEndIInv
<1>6. CASE Resume(r)
  BY <1>6, UnchangedIInv DEF Resume
<1>7. CASE \E n \in Nodes : Settles(r, n) \/ TurnsAgain(r, n)
  BY <1>7, ChildMovesIInv
<1>8. CASE \E n \in Nodes : Stirs(r, n)
  BY <1>8, UnchangedIInv DEF Stirs
<1> QED
  BY <1>1, <1>2, <1>3, <1>4, <1>5, <1>6, <1>7, <1>8 DEF Advance

\* ... and so does every step of the system.
LEMMA NextIInv == IInv /\ [Next]_vars => IInv'
<1> SUFFICES ASSUME IInv, [Next]_vars PROVE IInv'
  OBVIOUS
<1>1. CASE UNCHANGED vars
  BY <1>1, UnchangedIInv DEF vars, runVars
<1>2. CASE Sweep
  BY <1>2, UnchangedIInv
     DEF Sweep, SweepBegins, NotDue, Due, RunStarts, RunReturns, SweepWrites,
         Start, runVars
<1>3. CASE RunWouldNotStart \/ RunByHand
  BY <1>3, UnchangedIInv DEF RunWouldNotStart, RunByHand, Start
<1>4. CASE Tick
  BY <1>4, UnchangedIInv DEF Tick, runVars
<1>5. CASE HostDies
  <2>1. /\ step' = [r \in Root |-> NoStep]
        /\ again' = [r \in Root |-> {}]
        /\ crashes' = crashes + 1
        /\ UNCHANGED <<doc, made, state>>
    BY <1>5 DEF HostDies, RunsDie
  <2> QED
    BY <2>1, StepsEndIInv DEF IInv, RunTypes
<1>6. CASE RunNext
  BY <1>6, RunNextIInv
<1> QED
  BY <1>1, <1>2, <1>3, <1>4, <1>5, <1>6 DEF Next

\* The inductive invariant holds of every behaviour.
THEOREM InvariantHolds == SafeSpec => []IInv
<1> QED
  BY InitIInv, NextIInv, PTL DEF SafeSpec

\* nextStep and spawnReady: for every document, a node that is started finds
\* everything it needs done, but for what was set going again while the advance
\* that starts it was at work.
THEOREM NodesStartInOrder == SafeSpec => NeedsFinishedFirst
<1>1. IInv /\ [Next]_vars
        => [\A r \in Root, n \in Nodes : FindsNeedsDone(r, n)]_runVars
  <2> SUFFICES ASSUME IInv, [Next]_vars, NEW r \in Root, NEW n \in Nodes,
                      made'[r][n] > made[r][n]
               PROVE  FoundDone(r, n)
    BY DEF FindsNeedsDone, FoundDone
  <2>1. n \in Node /\ made[r][n] \in Nat
    BY NodesOfDocument DEF IInv, RunTypes
  <2>2. made' # made
    BY <2>1
  <2>3. PICK q \in Root : CreateChild(q)
    BY <2>2 DEF Next, vars, runVars, Sweep, SweepBegins, NotDue, Due, RunStarts,
                RunReturns, SweepWrites, Start, RunWouldNotStart, RunByHand, Tick,
                HostDies, RunsDie, RunNext, Advance, NothingToSpawn, BeginStep,
                RecordChild, Refused, Resume, Settles, TurnsAgain, Becomes, Stirs
  <2>4. PICK k \in step[q].todo : made' = [made EXCEPT ![q][k] = @ + 1]
    BY <2>3 DEF CreateChild
  <2>5. k \in Node /\ q \in Root
    BY <2>4, NodesOfDocument DEF IInv, StepIsFresh
  <2>6. r = q /\ n = k
    BY <2>1, <2>4, <2>5 DEF IInv, RunTypes
  <2> QED
    BY <2>4, <2>6 DEF IInv, StepIsFresh
<1> QED
  BY <1>1, InvariantHolds, PTL DEF SafeSpec, NeedsFinishedFirst

\* advance and its chain: for every document, a node has at most one session
\* and one for each death of the host.
THEOREM NodesStartOnce == SafeSpec => []NodeStartedOnce
<1>1. IInv => NodeStartedOnce
  <2> SUFFICES ASSUME IInv, NEW r \in Root, NEW n \in Node
               PROVE  made[r][n] <= 1 + crashes
    BY DEF NodeStartedOnce
  <2>1. made[r][n] \in Nat /\ crashes \in Nat
    BY DEF IInv, RunTypes
  <2>2. made[r][n] <= crashes + (IF state[r][n] # "unstarted"
                                    \/ Unrecorded(r, n) THEN 1 ELSE 0)
    BY DEF IInv, SessionsCounted
  <2> QED
    BY <2>1, <2>2
<1> QED
  BY <1>1, InvariantHolds, PTL

----------------------------------------------------------------------------
(* Runs: what is known of each, and how many are under way.                *)

\* An advance of r is at work, or would find something to do or to wait for.
AtWork(r) == ~Finished(r) \/ step[r].at # "idle"

Unfinished == {r \in rooted : AtWork(r)}

\* The runs that are known were started, and so was one that has an advance
\* under way.
RunsKnown ==
  /\ IsFiniteSet(rooted) /\ Cardinality(rooted) <= doc.runs
  /\ rooted \subseteq Root /\ open \subseteq rooted /\ live \subseteq open
  /\ over \subseteq rooted /\ forgotten \subseteq open \ live
  /\ crashes = 0 => open = rooted
  /\ reopened \in Nat
  /\ chained \in [Root -> Nat]
  /\ \A r \in Root : /\ chained[r] > 0 => r \in rooted
                     /\ step[r].at # "idle" => chained[r] > 0

\* What left `live` is over, but for the runs that moved after that.
NoneIsForgotten == \A r \in open \ live : AtWork(r) => r \in forgotten

\* Only a death of the host takes runs that are under way out of `live`, all
\* that there are, and only a child that is set going again puts one under way
\* that is not in it; none but those, and those that a person starts, is under
\* way when a sweep has found no run going.
RunsCounted ==
  /\ byHand \in Nat
  /\ Cardinality(Unfinished) <= 1 + byHand + crashes + reopened
  /\ Cardinality(Unfinished \ live) <= byHand + crashes + reopened
  /\ crashes = 0 => Cardinality(live) <= 1 + byHand
  /\ sweep.at = "starting" =>
       /\ Cardinality(Unfinished) <= byHand + crashes + reopened
       /\ crashes = 0 => Cardinality(live) <= byHand

\* A run whose nodes do not move stays finished, or unfinished.
LEMMA FinishedStays ==
  ASSUME NEW q \in Root, doc' = doc, state'[q] = state[q]
  PROVE  Finished(q)' <=> Finished(q)
<1>1. Nodes' = Nodes /\ \A n : Needs(n)' = Needs(n)
  BY DEF Nodes, Needs
<1>2. \A n : Above(n)' = Above(n)
  BY DEF Above, Nodes, Needs
<1>3. \A n : Stranded(q, n)' <=> Stranded(q, n)
  BY <1>2 DEF Stranded
<1>4. \A n : NeedsDone(q, n)' <=> NeedsDone(q, n)
  BY <1>1 DEF NeedsDone
<1> QED
  BY <1>1, <1>3, <1>4 DEF Finished, Running, Ready

\* Fewer runs are under way, none is lost, and none is known that was not.
Fewer == /\ Unfinished' \subseteq Unfinished
         /\ Unfinished' \ live' \subseteq Unfinished \ live
         /\ crashes = 0 => live' \subseteq live
         /\ \A q \in open' \ live' : AtWork(q)' => q \in open \ live /\ AtWork(q)
         /\ UNCHANGED <<forgotten, crashes, reopened>>

\* It is so if none is under way that was not.
LEMMA FewerAtWork ==
  ASSUME RunsKnown,
         UNCHANGED <<rooted, open, live, forgotten, crashes, reopened>>,
         \A q \in Root : AtWork(q)' => AtWork(q)
  PROVE  Fewer
BY DEF RunsKnown, Fewer, Unfinished

\* Steps that touch no run.
LEMMA RunsUntouched ==
  ASSUME RunsKnown, UNCHANGED runVars
  PROVE  RunsKnown' /\ Fewer
<1>1. \A q \in Root : Finished(q)' <=> Finished(q)
  BY FinishedStays DEF runVars
<1> QED
  BY <1>1 DEF RunsKnown, runVars, Fewer, Unfinished, AtWork

\* An advance has nothing to spawn, and may end the run.
LEMMA NothingToSpawnRuns ==
  ASSUME IInv, RunsKnown, NEW r \in Root, NothingToSpawn(r)
  PROVE  RunsKnown' /\ Fewer
<1>1. \A q \in Root : Finished(q)' <=> Finished(q)
  BY FinishedStays DEF NothingToSpawn
<1>2. /\ step' = [step EXCEPT ![r] = NoStep]
      /\ chained' = [chained EXCEPT ![r] = @ - 1]
      /\ over' = over \cup {r}
      /\ UNCHANGED <<doc, rooted, open, made, state, forgotten, crashes,
                     reopened>>
      /\ chained[r] > 0
      /\ live' = IF Finished(r) THEN live \ {r} ELSE live
  BY DEF NothingToSpawn, StepOver
<1>3. RunsKnown'
  BY <1>2 DEF RunsKnown, IInv, RunTypes, NoStep
<1>4. \A q \in Root : AtWork(q)' => AtWork(q) /\ ~(q = r /\ Finished(r))
  BY <1>1, <1>2 DEF AtWork, IInv, RunTypes, NoStep
<1>5. Fewer
  BY <1>2, <1>4 DEF Fewer, Unfinished, RunsKnown
<1> QED
  BY <1>3, <1>5

\* An advance begins: what is ready was not finished.
LEMMA BeginStepRuns ==
  ASSUME IInv, RunsKnown, NEW r \in Root, BeginStep(r)
  PROVE  RunsKnown' /\ Fewer
<1>1. \A q \in Root : Finished(q)' <=> Finished(q)
  BY FinishedStays DEF BeginStep
<1>2. /\ step' = [step EXCEPT ![r] = [at |-> "spawning", todo |-> Ready(r)]]
      /\ UNCHANGED <<doc, rooted, open, live, chained, over, made, state,
                     forgotten, crashes, reopened>>
      /\ chained[r] > 0
      /\ ~Finished(r)
  BY DEF BeginStep, Finished
<1>3. RunsKnown'
  BY <1>2 DEF RunsKnown, IInv, RunTypes
<1>4. \A q \in Root : AtWork(q)' => AtWork(q)
  BY <1>1, <1>2 DEF AtWork, IInv, RunTypes
<1>5. Fewer
  BY <1>2, <1>4, FewerAtWork
<1> QED
  BY <1>3, <1>5

\* A session is created, by an advance that was at work.
LEMMA CreateChildRuns ==
  ASSUME IInv, RunsKnown, NEW r \in Root, CreateChild(r)
  PROVE  RunsKnown' /\ Fewer
<1>1. \A q \in Root : Finished(q)' <=> Finished(q)
  BY FinishedStays DEF CreateChild
<1>2. /\ UNCHANGED <<doc, rooted, open, live, chained, over, state, forgotten,
                     crashes, reopened>>
      /\ step[r].at # "idle"
      /\ \A q \in Root \ {r} : step'[q] = step[q]
  BY DEF CreateChild, IInv, RunTypes
<1>3. RunsKnown'
  BY <1>2 DEF RunsKnown
<1>4. \A q \in Root : AtWork(q)' => AtWork(q)
  BY <1>1, <1>2 DEF AtWork
<1>5. Fewer
  BY <1>2, <1>4, FewerAtWork
<1> QED
  BY <1>3, <1>5

\* A spawn is refused: the advance that was at work ends.
LEMMA RefusedRuns ==
  ASSUME IInv, RunsKnown, NEW r \in Root, Refused(r)
  PROVE  RunsKnown' /\ Fewer
<1>1. \A q \in Root : Finished(q)' <=> Finished(q)
  BY FinishedStays DEF Refused
<1>2. /\ step' = [step EXCEPT ![r] = NoStep]
      /\ chained' = [chained EXCEPT ![r] = @ - 1]
      /\ over' = over \cup {r}
      /\ UNCHANGED <<doc, rooted, open, live, made, state, forgotten, crashes,
                     reopened>>
      /\ step[r].at # "idle"
  BY DEF Refused, StepOver
<1>3. RunsKnown'
  BY <1>2 DEF RunsKnown, IInv, RunTypes, NoStep
<1>4. \A q \in Root : AtWork(q)' => AtWork(q)
  BY <1>1, <1>2 DEF AtWork, IInv, RunTypes, NoStep
<1>5. Fewer
  BY <1>2, <1>4, FewerAtWork
<1> QED
  BY <1>3, <1>5

\* The root lists the child: the run goes on, and others do not move.
LEMMA RecordChildRuns ==
  ASSUME IInv, RunsKnown, NEW r \in Root, RecordChild(r)
  PROVE  RunsKnown' /\ Fewer
<1> DEFINE left == step[r].todo \ {step[r].node}
<1>1. /\ UNCHANGED <<doc, rooted, open, live, made, forgotten, crashes,
                     reopened>>
      /\ step[r].at # "idle"
      /\ \A q \in Root \ {r} : step'[q] = step[q] /\ state'[q] = state[q]
  BY DEF RecordChild, StepOver, IInv, RunTypes
<1>2. \A q \in Root \ {r} : Finished(q)' <=> Finished(q)
  BY <1>1, FinishedStays
<1>3. RunsKnown'
  <2>1. CASE left = {}
    <3>1. /\ step' = [step EXCEPT ![r] = NoStep]
          /\ chained' = [chained EXCEPT ![r] = @ - 1]
          /\ over' = over \cup {r}
      BY <2>1 DEF RecordChild, StepOver
    <3> QED
      BY <1>1, <3>1 DEF RunsKnown, IInv, RunTypes, NoStep
  <2>2. CASE left # {}
    <3>1. UNCHANGED <<chained, over>>
      BY <2>2 DEF RecordChild
    <3> QED
      BY <1>1, <3>1 DEF RunsKnown
  <2> QED
    BY <2>1, <2>2
<1>4. \A q \in Root : AtWork(q)' => AtWork(q)
  BY <1>1, <1>2 DEF AtWork
<1>5. Fewer
  BY <1>1, <1>4, FewerAtWork
<1> QED
  BY <1>3, <1>5

\* A child of a run settles: its run was under way.
LEMMA SettlesRuns ==
  ASSUME IInv, RunsKnown, NEW r \in Root, NEW n \in Nodes, Settles(r, n)
  PROVE  RunsKnown' /\ Fewer
<1>1. /\ UNCHANGED <<doc, rooted, open, live, step, over, made, forgotten,
                     crashes, reopened>>
      /\ ~Finished(r)
      /\ chained' = [chained EXCEPT ![r] = IF r \in live THEN @ + 1 ELSE @]
      /\ \A q \in Root \ {r} : state'[q] = state[q]
  BY DEF Settles, Becomes, Finished, ChainedOnce, IInv, RunTypes
<1>2. \A q \in Root \ {r} : Finished(q)' <=> Finished(q)
  BY <1>1, FinishedStays
<1>3. RunsKnown'
  BY <1>1 DEF RunsKnown
<1>4. \A q \in Root : AtWork(q)' => AtWork(q)
  BY <1>1, <1>2 DEF AtWork
<1>5. Fewer
  BY <1>1, <1>4, FewerAtWork
<1> QED
  BY <1>3, <1>5

\* A run from before the host died is taken up again.
LEMMA ResumeRuns ==
  ASSUME IInv, RunsKnown, NEW r \in Root, Resume(r)
  PROVE  RunsKnown' /\ Fewer
<1>1. \A q \in Root : Finished(q)' <=> Finished(q)
  BY FinishedStays DEF Resume
<1>2. /\ UNCHANGED <<doc, rooted, step, over, made, state, forgotten, crashes,
                     reopened>>
      /\ r \in rooted \ open
      /\ open' = open \cup {r} /\ live' = live \cup {r}
      /\ chained' = [chained EXCEPT ![r] = 1]
  BY DEF Resume, Loaded
<1>3. RunsKnown'
  BY <1>2 DEF RunsKnown
<1>4. crashes # 0
  BY <1>2 DEF RunsKnown
<1>5. \A q \in Root : AtWork(q)' => AtWork(q)
  BY <1>1, <1>2 DEF AtWork
<1>6. Fewer
  BY <1>2, <1>4, <1>5 DEF Fewer, Unfinished, RunsKnown
<1> QED
  BY <1>3, <1>6

\* A child at work stirs: one more advance is asked for.
LEMMA StirsRuns ==
  ASSUME IInv, RunsKnown, NEW r \in Root, NEW n \in Nodes, Stirs(r, n)
  PROVE  RunsKnown' /\ Fewer
<1>1. \A q \in Root : Finished(q)' <=> Finished(q)
  BY FinishedStays DEF Stirs
<1>2. /\ UNCHANGED <<doc, rooted, open, live, step, over, made, state, forgotten,
                     crashes, reopened>>
      /\ r \in live
      /\ chained' = [chained EXCEPT ![r] = @ + 1]
  BY DEF Stirs, ChainedOnce, RunsKnown
<1>3. RunsKnown'
  BY <1>2 DEF RunsKnown
<1>4. \A q \in Root : AtWork(q)' => AtWork(q)
  BY <1>1, <1>2 DEF AtWork
<1>5. Fewer
  BY <1>2, <1>4, FewerAtWork
<1> QED
  BY <1>3, <1>5

\* A child is set going again: its run may be under way again, and if it had left
\* `live` it is known for that.
LEMMA TurnsAgainRuns ==
  ASSUME IInv, RunsKnown, NEW r \in Root, NEW n \in Nodes, TurnsAgain(r, n)
  PROVE  /\ RunsKnown'
         /\ Unfinished' \subseteq Unfinished \cup {r}
         /\ NoneIsForgotten => NoneIsForgotten'
         /\ UNCHANGED <<live, crashes>>
         /\ reopened' = reopened + 1
<1>1. /\ UNCHANGED <<doc, rooted, open, live, step, over, made, crashes>>
      /\ chained' = [chained EXCEPT ![r] = IF r \in live THEN @ + 1 ELSE @]
      /\ forgotten' = IF r \in open \ live THEN forgotten \cup {r} ELSE forgotten
      /\ reopened' = reopened + 1
      /\ \A q \in Root \ {r} : state'[q] = state[q]
  BY DEF TurnsAgain, Becomes, ChainedOnce, IInv, RunTypes, RunsKnown
<1>2. \A q \in Root \ {r} : Finished(q)' <=> Finished(q)
  BY <1>1, FinishedStays
<1>3. RunsKnown'
  BY <1>1 DEF RunsKnown
<1>4. \A q \in Root \ {r} : AtWork(q)' => AtWork(q)
  BY <1>1, <1>2 DEF AtWork
<1>5. Unfinished' \subseteq Unfinished \cup {r}
  BY <1>1, <1>4 DEF Unfinished, RunsKnown
<1>6. NoneIsForgotten => NoneIsForgotten'
  BY <1>1, <1>4 DEF NoneIsForgotten, RunsKnown
<1> QED
  BY <1>1, <1>3, <1>5, <1>6

\* No other step of a run that was started adds one that is under way.
LEMMA RunNextRuns ==
  ASSUME IInv, RunsKnown, RunNext,
         \A r \in Root, n \in Nodes : ~TurnsAgain(r, n)
  PROVE  RunsKnown' /\ Fewer
<1> SUFFICES ASSUME NEW r \in Root,
                    \/ Advance(r) \/ Refused(r) \/ Resume(r)
                    \/ \E n \in Nodes : Settles(r, n) \/ Stirs(r, n)
             PROVE  RunsKnown' /\ Fewer
  BY DEF RunNext
<1> QED
  BY NothingToSpawnRuns, BeginStepRuns, CreateChildRuns, RecordChildRuns,
     RefusedRuns, ResumeRuns, SettlesRuns, StirsRuns DEF Advance

\* A sweep or a person starts a run, of a root that has none: there are more roots
\* than runs that were started.
LEMMA StartRuns ==
  ASSUME IInv, RunsKnown, ~NoMoreRuns, Start(NewRoot)
  PROVE  /\ RunsKnown'
         /\ NewRoot \in Root
         /\ Unfinished' \subseteq Unfinished \cup {NewRoot}
         /\ live' = live \cup {NewRoot}
         /\ NoneIsForgotten => NoneIsForgotten'
         /\ UNCHANGED <<crashes, reopened>>
<1> DEFINE r == NewRoot
<1>1. r \in Root
  <2>1. doc \in Documents /\ doc.runs \in Nat /\ Cardinality(rooted) \in Nat
    BY WorkflowAssumption, FS_CardinalityType DEF IInv, RunTypes, RunsKnown
  <2>2. Cardinality(rooted) < doc.runs
    BY <2>1 DEF NoMoreRuns, RunsKnown
  <2>3. rooted # Root
    BY <2>1, <2>2, WorkflowAssumption DEF RunsKnown
  <2>4. \E x \in Root : x \notin rooted
    BY <2>3 DEF RunsKnown
  <2> QED
    BY <2>4 DEF NewRoot
<1>2. Start(r)
  OBVIOUS
<1> HIDE DEF r
<1>3. /\ r \notin rooted
      /\ rooted' = rooted \cup {r}
      /\ open' = open \cup {r} /\ live' = live \cup {r}
      /\ chained' = [chained EXCEPT ![r] = 1]
      /\ UNCHANGED <<doc, step, over, made, state, forgotten, crashes, reopened>>
  BY <1>2 DEF Start, Loaded
<1>4. \A q \in Root : Finished(q)' <=> Finished(q)
  BY <1>3, FinishedStays
<1>5. IsFiniteSet(rooted') /\ Cardinality(rooted') <= doc'.runs
  <2>1. doc \in Documents /\ doc.runs \in Nat /\ Cardinality(rooted) \in Nat
    BY WorkflowAssumption, FS_CardinalityType DEF IInv, RunTypes, RunsKnown
  <2>2. Cardinality(rooted) < doc.runs
    BY <2>1 DEF NoMoreRuns, RunsKnown
  <2>3. IsFiniteSet(rooted')
    BY <1>3, FS_AddElement DEF RunsKnown
  <2>4. Cardinality(rooted') = Cardinality(rooted) + 1
    BY <1>3, FS_AddElement DEF RunsKnown
  <2> QED
    BY <1>3, <2>1, <2>2, <2>3, <2>4
<1>6. RunsKnown'
  BY <1>1, <1>3, <1>5 DEF RunsKnown
<1>7. \A q \in Root : AtWork(q)' => AtWork(q)
  BY <1>3, <1>4 DEF AtWork
<1>8. Unfinished' \subseteq Unfinished \cup {r}
  BY <1>3, <1>7 DEF Unfinished, RunsKnown
<1>9. NoneIsForgotten => NoneIsForgotten'
  BY <1>3, <1>7 DEF NoneIsForgotten, RunsKnown
<1> QED
  BY <1>1, <1>3, <1>6, <1>8, <1>9 DEF r

\* A death of the host loses the runs that were under way, and starts none.
LEMMA HostDiesRuns ==
  ASSUME IInv, RunsKnown, HostDies
  PROVE  /\ RunsKnown'
         /\ Unfinished' \subseteq Unfinished
         /\ NoneIsForgotten'
         /\ crashes' = crashes + 1 /\ reopened' = reopened
<1>1. /\ UNCHANGED <<doc, rooted, over, made, state, reopened>>
      /\ open' = {} /\ live' = {} /\ forgotten' = {}
      /\ step' = [r \in Root |-> NoStep]
      /\ chained' = [r \in Root |-> 0]
      /\ crashes' = crashes + 1
  BY DEF HostDies, RunsDie
<1>2. \A q \in Root : Finished(q)' <=> Finished(q)
  BY <1>1, FinishedStays
<1>3. RunsKnown'
  BY <1>1 DEF RunsKnown, NoStep, IInv, RunTypes
<1>4. Unfinished' \subseteq Unfinished
  BY <1>1, <1>2 DEF Unfinished, AtWork, NoStep, RunsKnown
<1>5. NoneIsForgotten'
  BY <1>1 DEF NoneIsForgotten
<1> QED
  BY <1>1, <1>3, <1>4, <1>5

\* What is added to a finite set, or taken from it, shows in its number.
LEMMA CountedOnce ==
  ASSUME NEW S, IsFiniteSet(S), NEW x, NEW T, T \subseteq S \cup {x}
  PROVE  /\ Cardinality(S) \in Nat /\ Cardinality(T) \in Nat
         /\ Cardinality(T) <= Cardinality(S) + 1
         /\ T \subseteq S => Cardinality(T) <= Cardinality(S)
<1>1. IsFiniteSet(S \cup {x}) /\ Cardinality(S \cup {x}) <= Cardinality(S) + 1
  <2>1. Cardinality(S) \in Nat
    BY FS_CardinalityType
  <2>2. /\ IsFiniteSet(S \cup {x})
        /\ Cardinality(S \cup {x}) =
             IF x \in S THEN Cardinality(S) ELSE Cardinality(S) + 1
    BY FS_AddElement
  <2> QED
    BY <2>1, <2>2
<1>2. IsFiniteSet(T) /\ Cardinality(T) <= Cardinality(S \cup {x})
  BY <1>1, FS_Subset
<1>3. T \subseteq S => Cardinality(T) <= Cardinality(S)
  BY FS_Subset
<1>4. /\ Cardinality(S) \in Nat /\ Cardinality(T) \in Nat
      /\ Cardinality(S \cup {x}) \in Nat
  BY <1>1, <1>2, FS_CardinalityType
<1> QED
  BY <1>1, <1>2, <1>3, <1>4

\* The sets of runs that are counted are finite.
LEMMA UnfinishedIsFinite ==
  ASSUME RunsKnown
  PROVE  IsFiniteSet(Unfinished) /\ IsFiniteSet(Unfinished \ live)
         /\ IsFiniteSet(live)
<1>1. /\ Unfinished \in SUBSET rooted /\ Unfinished \ live \in SUBSET rooted
      /\ live \in SUBSET rooted
  BY DEF Unfinished, RunsKnown
<1> QED
  BY <1>1, FS_Subset DEF RunsKnown

\* What is counted, in one place.
LEMMA CountsAreNat ==
  ASSUME IInv, RunsKnown, RunsCounted
  PROVE  /\ Cardinality(Unfinished) \in Nat
         /\ Cardinality(Unfinished \ live) \in Nat
         /\ Cardinality(live) \in Nat
         /\ crashes \in Nat /\ reopened \in Nat /\ byHand \in Nat
BY UnfinishedIsFinite, FS_CardinalityType
   DEF IInv, RunTypes, RunsKnown, RunsCounted

\* What is counted only shrinks, and no sweep comes to start a run.
LEMMA FewerCounted ==
  ASSUME IInv, RunsKnown, RunsCounted, NoneIsForgotten, Fewer, byHand' = byHand,
         sweep'.at = "starting" => sweep.at = "starting"
  PROVE  RunsCounted' /\ NoneIsForgotten'
<1>1. /\ Unfinished' \subseteq Unfinished
      /\ (Unfinished \ live)' \subseteq Unfinished \ live
      /\ crashes = 0 => live' \subseteq live
      /\ UNCHANGED <<crashes, reopened, byHand>>
  BY DEF Fewer
<1>2. Cardinality(Unfinished') <= Cardinality(Unfinished)
  BY <1>1, UnfinishedIsFinite, FS_Subset
<1>3. Cardinality((Unfinished \ live)') <= Cardinality(Unfinished \ live)
  BY <1>1, UnfinishedIsFinite, FS_Subset
<1>4. crashes = 0 => Cardinality(live') <= Cardinality(live)
  BY <1>1, UnfinishedIsFinite, FS_Subset
<1>5. /\ Cardinality(Unfinished') \in Nat
      /\ Cardinality((Unfinished \ live)') \in Nat
      /\ crashes = 0 => Cardinality(live') \in Nat
  <2>1. /\ IsFiniteSet(Unfinished') /\ IsFiniteSet((Unfinished \ live)')
        /\ crashes = 0 => IsFiniteSet(live')
    BY <1>1, UnfinishedIsFinite, FS_Subset
  <2> QED
    BY <2>1, FS_CardinalityType
<1>6. RunsCounted'
  BY <1>1, <1>2, <1>3, <1>4, <1>5, CountsAreNat DEF RunsCounted
<1>7. NoneIsForgotten'
  BY DEF Fewer, NoneIsForgotten
<1> QED
  BY <1>6, <1>7

\* One run more is under way, and known: a sweep or a person started it.
LEMMA StartCounted ==
  ASSUME IInv, RunsKnown, RunsCounted, ~NoMoreRuns, Start(NewRoot),
         \/ sweep.at = "starting" /\ sweep'.at # "starting" /\ byHand' = byHand
         \/ sweep' = sweep /\ byHand' = byHand + 1
  PROVE  RunsCounted'
<1> DEFINE r == NewRoot
<1>1. /\ Unfinished' \subseteq Unfinished \cup {r}
      /\ live' = live \cup {r}
      /\ UNCHANGED <<crashes, reopened>>
  BY StartRuns
<1>2. (Unfinished \ live)' \subseteq Unfinished \ live
  BY <1>1
<1> HIDE DEF r
<1>3. /\ Cardinality(Unfinished') <= Cardinality(Unfinished) + 1
      /\ Cardinality(Unfinished') \in Nat
  BY <1>1, UnfinishedIsFinite, CountedOnce
<1>4. /\ Cardinality(live') <= Cardinality(live) + 1
      /\ Cardinality(live') \in Nat
  BY <1>1, UnfinishedIsFinite, CountedOnce
<1>5. /\ Cardinality((Unfinished \ live)') <= Cardinality(Unfinished \ live)
      /\ Cardinality((Unfinished \ live)') \in Nat
  BY <1>2, UnfinishedIsFinite, CountedOnce
<1> QED
  BY <1>1, <1>3, <1>4, <1>5, CountsAreNat DEF RunsCounted

\* A sweep finds no run going: none is under way that it would know of.
LEMMA DueCounted ==
  ASSUME IInv, RunsKnown, RunsCounted, live = {},
         UNCHANGED runVars, byHand' = byHand
  PROVE  RunsCounted'
<1>1. Fewer
  BY RunsUntouched
<1>2. /\ Unfinished' \subseteq Unfinished /\ live' = live
      /\ UNCHANGED <<crashes, reopened>>
  BY <1>1 DEF Fewer, runVars
<1>3. Unfinished \ live = Unfinished /\ (Unfinished \ live)' = Unfinished'
  BY <1>2
<1>4. Cardinality(Unfinished') <= Cardinality(Unfinished)
      /\ Cardinality(Unfinished') \in Nat
  BY <1>2, UnfinishedIsFinite, CountedOnce
<1>5. Cardinality(live') = 0
  BY <1>2, FS_EmptySet
<1> QED
  BY <1>2, <1>3, <1>4, <1>5, CountsAreNat DEF RunsCounted

\* A child is set going again.
LEMMA TurnsAgainCounted ==
  ASSUME IInv, RunsKnown, RunsCounted, UNCHANGED schedVars,
         NEW r \in Root, NEW n \in Nodes, TurnsAgain(r, n)
  PROVE  RunsCounted'
<1>1. /\ Unfinished' \subseteq Unfinished \cup {r}
      /\ live' = live /\ crashes' = crashes
      /\ reopened' = reopened + 1
  BY TurnsAgainRuns
<1>2. (Unfinished \ live)' \subseteq (Unfinished \ live) \cup {r}
  BY <1>1
<1>3. /\ Cardinality(Unfinished') <= Cardinality(Unfinished) + 1
      /\ Cardinality(Unfinished') \in Nat
  BY <1>1, UnfinishedIsFinite, CountedOnce
<1>4. /\ Cardinality((Unfinished \ live)') <= Cardinality(Unfinished \ live) + 1
      /\ Cardinality((Unfinished \ live)') \in Nat
  BY <1>2, UnfinishedIsFinite, CountedOnce
<1>5. byHand' = byHand /\ sweep' = sweep
  BY DEF schedVars
<1> QED
  BY <1>1, <1>3, <1>4, <1>5, CountsAreNat DEF RunsCounted

\* The host dies: what was under way may be so, and is not known.
LEMMA HostDiesCounted ==
  ASSUME IInv, RunsKnown, RunsCounted, HostDies
  PROVE  RunsCounted'
<1>1. /\ Unfinished' \subseteq Unfinished
      /\ crashes' = crashes + 1 /\ reopened' = reopened
      /\ byHand' = byHand /\ sweep'.at = "idle"
  BY HostDiesRuns DEF HostDies, NoSweep
<1>2. (Unfinished \ live)' \subseteq Unfinished
  BY <1>1
<1>3. /\ Cardinality(Unfinished') <= Cardinality(Unfinished)
      /\ Cardinality(Unfinished') \in Nat
  BY <1>1, UnfinishedIsFinite, CountedOnce
<1>4. /\ Cardinality((Unfinished \ live)') <= Cardinality(Unfinished)
      /\ Cardinality((Unfinished \ live)') \in Nat
  BY <1>2, UnfinishedIsFinite, CountedOnce
<1> QED
  BY <1>1, <1>3, <1>4, CountsAreNat DEF RunsCounted

\* The runs are known, and counted, in every state.
LEMMA RunsIInv ==
  ASSUME IInv, RunsKnown, RunsCounted, NoneIsForgotten, [Next]_vars
  PROVE  RunsKnown' /\ RunsCounted' /\ NoneIsForgotten'
<1>1. CASE /\ UNCHANGED runVars /\ byHand' = byHand
           /\ sweep'.at = "starting" => sweep.at = "starting"
  BY <1>1, RunsUntouched, FewerCounted
<1>2. CASE Due
  <2>1. live = {} /\ UNCHANGED runVars /\ byHand' = byHand
    BY <1>2 DEF Due, DueNow, IsRunning
  <2>2. RunsKnown' /\ Fewer
    BY <2>1, RunsUntouched
  <2>3. NoneIsForgotten'
    BY <2>2 DEF Fewer, NoneIsForgotten
  <2> QED
    BY <2>1, <2>2, <2>3, DueCounted
<1>3. CASE RunStarts
  <2>1. /\ ~NoMoreRuns /\ Start(NewRoot)
        /\ sweep.at = "starting" /\ sweep'.at = "waiting" /\ byHand' = byHand
    BY <1>3 DEF RunStarts
  <2> QED
    BY <2>1, StartRuns, StartCounted
<1>4. CASE RunByHand
  <2>1. /\ ~NoMoreRuns /\ Start(NewRoot)
        /\ sweep' = sweep /\ byHand' = byHand + 1
    BY <1>4 DEF RunByHand
  <2> QED
    BY <2>1, StartRuns, StartCounted
<1>5. CASE RunWouldNotStart
  <2>1. RunsKnown' /\ sweep'.at = "writing" /\ byHand' = byHand
    BY <1>5 DEF RunWouldNotStart, Written, RunsKnown
  <2>2. UNCHANGED <<doc, rooted, open, live, step, state, forgotten, crashes,
                    reopened>>
    BY <1>5 DEF RunWouldNotStart
  <2>3. \A q \in Root : Finished(q)' <=> Finished(q)
    BY <2>2, FinishedStays
  <2>4. \A q \in Root : AtWork(q)' => AtWork(q)
    BY <2>2, <2>3 DEF AtWork
  <2>5. Fewer
    BY <2>2, <2>4, FewerAtWork
  <2> QED
    BY <2>1, <2>5, FewerCounted
<1>6. CASE HostDies
  BY <1>6, HostDiesRuns, HostDiesCounted
<1>7. CASE RunNext /\ UNCHANGED schedVars
  <2>1. CASE \E r \in Root, n \in Nodes : TurnsAgain(r, n)
    BY <1>7, <2>1, TurnsAgainRuns, TurnsAgainCounted
  <2>2. CASE \A r \in Root, n \in Nodes : ~TurnsAgain(r, n)
    <3>1. RunsKnown' /\ Fewer
      BY <1>7, <2>2, RunNextRuns
    <3>2. byHand' = byHand /\ sweep' = sweep
      BY <1>7 DEF schedVars
    <3> QED
      BY <3>1, <3>2, FewerCounted
  <2> QED
    BY <2>1, <2>2
<1>8. CASE \/ SweepBegins \/ NotDue \/ RunReturns \/ SweepWrites
           \/ Tick \/ UNCHANGED vars
  <2>1. /\ UNCHANGED runVars /\ byHand' = byHand
        /\ sweep'.at = "starting" => sweep.at = "starting"
    BY <1>8 DEF SweepBegins, NotDue, RunReturns, SweepWrites, Tick, Written,
                NoSweep, vars, schedVars
  <2> QED
    BY <1>1, <2>1
<1> QED
  BY <1>2, <1>3, <1>4, <1>5, <1>6, <1>7, <1>8 DEF Next, Sweep

----------------------------------------------------------------------------
(* Occurrences                                                             *)

\* What \div is for a positive divisor.
LEMMA DivIsFloor ==
  ASSUME NEW x \in Int, NEW d \in Nat \ {0}
  PROVE  /\ x \div d \in Int
         /\ (x \div d) * d <= x /\ x < (x \div d) * d + d
BY SMT

\* A multiple of the day that is between is between the quotients.
LEMMA MultipleBetween ==
  ASSUME NEW x \in Int, NEW y \in Int, NEW k \in Int, NEW d \in Nat \ {0},
         x < k * d, k * d <= y
  PROVE  x \div d # y \div d
<1> DEFINE a == x \div d
           b == y \div d
<1>1. a \in Int /\ b \in Int /\ a * d <= x /\ y < b * d + d
  BY DivIsFloor
<1> HIDE DEF a, b
<1>2. a * d < k * d /\ k * d < (b + 1) * d
  BY <1>1, SMT
<1>3. a < k
  BY <1>1, <1>2, SMT
<1>4. k < b + 1
  BY <1>1, <1>2, SMT
<1>5. a # b
  BY <1>1, <1>3, <1>4
<1> QED
  BY <1>5 DEF a, b

\* nextDue: a sweep starts no run for the occurrence of an earlier run that the
\* schedule remembers.
LEMMA DueIsAnother ==
  ASSUME NEW p \in Nat, NEW now \in Nat, NEW last \in Int, p <= last,
         kind \in {"daily", "interval"}, now >= NextDue(last, now)
  PROVE  ~SameOccurrence(p, now)
<1>1. Day \in Nat \ {0} /\ Minute \in Nat /\ Minute < Day /\ Every \in Nat \ {0}
  BY ScheduleAssumption
<1>2. last # Never
  BY DEF Never
<1>3. CASE kind = "interval"
  BY <1>1, <1>2, <1>3 DEF NextDue, SameOccurrence
<1>4. CASE kind = "daily"
  <2> DEFINE q == now \div Day
             occurrence == q * Day + Minute
  <2>1. /\ q \in Int /\ q * Day \in Int /\ occurrence \in Int
        /\ q * Day <= now /\ now < q * Day + Day
    BY <1>1, DivIsFloor
  <2>2. now >= IF last >= occurrence THEN occurrence + Day ELSE occurrence
    BY <1>2, <1>4 DEF NextDue, DailyDue, AtOn
  <2> HIDE DEF q
  <2>3. last < occurrence /\ occurrence <= now
    BY <1>1, <2>1, <2>2
  <2>4. (q + 1) * Day = q * Day + Day
    BY <1>1, <2>1, SMT
  <2>5. /\ p + Day - Minute < (q + 1) * Day
        /\ (q + 1) * Day <= now + Day - Minute
    BY <1>1, <2>1, <2>3, <2>4
  <2>6. (p + Day - Minute) \div Day # (now + Day - Minute) \div Day
    BY <1>1, <2>1, <2>5, MultipleBetween
  <2> QED
    BY <1>4, <2>6 DEF SameOccurrence
<1> QED
  BY <1>3, <1>4

----------------------------------------------------------------------------
(* The schedule: the starts of its runs                                    *)

Latest == starts[Len(starts)]

\* The times in the schedule are in the past, and a sweep that is about to
\* start a run found it due.
TimesKnown ==
  /\ clock \in 0..doc.until
  /\ kind \in {"daily", "interval"}
  /\ lastRunAt \in Never..doc.until
  /\ sweep.at \in {"idle", "reading", "starting", "waiting", "writing"}
  /\ sweep.at \in {"reading", "starting"} => sweep.now \in 0..clock
  /\ sweep.at \in {"starting", "waiting", "writing"} =>
       sweep.lastRunAt \in 0..clock
  /\ sweep.at = "starting" => /\ sweep.lastRunAt = sweep.now
                              /\ sweep.now >= NextDue(lastRunAt, sweep.now)

\* No run was started later than the sweep at work.
StartsInOrder ==
  /\ starts \in Seq(0..doc.until)
  /\ starts # <<>> =>
       /\ Latest <= clock
       /\ sweep.at \in {"reading", "starting"} => Latest <= sweep.now
       /\ sweep.at \in {"starting", "waiting", "writing"} =>
            Latest <= sweep.lastRunAt

\* The latest start is in the schedule, or the sweep has it yet to write.
Recorded == \/ Latest <= lastRunAt
            \/ sweep.at \in {"waiting", "writing"}

Repeats == {i \in 2..Len(starts) : SameOccurrence(starts[i - 1], starts[i])}

Forgotten == IF starts # <<>> /\ ~Recorded THEN 1 ELSE 0

\* A start that was forgotten may be repeated once, and only a death of the
\* host or a failed write forgets one.
StartsCounted ==
  /\ writeFails \in Nat
  /\ IsFiniteSet(Repeats)
  /\ Cardinality(Repeats) + Forgotten <= crashes + writeFails

SInv == TimesKnown /\ StartsInOrder /\ StartsCounted

\* Every document bounds the clock by a number.
LEMMA UntilIsNat == RunTypes => doc.until \in Nat
BY ScheduleAssumption DEF RunTypes

\* A schedule that was just set, or one with a run behind it.
LEMMA InitSInv == Init => SInv
<1> SUFFICES ASSUME Init PROVE SInv
  OBVIOUS
<1>1. doc.until \in Nat
  BY InitIInv, UntilIsNat DEF IInv
<1>2. TimesKnown
  BY <1>1 DEF Init, TimesKnown, NoSweep, Never
<1>3. starts = <<>>
  BY DEF Init
<1>4. StartsInOrder
  BY <1>3 DEF StartsInOrder
<1>5. Repeats = {}
  BY <1>3 DEF Repeats
<1>6. StartsCounted
  BY <1>3, <1>5, FS_EmptySet DEF StartsCounted, Forgotten, Init, RunInit
<1> QED
  BY <1>2, <1>4, <1>6 DEF SInv

\* Steps of the sweep that start no run and write nothing, and steps of runs.
LEMMA NoStartSInv ==
  ASSUME IInv, SInv,
         UNCHANGED <<doc, kind, lastRunAt, starts, writeFails, crashes>>,
         TimesKnown',
         starts # <<>> =>
           /\ Latest <= clock'
           /\ sweep'.at \in {"reading", "starting"} => Latest <= sweep'.now
           /\ sweep'.at \in {"starting", "waiting", "writing"} =>
                Latest <= sweep'.lastRunAt,
         sweep.at \in {"waiting", "writing"} =>
           sweep'.at \in {"waiting", "writing"}
  PROVE  SInv'
<1>1. StartsInOrder'
  BY DEF SInv, StartsInOrder, Latest
<1>2. Repeats' = Repeats
  BY DEF Repeats, SameOccurrence
<1>3. Forgotten' <= Forgotten /\ Forgotten \in Nat /\ Forgotten' \in Nat
  BY DEF Forgotten, Recorded, Latest
<1>4. Cardinality(Repeats) \in Nat /\ writeFails \in Nat /\ crashes \in Nat
  BY FS_CardinalityType DEF SInv, StartsCounted, IInv, RunTypes
<1>5. StartsCounted'
  BY <1>2, <1>3, <1>4 DEF SInv, StartsCounted
<1> QED
  BY <1>1, <1>5 DEF SInv

\* What the times are made of, in one place.
LEMMA TimesAreInt ==
  ASSUME IInv, SInv
  PROVE  /\ doc.until \in Nat /\ clock \in Nat /\ clock <= doc.until
         /\ crashes \in Nat /\ writeFails \in Nat
         /\ Cardinality(Repeats) \in Nat
         /\ Cardinality(Repeats) + Forgotten <= crashes + writeFails
         /\ Len(starts) \in Nat /\ \A i \in 1..Len(starts) : starts[i] \in Nat
         /\ starts # <<>> => Latest \in Nat /\ Latest <= clock
<1>1. doc.until \in Nat
  BY UntilIsNat DEF IInv
<1>2. clock \in Nat /\ clock <= doc.until
  BY <1>1 DEF SInv, TimesKnown
<1>3. crashes \in Nat /\ writeFails \in Nat /\ Cardinality(Repeats) \in Nat
  BY FS_CardinalityType DEF SInv, StartsCounted, IInv, RunTypes
<1>4. starts \in Seq(0..doc.until)
  BY DEF SInv, StartsInOrder
<1>5. Len(starts) \in Nat /\ \A i \in 1..Len(starts) : starts[i] \in Nat
  BY <1>1, <1>4
<1>6. starts # <<>> => Latest \in Nat
  <2>1. starts # <<>> => Len(starts) \in 1..Len(starts)
    BY <1>4, <1>5, EmptySeq
  <2> QED
    BY <1>5, <2>1 DEF Latest
<1>7. starts # <<>> => Latest <= clock
  BY DEF SInv, StartsInOrder
<1>8. Cardinality(Repeats) + Forgotten <= crashes + writeFails
  BY DEF SInv, StartsCounted
<1> QED
  BY <1>1, <1>2, <1>3, <1>5, <1>6, <1>7, <1>8

\* A sweep begins, at a time no start is later than.
LEMMA SweepBeginsSInv ==
  ASSUME IInv, SInv, SweepBegins
  PROVE  SInv'
<1>1. /\ UNCHANGED <<doc, clock, kind, lastRunAt, starts, writeFails, crashes>>
      /\ sweep.at = "idle"
      /\ sweep'.at = "reading" /\ sweep'.now = clock
  BY DEF SweepBegins, runVars
<1>2. TimesKnown'
  BY <1>1, TimesAreInt DEF SInv, TimesKnown
<1> QED
  BY <1>1, <1>2, TimesAreInt, NoStartSInv

\* The sweep finds the schedule due, which is all it needs to know later.
LEMMA DueSInv ==
  ASSUME IInv, SInv, Due
  PROVE  SInv'
<1>1. /\ UNCHANGED <<doc, clock, kind, lastRunAt, starts, writeFails, crashes>>
      /\ sweep.at = "reading"
      /\ sweep'.at = "starting"
      /\ sweep'.now = sweep.now /\ sweep'.lastRunAt = sweep.now
      /\ sweep.now >= NextDue(lastRunAt, sweep.now)
  BY DEF Due, DueNow, runVars
<1>2. sweep'.now >= NextDue(lastRunAt, sweep.now)'
  BY <1>1 DEF NextDue
<1>3. TimesKnown'
  BY <1>1, <1>2 DEF SInv, TimesKnown
<1>4. starts # <<>> => Latest <= sweep.now
  BY <1>1 DEF SInv, StartsInOrder
<1> QED
  BY <1>1, <1>3, <1>4, TimesAreInt, NoStartSInv

\* A run starts: for an occurrence of its own, if the schedule remembers the
\* run before.
LEMMA RunStartsSInv ==
  ASSUME IInv, SInv, RunStarts
  PROVE  SInv'
<1> DEFINE n == Len(starts)
           now == sweep.now
<1>1. /\ UNCHANGED <<doc, clock, kind, lastRunAt, writeFails, crashes>>
      /\ sweep.at = "starting"
      /\ sweep'.at = "waiting" /\ sweep'.lastRunAt = sweep.lastRunAt
      /\ starts' = Append(starts, now)
  BY DEF RunStarts, Start
<1>2. /\ now \in Nat /\ now <= clock /\ sweep.lastRunAt = now
      /\ now >= NextDue(lastRunAt, now)
      /\ lastRunAt \in Int
      /\ kind \in {"daily", "interval"}
  BY <1>1, TimesAreInt DEF SInv, TimesKnown, Never
<1> HIDE DEF now
<1>3. TimesKnown'
  BY <1>1 DEF SInv, TimesKnown
<1>4. /\ starts' \in Seq(0..doc.until)
      /\ starts' # <<>> /\ Latest' = now
      /\ n \in Nat /\ Len(starts') = n + 1
      /\ \A i \in 1..n : starts'[i] = starts[i]
      /\ starts'[n + 1] = now
  <2>1. starts \in Seq(0..doc.until) /\ now \in 0..doc.until
    BY <1>2, TimesAreInt DEF SInv, StartsInOrder
  <2>2. /\ starts' \in Seq(0..doc.until)
        /\ starts' # <<>>
        /\ n \in Nat /\ Len(starts') = n + 1
        /\ \A i \in 1..n : starts'[i] = starts[i]
        /\ starts'[n + 1] = now
    BY <1>1, <2>1, AppendProperties
  <2> QED
    BY <2>2 DEF Latest
<1>5. StartsInOrder'
  BY <1>1, <1>2, <1>4 DEF StartsInOrder
<1>6. Forgotten' = 0
  BY <1>1 DEF Forgotten, Recorded
<1>7. CASE starts # <<>> /\ ~Recorded
  <2>1. Repeats' \subseteq Repeats \cup {n + 1}
    BY <1>1, <1>4 DEF Repeats, SameOccurrence
  <2>2. /\ IsFiniteSet(Repeats \cup {n + 1})
        /\ Cardinality(Repeats \cup {n + 1}) <= Cardinality(Repeats) + 1
        /\ Cardinality(Repeats \cup {n + 1}) \in Nat
    <3>1. IsFiniteSet(Repeats)
      BY DEF SInv, StartsCounted
    <3>2. /\ IsFiniteSet(Repeats \cup {n + 1})
          /\ Cardinality(Repeats \cup {n + 1}) =
               IF n + 1 \in Repeats THEN Cardinality(Repeats)
               ELSE Cardinality(Repeats) + 1
      BY <3>1, FS_AddElement
    <3> QED
      BY <3>2, TimesAreInt
  <2>3. /\ IsFiniteSet(Repeats')
        /\ Cardinality(Repeats') <= Cardinality(Repeats \cup {n + 1})
    BY <2>1, <2>2, FS_Subset
  <2>4. Cardinality(Repeats') \in Nat
    BY <2>3, FS_CardinalityType
  <2>5. Forgotten = 1
    BY <1>7 DEF Forgotten
  <2>6. Cardinality(Repeats') + Forgotten' <= crashes' + writeFails'
    BY <1>1, <1>6, <2>2, <2>3, <2>4, <2>5, TimesAreInt
  <2>7. StartsCounted'
    BY <1>1, <2>3, <2>6, TimesAreInt DEF StartsCounted
  <2> QED
    BY <1>3, <1>5, <2>7 DEF SInv
<1>8. CASE starts = <<>> \/ Recorded
  <2>1. n + 1 \in 2..Len(starts') => ~SameOccurrence(starts'[n], now)
    <3> SUFFICES ASSUME n + 1 >= 2 PROVE ~SameOccurrence(starts'[n], now)
      BY <1>4
    <3>1. starts # <<>> /\ starts'[n] = Latest /\ Latest \in Nat
      <4>1. n \in 1..n /\ n # 0
        BY <1>4
      <4>2. starts # <<>>
        BY <4>1, EmptySeq
      <4> QED
        BY <1>4, <4>1, <4>2, TimesAreInt DEF Latest
    <3>2. Latest <= lastRunAt
      BY <1>1, <1>8, <3>1 DEF Recorded
    <3> QED
      BY <1>2, <3>1, <3>2, DueIsAnother
  <2>2. Repeats' = Repeats
    <3>1. \A i \in 2..n : /\ starts'[i - 1] = starts[i - 1]
                          /\ starts'[i] = starts[i]
      BY <1>4
    <3>2. \A i \in 2..(n + 1) : i \in 2..n \/ i = n + 1
      BY <1>4
    <3>3. n + 1 - 1 = n
      BY <1>4
    <3>4. kind' = kind
      BY <1>1
    <3>5. 2..Len(starts') = 2..(n + 1) /\ 2..n \subseteq 2..(n + 1)
      BY <1>4
    <3> QED
      BY <1>4, <2>1, <3>1, <3>2, <3>3, <3>4, <3>5 DEF Repeats, SameOccurrence
  <2>3. Forgotten = 0
    BY <1>8 DEF Forgotten
  <2>4. StartsCounted'
    BY <1>1, <1>6, <2>2, <2>3, TimesAreInt DEF SInv, StartsCounted
  <2> QED
    BY <1>3, <1>5, <2>4 DEF SInv
<1> QED
  BY <1>7, <1>8

\* The run would not start, or its first advance settled: the sweep has the
\* schedule to write.
LEMMA ToWriteSInv ==
  ASSUME IInv, SInv, RunWouldNotStart \/ RunReturns
  PROVE  SInv'
<1>1. /\ UNCHANGED <<doc, clock, kind, lastRunAt, starts, writeFails, crashes>>
      /\ sweep.at \in {"starting", "waiting"}
      /\ sweep'.at = "writing" /\ sweep'.lastRunAt = sweep.lastRunAt
  BY DEF RunWouldNotStart, RunReturns, Written, runVars
<1>2. TimesKnown'
  BY <1>1 DEF SInv, TimesKnown
<1>3. starts # <<>> => Latest <= sweep.lastRunAt
  BY <1>1 DEF SInv, StartsInOrder
<1> QED
  BY <1>1, <1>2, <1>3, TimesAreInt, NoStartSInv

\* The schedule is written, and remembers the latest start; or it fails to be.
LEMMA SweepWritesSInv ==
  ASSUME IInv, SInv, SweepWrites
  PROVE  SInv'
<1>1. /\ UNCHANGED <<doc, clock, kind, starts, crashes>>
      /\ sweep.at = "writing" /\ sweep'.at = "idle"
      /\ \/ lastRunAt' = sweep.lastRunAt /\ writeFails' = writeFails
         \/ lastRunAt' = lastRunAt /\ writeFails' = writeFails + 1
  BY DEF SweepWrites, NoSweep, runVars
<1>2. sweep.lastRunAt \in 0..clock /\ lastRunAt \in Never..doc.until
  BY <1>1 DEF SInv, TimesKnown
<1>3. TimesKnown'
  BY <1>1, <1>2, TimesAreInt DEF SInv, TimesKnown, Never
<1>4. StartsInOrder' /\ Latest' = Latest
  BY <1>1 DEF SInv, StartsInOrder, Latest
<1>5. Repeats' = Repeats
  BY <1>1 DEF Repeats, SameOccurrence
<1>6. Forgotten = 0
  BY <1>1 DEF Forgotten, Recorded
<1>7. StartsCounted'
  <2>1. CASE lastRunAt' = sweep.lastRunAt /\ writeFails' = writeFails
    <3>1. starts # <<>> => Latest <= sweep.lastRunAt
      BY <1>1 DEF SInv, StartsInOrder
    <3>2. Forgotten' = 0
      BY <1>1, <1>4, <2>1, <3>1 DEF Forgotten, Recorded
    <3> QED
      BY <1>1, <1>5, <1>6, <2>1, <3>2 DEF SInv, StartsCounted
  <2>2. CASE lastRunAt' = lastRunAt /\ writeFails' = writeFails + 1
    <3>1. Forgotten' \in {0, 1}
      BY DEF Forgotten
    <3>2. Cardinality(Repeats') = Cardinality(Repeats)
      BY <1>5
    <3>3. /\ Cardinality(Repeats) \in Nat /\ crashes \in Nat /\ writeFails \in Nat
          /\ Cardinality(Repeats) + Forgotten <= crashes + writeFails
      BY TimesAreInt
    <3>4. Cardinality(Repeats') + Forgotten' <= crashes' + writeFails'
      BY <1>1, <1>6, <2>2, <3>1, <3>2, <3>3
    <3> QED
      BY <1>5, <2>2, <3>3, <3>4 DEF SInv, StartsCounted
  <2> QED
    BY <1>1, <2>1, <2>2
<1> QED
  BY <1>3, <1>4, <1>7 DEF SInv

\* Time only passes, and what is due does not depend on it.
LEMMA TickSInv ==
  ASSUME IInv, SInv, Tick
  PROVE  SInv'
<1>1. /\ UNCHANGED <<doc, kind, lastRunAt, sweep, starts, writeFails, crashes>>
      /\ clock' = clock + 1 /\ clock < doc.until
  BY DEF Tick, runVars
<1>2. NextDue(lastRunAt, sweep.now)' = NextDue(lastRunAt, sweep.now)
  BY <1>1 DEF NextDue
<1>3. TimesKnown'
  BY <1>1, <1>2, TimesAreInt DEF SInv, TimesKnown
<1>4. starts # <<>> => Latest <= clock'
  BY <1>1, TimesAreInt
<1> QED
  BY <1>1, <1>3, <1>4, NoStartSInv DEF SInv, StartsInOrder

\* The host dies, and a start that was yet to be written is forgotten.
LEMMA HostDiesSInv ==
  ASSUME IInv, SInv, HostDies
  PROVE  SInv'
<1>1. /\ UNCHANGED <<doc, clock, kind, lastRunAt, starts, writeFails>>
      /\ crashes' = crashes + 1
      /\ sweep'.at = "idle"
  BY DEF HostDies, RunsDie, NoSweep
<1>2. TimesKnown'
  BY <1>1 DEF SInv, TimesKnown
<1>3. StartsInOrder'
  BY <1>1 DEF SInv, StartsInOrder, Latest
<1>4. Repeats' = Repeats
  BY <1>1 DEF Repeats, SameOccurrence
<1>5. Forgotten \in {0, 1} /\ Forgotten' \in {0, 1}
  BY DEF Forgotten
<1>6. Cardinality(Repeats') + Forgotten' <= crashes' + writeFails'
  <2>1. Cardinality(Repeats') = Cardinality(Repeats)
    BY <1>4
  <2>2. /\ Cardinality(Repeats) \in Nat /\ crashes \in Nat /\ writeFails \in Nat
        /\ Cardinality(Repeats) + Forgotten <= crashes + writeFails
    BY TimesAreInt
  <2> QED
    BY <1>1, <1>5, <2>1, <2>2
<1>7. StartsCounted'
  BY <1>1, <1>4, <1>6 DEF SInv, StartsCounted
<1> QED
  BY <1>2, <1>3, <1>7 DEF SInv

\* A sweep finds nothing due, or a step is none of the schedule's: of a run, or of
\* a person who starts one.
Elsewhere == \/ NotDue \/ RunByHand
             \/ (RunNext /\ UNCHANGED schedVars) \/ UNCHANGED vars

\* Such a step leaves the schedule as it was.
LEMMA ElsewhereSInv ==
  ASSUME IInv, SInv, Elsewhere
  PROVE  SInv'
<1>1. UNCHANGED <<doc, clock, kind, lastRunAt, starts, writeFails, crashes>>
  BY DEF Elsewhere, NotDue, RunNext, Advance, NothingToSpawn, BeginStep,
         CreateChild, RecordChild, Refused, Resume, Settles, TurnsAgain, Becomes,
         Stirs, RunByHand, Start, schedVars, vars, runVars
<1>2. CASE NotDue
  <2>1. sweep.at = "reading" /\ sweep'.at = "idle"
    BY <1>2 DEF NotDue, NoSweep
  <2>2. TimesKnown'
    BY <1>1, <2>1 DEF SInv, TimesKnown
  <2> QED
    BY <1>1, <2>1, <2>2, TimesAreInt, NoStartSInv
<1>3. CASE UNCHANGED schedVars \/ RunByHand
  <2>1. sweep' = sweep
    BY <1>3 DEF schedVars, RunByHand
  <2>2. NextDue(lastRunAt, sweep.now)' = NextDue(lastRunAt, sweep.now)
    BY <1>1, <2>1 DEF NextDue
  <2>3. TimesKnown'
    BY <1>1, <2>1, <2>2 DEF SInv, TimesKnown
  <2> QED
    BY <1>1, <2>1, <2>3, NoStartSInv DEF SInv, StartsInOrder
<1> QED
  BY <1>2, <1>3 DEF Elsewhere, vars

\* Every step of the system.
LEMMA NextSInv == IInv /\ SInv /\ [Next]_vars => SInv'
<1> SUFFICES ASSUME IInv, SInv, [Next]_vars PROVE SInv'
  OBVIOUS
<1>1. CASE NotDue \/ RunByHand
  BY <1>1, ElsewhereSInv DEF Elsewhere
<1>2. CASE RunNext /\ UNCHANGED schedVars
  BY <1>2, ElsewhereSInv DEF Elsewhere
<1>3. CASE UNCHANGED vars
  BY <1>3, ElsewhereSInv DEF Elsewhere
<1>4. CASE SweepBegins
  BY <1>4, SweepBeginsSInv
<1>5. CASE Due
  BY <1>5, DueSInv
<1>6. CASE RunStarts
  BY <1>6, RunStartsSInv
<1>7. CASE RunWouldNotStart \/ RunReturns
  BY <1>7, ToWriteSInv
<1>8. CASE SweepWrites
  BY <1>8, SweepWritesSInv
<1>9. CASE Tick
  BY <1>9, TickSInv
<1>10. CASE HostDies
  BY <1>10, HostDiesSInv
<1> QED
  BY <1>1, <1>2, <1>3, <1>4, <1>5, <1>6, <1>7, <1>8, <1>9, <1>10 DEF Next, Sweep

----------------------------------------------------------------------------
(* What holds of every behaviour                                           *)

\* No run is known, or counted, in the beginning.
LEMMA InitRuns == Init => RunsKnown /\ RunsCounted /\ NoneIsForgotten
<1> SUFFICES ASSUME Init PROVE RunsKnown /\ RunsCounted /\ NoneIsForgotten
  OBVIOUS
<1>1. doc \in Documents /\ doc.runs \in Nat
  BY WorkflowAssumption DEF Init, RunInit
<1>2. RunsKnown
  BY <1>1, FS_EmptySet DEF Init, RunInit, RunsKnown, NoStep
<1>3. Unfinished = {} /\ Unfinished \ live = {}
  BY DEF Unfinished, Init, RunInit
<1>4. RunsCounted
  BY <1>3, FS_EmptySet DEF RunsCounted, Init, RunInit, NoSweep
<1>5. NoneIsForgotten
  BY DEF NoneIsForgotten, Init, RunInit
<1> QED
  BY <1>2, <1>4, <1>5

\* live.delete, resume and rollUp: a run of this host that is not in `live` is
\* over, unless a child of it was set going again after it left; and the runs
\* that are under way without being in `live` are no more than the deaths of the
\* host, the children set going again and the runs that a person started.  The
\* counts of runs and of starts hold of every behaviour, next to the invariant of
\* runs.
THEOREM CountsHold ==
  SafeSpec => [](RunsKnown /\ RunsCounted /\ NoneIsForgotten /\ SInv)
<1>1. Init => IInv /\ RunsKnown /\ RunsCounted /\ NoneIsForgotten /\ SInv
  BY InitIInv, InitRuns, InitSInv
<1>2. (IInv /\ RunsKnown /\ RunsCounted /\ NoneIsForgotten /\ SInv) /\ [Next]_vars
        => (IInv /\ RunsKnown /\ RunsCounted /\ NoneIsForgotten /\ SInv)'
  BY NextIInv, RunsIInv, NextSInv
<1> QED
  BY <1>1, <1>2, PTL DEF SafeSpec

\* workflow.run: no step changes the document, and a person starts no more runs
\* than the bound allows.
LEMMA ByHandStays ==
  ASSUME IInv, byHand \in 0..doc.byHand, [Next]_vars
  PROVE  (byHand \in 0..doc.byHand)'
<1>1. doc.byHand \in Nat
  BY ScheduleAssumption DEF IInv, RunTypes
<1>2. CASE RunNext /\ UNCHANGED schedVars
  <2>1. doc' = doc
    BY <1>2 DEF RunNext, Advance, BeginStep, NothingToSpawn, CreateChild, Refused,
                RecordChild, Resume, Settles, TurnsAgain, Stirs, Becomes
  <2> QED
    BY <1>2, <2>1 DEF schedVars
<1>3. CASE RunStarts \/ RunByHand
  BY <1>1, <1>3 DEF RunStarts, RunByHand, Start
<1>4. CASE RunWouldNotStart \/ HostDies
  BY <1>4 DEF RunWouldNotStart, HostDies, RunsDie
<1>5. CASE \/ SweepBegins \/ NotDue \/ Due \/ RunReturns \/ SweepWrites
           \/ Tick \/ UNCHANGED vars
  BY <1>5 DEF SweepBegins, NotDue, Due, RunReturns, SweepWrites, Tick, vars,
              schedVars, runVars
<1> QED
  BY <1>2, <1>3, <1>4, <1>5 DEF Next, Sweep

\* Every variable of a schedule and of its runs keeps to its values: an advance
\* is always one that was asked for, of a run that was started.
THEOREM TypeCorrect == SafeSpec => []TypeOK
<1>1. IInv /\ RunsKnown /\ SInv /\ byHand \in 0..doc.byHand => TypeOK
  <2> SUFFICES ASSUME IInv, RunsKnown, SInv, byHand \in 0..doc.byHand PROVE TypeOK
    OBVIOUS
  <2>1. Nodes \subseteq Node
    BY NodesOfDocument DEF IInv
  <2>2. RunTypeOK
    BY <2>1 DEF RunTypeOK, IInv, RunTypes, StepIsFresh, RunsKnown
  <2> QED
    BY <2>2 DEF TypeOK, SInv, TimesKnown, StartsInOrder
<1>2. Init => byHand \in 0..doc.byHand
  BY ScheduleAssumption DEF Init, RunInit
<1>3. IInv /\ byHand \in 0..doc.byHand /\ [Next]_vars => (byHand \in 0..doc.byHand)'
  BY ByHandStays
<1> QED
  BY <1>1, <1>2, <1>3, CountsHold, InvariantHolds, PTL DEF SafeSpec

\* dueNow and `live`: a host that has not died drives one run besides those that
\* a person started; and whatever happens, one is under way, and one more for each
\* of those, each death of the host and each child set going again.
THEOREM RunsDoNotPile == SafeSpec => []OneRunAtATime
<1>1. IInv /\ RunsKnown /\ RunsCounted => OneRunAtATime
  <2> SUFFICES ASSUME IInv, RunsKnown, RunsCounted
               PROVE  Cardinality({r \in live : ~Finished(r)})
                        <= 1 + byHand + crashes + reopened
    BY DEF OneRunAtATime, RunsCounted
  <2>1. {r \in live : ~Finished(r)} \subseteq Unfinished
    BY DEF Unfinished, AtWork, RunsKnown
  <2>2. /\ Cardinality({r \in live : ~Finished(r)}) <= Cardinality(Unfinished)
        /\ Cardinality({r \in live : ~Finished(r)}) \in Nat
    BY <2>1, UnfinishedIsFinite, CountedOnce
  <2> QED
    BY <2>2, CountsAreNat DEF RunsCounted
<1> QED
  BY <1>1, CountsHold, InvariantHolds, PTL

\* nextDue, dueNow and the order of a sweep: an occurrence of the schedule
\* starts one run, and one more for each start that was never written.
THEOREM OccurrencesRunOnce == SafeSpec => []OccurrenceStartsOnce
<1>1. IInv /\ SInv => OccurrenceStartsOnce
  <2> SUFFICES ASSUME IInv, SInv
               PROVE  Cardinality(Repeats) <= crashes + writeFails
    BY DEF OccurrenceStartsOnce, Repeats
  <2>1. Forgotten \in {0, 1}
    BY DEF Forgotten
  <2> QED
    BY <2>1, TimesAreInt
<1> QED
  BY <1>1, CountsHold, InvariantHolds, PTL
=============================================================================
