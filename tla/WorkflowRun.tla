---------------------------- MODULE WorkflowRun ----------------------------
(***************************************************************************)
(* main/workflowRun.ts with shared/workflow/schedule.ts: runs of a         *)
(* workflow document.  A run has a root session; each node of the document *)
(* becomes a child session of it once every node it needs is done.         *)
(*                                                                         *)
(* The runner keeps no progress: each advance reads the states of the      *)
(* root's children, spawns what is ready, one node after another, and      *)
(* forgets the run when nothing is left.  Advances of one run queue behind *)
(* each other, and a child that settles asks for one (rollUp).             *)
(***************************************************************************)
EXTENDS Naturals, FiniteSets

CONSTANTS Root,      \* the root sessions that runs may have
          Node,      \* the nodes that documents have
          Documents  \* documents: [needs, runs, byHand, until, upsets], the nodes
                     \* that each node of it needs, and bounds on its runs, on
                     \* those that a person starts, on the clock, and on upsets:
                     \* spawns that are refused, deaths of the host, and
                     \* children that end and then do not stay so

ASSUME WorkflowAssumption ==
  \A d \in Documents : /\ DOMAIN d.needs \subseteq Node
                       /\ \A n \in DOMAIN d.needs :
                            d.needs[n] \subseteq DOMAIN d.needs
                       /\ d.runs \in Nat /\ d.upsets \in Nat
                       /\ IsFiniteSet(Root) => d.runs <= Cardinality(Root)

VARIABLES
  doc,      \* the document that is run
  rooted,   \* roots whose session exists
  open,     \* roots whose session is loaded in this host
  live,     \* WorkflowRuns.live
  chained,  \* advances of each run that have not finished
  step,     \* where the advance at work is: [at, todo, node]
  over,     \* roots whose first advance has settled
  made,     \* child sessions created for each node of each run
  state,    \* what nodeStates finds: of the child last recorded
  again,    \* history: children that did not stay as the advance at work found
            \* them
  forgotten, \* history: runs that left `live` and moved after that
  refusals, crashes, reopened

runVars == <<doc, rooted, open, live, chained, step, over, made, state, again,
             forgotten, refusals, crashes, reopened>>

NodeState == {"unstarted", "running", "done", "failed"}
NoStep == [at |-> "idle", todo |-> {}]

RunInit == /\ doc \in Documents
           /\ rooted = {} /\ open = {} /\ live = {} /\ over = {}
           /\ chained = [r \in Root |-> 0]
           /\ step = [r \in Root |-> NoStep]
           /\ made = [r \in Root |-> [n \in Node |-> 0]]
           /\ state = [r \in Root |-> [n \in Node |-> "unstarted"]]
           /\ again = [r \in Root |-> {}] /\ forgotten = {}
           /\ refusals = 0 /\ crashes = 0 /\ reopened = 0

----------------------------------------------------------------------------
(* nextStep                                                                *)

Nodes == DOMAIN doc.needs
Needs(n) == doc.needs[n]

\* What strandedBy walks: everything a node needs, directly or not.
Above(n) == LET up[m \in Nodes] == Needs(m) \cup UNION {up[k] : k \in Needs(m)}
            IN  up[n]

Stranded(r, n) == \E m \in Above(n) : state[r][m] = "failed"

\* Mutant: one finished need is enough.
NeedsMet(r, n) == Needs(n) = {} \/ \E m \in Needs(n) : state[r][m] = "done"

NeedsDone(r, n) == \A m \in Needs(n) : state[r][m] = "done"

Ready(r) == {n \in Nodes : /\ state[r][n] = "unstarted"
                           /\ ~Stranded(r, n)
                           /\ NeedsDone(r, n)}

Running(r) == {n \in Nodes : state[r][n] = "running"}

\* `finished`
Finished(r) == Running(r) = {} /\ Ready(r) = {}

----------------------------------------------------------------------------
(* advance and spawnReady                                                  *)

\* The bound on runs.
NoMoreRuns == Cardinality(rooted) = doc.runs

\* Mutant: the run is known before its session is in the table.
NotLoaded(r) == open

\* this.sessions with the root.
Loaded(r) == open \cup {r}

\* start: the run is known, and its first advance is under way.
Start(r) ==
  /\ r \notin rooted
  /\ rooted' = rooted \cup {r}
  /\ open' = Loaded(r)
  /\ live' = live \cup {r}
  /\ chained' = [chained EXCEPT ![r] = 1]
  /\ UNCHANGED <<doc, step, over, made, state, again, forgotten, refusals,
                 crashes, reopened>>

\* Mutant: an advance does not wait for the one before it.
AnyTime(r) == TRUE

\* The `advancing` chain: the advance before this one has settled.
MyTurn(r) == step[r].at = "idle"

StepOver(r) == /\ step' = [step EXCEPT ![r] = NoStep]
               /\ again' = [again EXCEPT ![r] = {}]
               /\ chained' = [chained EXCEPT ![r] = @ - 1]
               /\ over' = over \cup {r}

\* An advance with nothing to spawn: it may be the one that ends the run.
NothingToSpawn(r) ==
  /\ MyTurn(r)
  /\ chained[r] > 0
  /\ r \in live => Ready(r) = {}
  /\ live' = IF Finished(r) THEN live \ {r} ELSE live
  /\ StepOver(r)
  /\ UNCHANGED <<doc, rooted, open, made, state, forgotten, refusals, crashes,
                 reopened>>

\* What is ready is computed once, for the whole advance.
BeginStep(r) ==
  /\ MyTurn(r)
  /\ chained[r] > 0
  /\ r \in live /\ Ready(r) # {}
  /\ step' = [step EXCEPT ![r] = [at |-> "spawning", todo |-> Ready(r)]]
  /\ UNCHANGED <<doc, rooted, open, live, chained, over, made, state, again,
                 forgotten, refusals, crashes, reopened>>

\* prepareChild and createSession of the next ready node: its session exists.
CreateChild(r) ==
  /\ step[r].at = "spawning"
  /\ \E n \in step[r].todo :
       /\ step' = [step EXCEPT ![r] =
                     [at |-> "created", todo |-> step[r].todo, node |-> n]]
       /\ made' = [made EXCEPT ![r][n] = @ + 1]
  /\ UNCHANGED <<doc, rooted, open, live, chained, over, state, again, forgotten,
                 refusals, crashes, reopened>>

MayGoWrong == refusals + crashes + reopened < doc.upsets

\* Either of them throws (no budget is left for the node): the advance rejects.
Refused(r) ==
  /\ step[r].at = "spawning"
  /\ MayGoWrong
  /\ refusals' = refusals + 1
  /\ StepOver(r)
  /\ UNCHANGED <<doc, rooted, open, live, made, state, forgotten, crashes,
                 reopened>>

\* recordChild: the root lists the child.
RecordChild(r) ==
  /\ step[r].at = "created"
  /\ state' = [state EXCEPT ![r][step[r].node] = "running"]
  /\ LET left == step[r].todo \ {step[r].node}
     IN  IF left = {} THEN StepOver(r)
         ELSE /\ step' = [step EXCEPT ![r] =
                            [at |-> "spawning", todo |-> left]]
              /\ UNCHANGED <<chained, over, again>>
  /\ UNCHANGED <<doc, rooted, open, live, made, forgotten, refusals, crashes,
                 reopened>>

----------------------------------------------------------------------------
(* The children, and the host                                              *)

\* Mutant: a child that settles during an advance asks for none.
ChainedIfIdle(r) == IF step[r].at = "idle" THEN chained[r] + 1 ELSE chained[r]

\* rollUp asks for one more advance of a known run.
ChainedOnce(r) == chained[r] + 1

\* setState of a child: nodeStates finds it at once, and rollUp tells its run.
Becomes(r, n, s) ==
  /\ state' = [state EXCEPT ![r][n] = s]
  /\ chained' = [chained EXCEPT ![r] = IF r \in live THEN ChainedOnce(r) ELSE @]
  /\ UNCHANGED <<doc, rooted, open, live, step, over, made, refusals, crashes>>

\* A child comes to its end, in this host or elsewhere.
Settles(r, n) ==
  /\ n \in Running(r)
  /\ \E s \in {"done", "failed"} : Becomes(r, n, s)
  /\ UNCHANGED <<again, forgotten, reopened>>

\* No end is for good: send and runTurn take a turn for a session in any state,
\* and a turn that is still running when its child reports a result ends in a
\* state of its own (setState has no guard).  What the advance at work had
\* found, or what the run had when it left `live`, is so no more.
TurnsAgain(r, n) ==
  /\ state[r][n] \in {"done", "failed"}
  /\ MayGoWrong
  /\ \E s \in NodeState \ {"unstarted", state[r][n]} : Becomes(r, n, s)
  /\ again' = [again EXCEPT ![r] = IF step[r].at = "idle" THEN {}
                                 ELSE @ \cup {n}]
  /\ forgotten' = IF r \in open \ live THEN forgotten \cup {r} ELSE forgotten
  /\ reopened' = reopened + 1

\* A child at work asks for an answer, is stalled, or goes on: rollUp tells the
\* run of these too.  The bound on them: none while an advance is asked for.
Stirs(r, n) ==
  /\ n \in Running(r)
  /\ r \in live /\ chained[r] = 0
  /\ chained' = [chained EXCEPT ![r] = ChainedOnce(r)]
  /\ UNCHANGED <<doc, rooted, open, live, step, over, made, state, again,
                 forgotten, refusals, crashes, reopened>>

\* The host dies: what is left is what the logs say.
RunsDie == /\ MayGoWrong
           /\ crashes' = crashes + 1
           /\ open' = {} /\ live' = {} /\ forgotten' = {}
           /\ step' = [r \in Root |-> NoStep]
           /\ again' = [r \in Root |-> {}]
           /\ chained' = [r \in Root |-> 0]
           /\ UNCHANGED <<doc, rooted, over, made, state, refusals, reopened>>

\* resume, from resumeSession of the root: its children are loaded with their
\* own states, and the run starts as it did at first.
Resume(r) ==
  /\ r \in rooted \ open
  /\ open' = Loaded(r)
  /\ live' = live \cup {r}
  /\ chained' = [chained EXCEPT ![r] = 1]
  /\ UNCHANGED <<doc, rooted, step, over, made, state, again, forgotten, refusals,
                 crashes, reopened>>

----------------------------------------------------------------------------
Advance(r) == \/ NothingToSpawn(r) \/ BeginStep(r)
              \/ CreateChild(r) \/ RecordChild(r)

RunNext == \E r \in Root : \/ Advance(r) \/ Refused(r) \/ Resume(r)
                           \/ \E n \in Nodes : \/ Settles(r, n)
                                               \/ TurnsAgain(r, n)
                                               \/ Stirs(r, n)

\* Every await of an advance returns.
RunFairness == \A r \in Root : WF_runVars(Advance(r))

----------------------------------------------------------------------------
\* The values of each variable; in particular a known run is a loaded session,
\* and a loaded session one that was created.
RunTypeOK ==
  /\ rooted \subseteq Root /\ open \subseteq rooted /\ live \subseteq open
  /\ over \subseteq rooted /\ forgotten \subseteq open \ live
  /\ chained \in [Root -> Nat]
  /\ \A r \in Root : step[r].at \in {"idle", "spawning", "created"}
                     /\ step[r].todo \subseteq Node
                     /\ again[r] \subseteq Node
  /\ made \in [Root -> [Node -> Nat]]
  /\ state \in [Root -> [Node -> NodeState]]

\* spawnReady and `advancing`: a node gets one session, however often and
\* whenever advances are asked for.  Only a host that died between creating a
\* child and recording it makes another.
NodeStartedOnce ==
  \A r \in Root, n \in Node : made[r][n] <= 1 + crashes

\* A session that is made for n finds that everything n needs is done, or was
\* when its advance looked.
FindsNeedsDone(r, n) ==
  made'[r][n] > made[r][n]
    => \A m \in Needs(n) : state[r][m] = "done" \/ m \in again[r]

\* nextStep and spawnReady: a node is started after everything it needs is done,
\* so that it finds what it is meant to read, also when another branch has
\* failed.  What is ready is computed once for an advance, which then waits for
\* each session it makes: only a need that is set going again in that time is
\* not done when the node is started.
NeedsFinishedFirst ==
  [][\A r \in Root, n \in Nodes : FindsNeedsDone(r, n)]_runVars

\* advance: whatever becomes ready in a run is started, whichever advance was at
\* work when its last need was done, as long as no spawn is refused.  A run
\* leaves `live` when nothing is left of it: only one whose child ends otherwise after
\* that, a failed node that somebody has tried again, stays where it is.
ReadyNodesStart ==
  \A r \in Root :
    (r \in open /\ Ready(r) # {})
      ~> (r \notin open \/ Ready(r) = {} \/ refusals > 0 \/ r \in forgotten)

\* advance (lines 231-232) would not "turn one refused spawn into a run that
\* never moves again": the same, whatever was refused, when no node is at work
\* whose next move would ask for an advance.
RefusedRunMovesAgain ==
  \A r \in Root :
    (r \in live /\ Ready(r) # {})
      ~> (r \notin live \/ Ready(r) = {} \/ Running(r) # {})
=============================================================================
