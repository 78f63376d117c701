----------------------------- MODULE BudgetTree -----------------------------
(***************************************************************************)
(* main/sessionManager.ts with store/brief.ts and store/reduce.ts: token   *)
(* budgets in a tree of sessions, and the splits that hand a part of one   *)
(* to a child.                                                             *)
(*                                                                         *)
(* A session keeps its budget in memory, and its log keeps the usage and   *)
(* spawned_child events a restarted host folds it back from.  A split goes *)
(* from proposeSplit over its approval, by a person or by the session's    *)
(* grant, to prepareChild, createSession and recordChild, with awaits      *)
(* between them all.                                                       *)
(***************************************************************************)
EXTENDS Integers, FiniteSets

CONSTANTS Root,         \* the session the tree grows from
          Child,        \* the sessions it may grow
          Proposal,     \* the splits its agents propose
          NoSession,    \* not a session
          Ceiling,      \* the root's tokenCeiling
          Grant,        \* its splitGrant.count, for which nobody is asked
          GrantDepth,   \* its splitGrant.maxDepth
          MaxDepth,     \* TREE_LIMITS.maxDepth
          MaxChildren,  \* TREE_LIMITS.maxChildrenPerSession
          MaxInFlight,  \* bound: approved splits of a session under way at once
          MaxUse,       \* bound: usage events in all
          MaxThrows,    \* bound: turns that throw
          MaxUnlogged,  \* bound: children whose event cannot be written
          MaxCrashes    \* bound: times the host is killed and started again

ASSUME BudgetAssumption ==
  /\ Root \notin Child /\ NoSession \notin Child \cup {Root}
  /\ IsFiniteSet(Child)
  /\ {Ceiling, Grant, GrantDepth, MaxDepth, MaxChildren, MaxInFlight, MaxUse,
      MaxThrows, MaxUnlogged, MaxCrashes} \subseteq Nat

Session == Child \cup {Root}

VARIABLES
  exists,    \* the sessions that have been created
  parent,    \* tree.parentSessionId
  budget,    \* live.session.budget: [tokenCeiling, spent, reserved]
  folded,    \* spent and reserved as reduceEvents folds the session's log
  children,  \* live.session.children
  unlogged,  \* history: children whose spawned_child event is not in the log
  remaining, \* splitGrant.remaining of the root
  turn,      \* whether a turn runs, and the usage it has reported
  split,     \* where each proposal is, and what it carries
  auto,      \* proposals the grant approved
  uses, throws, crashes

treeVars  == <<exists, parent, children, unlogged>>
moneyVars == <<budget, folded>>
boundVars == <<uses, throws, crashes>>
vars == <<treeVars, moneyVars, remaining, turn, split, auto, boundVars>>

NoSplit == [pc |-> "new", on |-> Root, ceiling |-> 0, child |-> NoSession,
            after |-> [tokenCeiling |-> 0, spent |-> 0, reserved |-> 0]]

Idle == [running |-> FALSE, used |-> 0]

FreshBudget(n) == [tokenCeiling |-> n, spent |-> 0, reserved |-> 0]

Init == /\ exists = {Root}
        /\ parent = [s \in Session |-> NoSession]
        /\ budget = [s \in Session |-> FreshBudget(IF s = Root THEN Ceiling ELSE 0)]
        /\ folded = [s \in Session |-> [spent |-> 0, reserved |-> 0]]
        /\ children = [s \in Session |-> {}]
        /\ unlogged = {}
        /\ remaining = Grant
        /\ turn = [s \in Session |-> Idle]
        /\ split = [p \in Proposal |-> NoSplit]
        /\ auto = {}
        /\ uses = 0 /\ throws = 0 /\ crashes = 0

----------------------------------------------------------------------------
(* Turns                                                                   *)

\* availableTokens
Available(b) == LET left == b.tokenCeiling - b.spent - b.reserved
                IN  IF left > 0 THEN left ELSE 0

\* runTurn checks the budget before it does anything.
TurnStarts(s) ==
  /\ s \in exists
  /\ ~turn[s].running
  /\ Available(budget[s]) > 0
  /\ turn' = [turn EXCEPT ![s] = [running |-> TRUE, used |-> 0]]
  /\ UNCHANGED <<treeVars, moneyVars, remaining, split, auto, boundVars>>

\* A model call is answered: pumpAgent appends its usage.
Usage(s) ==
  /\ turn[s].running
  /\ uses < MaxUse
  /\ uses' = uses + 1
  /\ turn' = [turn EXCEPT ![s].used = @ + 1]
  /\ folded' = [folded EXCEPT ![s].spent = @ + 1]
  /\ UNCHANGED <<treeVars, budget, remaining, split, auto, throws, crashes>>

\* The figure after a turn: the outcome's usage on top of the one in memory.
Charged(s) == budget[s].spent + turn[s].used

\* The turn ends and the budget in memory is charged for all of it.
TurnEnds(s) ==
  /\ turn[s].running
  /\ budget' = [budget EXCEPT ![s].spent = Charged(s)]
  /\ turn' = [turn EXCEPT ![s] = Idle]
  /\ UNCHANGED <<treeVars, folded, remaining, split, auto, boundVars>>

\* handle.send rejects: what follows the `finally` of runTurn is skipped.
TurnThrows(s) ==
  /\ turn[s].running
  /\ throws < MaxThrows
  /\ throws' = throws + 1
  /\ turn' = [turn EXCEPT ![s] = Idle]
  /\ UNCHANGED <<treeVars, moneyVars, remaining, split, auto, uses, crashes>>

----------------------------------------------------------------------------
(* Splits, up to the approval                                              *)

\* tree.depth: the root is at 0.
Depth(s) == IF parent[s] = NoSession THEN 0
            ELSE IF parent[parent[s]] = NoSession THEN 1
            ELSE IF parent[parent[parent[s]]] = NoSession THEN 2 ELSE 3

\* The approved splits of session s that are under way.
InFlight(s) == {p \in Proposal : /\ split[p].on = s
                                 /\ split[p].pc \in {"settling", "settled",
                                                    "prepared", "created",
                                                    "recorded"}}

\* proposeSplit: the proposal is pending and its event is being written.
Propose(p) ==
  /\ split[p].pc = "new"
  /\ \E s \in exists, n \in 1..Ceiling :
       /\ turn[s].running
       /\ split' = [split EXCEPT ![p] =
                      [NoSplit EXCEPT !.pc = "proposed", !.on = s,
                                      !.ceiling = n]]
  /\ UNCHANGED <<treeVars, moneyVars, remaining, turn, auto, boundVars>>

\* Mutant: a grant that is used up is still a grant.
GrantedForEver(s) == s = Root /\ Depth(s) + 1 <= GrantDepth

\* mayAutoSplit; only the root was created with a grant.
MayAutoSplit(s) == /\ s = Root
                   /\ remaining > 0
                   /\ Depth(s) + 1 <= GrantDepth

\* The event is on disk: the grant approves, or a person is asked.
Proposed(p) ==
  /\ split[p].pc = "proposed"
  /\ \/ /\ MayAutoSplit(split[p].on)
        /\ Cardinality(InFlight(split[p].on)) < MaxInFlight
        /\ split' = [split EXCEPT ![p].pc = "settling"]
        /\ auto' = auto \cup {p}
     \/ /\ ~MayAutoSplit(split[p].on)
        /\ split' = [split EXCEPT ![p].pc = "asking"]
        /\ UNCHANGED auto
  /\ UNCHANGED <<treeVars, moneyVars, remaining, turn, boundVars>>

\* respondSplit: the proposal is deleted before its decision is written, so a
\* second approval finds none.
Decide(p) ==
  /\ split[p].pc = "asking"
  /\ \/ /\ Cardinality(InFlight(split[p].on)) < MaxInFlight
        /\ split' = [split EXCEPT ![p].pc = "settling"]
     \/ split' = [split EXCEPT ![p].pc = "over"]
  /\ UNCHANGED <<treeVars, moneyVars, remaining, turn, auto, boundVars>>

\* split_decided is on disk.
Settled(p) ==
  /\ split[p].pc = "settling"
  /\ split' = [split EXCEPT ![p].pc = "settled"]
  /\ UNCHANGED <<treeVars, moneyVars, remaining, turn, auto, boundVars>>

----------------------------------------------------------------------------
(* spawnChild                                                              *)

\* Mutant: only what the session itself has spent is taken off.
RoomInCeiling(b, n) == n <= b.tokenCeiling - b.spent

\* reserveForChild refuses more than is available.
Reservable(b, n) == n <= Available(b)

\* The two limits of TREE_LIMITS that are checked here.
MayHaveChild(s) == /\ Depth(s) + 1 <= MaxDepth
                   /\ Cardinality(children[s]) < MaxChildren

\* prepareChild: the parent's budget with the reservation is computed and
\* carried along; the brief is then built from the log.
Prepare(p) ==
  LET s == split[p].on
      b == budget[s]
      n == split[p].ceiling
  IN
  /\ split[p].pc = "settled"
  /\ \/ /\ MayHaveChild(s) /\ Reservable(b, n)
        /\ split' = [split EXCEPT ![p].pc = "prepared",
                                 ![p].after = [b EXCEPT !.reserved = @ + n]]
     \/ /\ ~(MayHaveChild(s) /\ Reservable(b, n))
        /\ split' = [split EXCEPT ![p].pc = "over"]
  /\ UNCHANGED <<treeVars, moneyVars, remaining, turn, auto, boundVars>>

\* createSession succeeds, here or on another host, or it throws.
Create(p) ==
  /\ split[p].pc = "prepared"
  /\ \/ \E c \in Child \ exists :
          /\ exists' = exists \cup {c}
          /\ parent' = [parent EXCEPT ![c] = split[p].on]
          /\ budget' = [budget EXCEPT ![c] = FreshBudget(split[p].ceiling)]
          /\ split' = [split EXCEPT ![p].pc = "created", ![p].child = c]
     \/ /\ split' = [split EXCEPT ![p].pc = "over"]
        /\ UNCHANGED <<exists, parent, budget>>
  /\ UNCHANGED <<children, unlogged, folded, remaining, turn, auto, boundVars>>

\* Mutant: spawned_child does not say what was reserved.
NothingReserved(p) == 0

\* `reserved` of the event: the carried budget against the one in memory.
ReservedNow(p) == split[p].after.reserved - budget[split[p].on].reserved

\* recordChild, before its await: the carried budget replaces the one in
\* memory, and the child is pushed.
Adopt(p) ==
  LET s == split[p].on IN
  /\ split[p].pc = "created"
  /\ budget' = [budget EXCEPT ![s] = split[p].after]
  /\ children' = [children EXCEPT ![s] = @ \cup {split[p].child}]
  /\ UNCHANGED <<exists, parent, remaining, turn, auto, boundVars>>

\* The event follows; a difference of 0 or less is not written.
Record(p) ==
  /\ Adopt(p)
  /\ split' = [split EXCEPT ![p].pc = "recorded"]
  /\ folded' = [folded EXCEPT ![split[p].on].reserved =
                  @ + (IF ReservedNow(p) > 0 THEN ReservedNow(p) ELSE 0)]
  /\ UNCHANGED unlogged

\* The event cannot be written, and the spawn throws: memory keeps a child and
\* a reservation the log has not, and the grant is not charged.
RecordFails(p) ==
  /\ Cardinality(unlogged) < MaxUnlogged
  /\ Adopt(p)
  /\ split' = [split EXCEPT ![p].pc = "over"]
  /\ unlogged' = unlogged \cup {split[p].child}
  /\ UNCHANGED folded

\* Mutant: an automatic split is not charged to the grant.
Uncharged(p) == remaining

\* The grant is spent once the child exists.
RemainingAfter(p) == IF p \in auto THEN remaining - 1 ELSE remaining

\* The event is on disk, and proposeSplit spends the grant.
SpawnReturns(p) ==
  /\ split[p].pc = "recorded"
  /\ split' = [split EXCEPT ![p].pc = "over"]
  /\ remaining' = RemainingAfter(p)
  /\ UNCHANGED <<treeVars, moneyVars, turn, auto, boundVars>>

----------------------------------------------------------------------------
(* The host starts again                                                   *)

\* The host is killed, and resumeSession opens every session again: budgets and
\* children are folded from the logs; what was under way, what was pending and
\* the grant are gone.  An orderly restart is one at a moment when nothing is
\* under way.
Restart ==
  /\ crashes < MaxCrashes
  /\ crashes' = crashes + 1
  /\ budget' = [s \in Session |->
                  [budget[s] EXCEPT !.spent = folded[s].spent,
                                    !.reserved = folded[s].reserved]]
  /\ children' = [s \in Session |-> children[s] \ unlogged]
  /\ split' = [p \in Proposal |->
                 IF split[p].pc = "new" THEN split[p]
                 ELSE [split[p] EXCEPT !.pc = "over"]]
  /\ remaining' = 0
  /\ turn' = [s \in Session |-> Idle]
  /\ UNCHANGED <<exists, parent, unlogged, folded, auto, uses, throws>>

----------------------------------------------------------------------------
Next ==
  \/ \E s \in Session : \/ TurnStarts(s) \/ Usage(s)
                        \/ TurnEnds(s) \/ TurnThrows(s)
  \/ \E p \in Proposal : \/ Propose(p) \/ Proposed(p)
                         \/ Decide(p) \/ Settled(p)
                         \/ Prepare(p) \/ Create(p)
                         \/ Record(p) \/ RecordFails(p) \/ SpawnReturns(p)
  \/ Restart

Spec == Init /\ [][Next]_vars

----------------------------------------------------------------------------
Budgets == [tokenCeiling : 0..Ceiling, spent : Nat, reserved : 0..Ceiling]

\* The values of each variable; in particular no session reserves more than the
\* root was given, and the grant is never overdrawn.
TypeOK ==
  /\ exists \subseteq Session
  /\ parent \in [Session -> Session \cup {NoSession}]
  /\ budget \in [Session -> Budgets]
  /\ folded \in [Session -> [spent : Nat, reserved : 0..Ceiling]]
  /\ children \in [Session -> SUBSET Child]
  /\ unlogged \subseteq Child
  /\ remaining \in 0..Grant
  /\ turn \in [Session -> [running : BOOLEAN, used : Nat]]
  /\ split \in [Proposal -> [pc : {"new", "proposed", "asking", "settling",
                                   "settled", "prepared", "created",
                                   "recorded", "over"},
                             on : Session, ceiling : 0..Ceiling,
                             child : Child \cup {NoSession},
                             after : Budgets]]
  /\ auto \subseteq Proposal

\* The ceilings of the sessions in S, added up: the tokens given to them are
\* counted, each a pair of a session and a number up to its ceiling.
CeilingsOf(S) ==
  Cardinality({t \in S \X (1..Ceiling) : t[2] <= budget[t[1]].tokenCeiling})

\* "A tree cannot outspend what its root was granted": the children a session
\* lists may never spend more between them than the session's own ceiling,
\* however its turns, its splits and restarts of its host interleave.
TreeCannotOutspend ==
  \A s \in exists : CeilingsOf(children[s]) <= budget[s].tokenCeiling

\* The reservation a session enforces covers every child it lists, and the one
\* its log gives back after a restart every child the log names, although the
\* budget recordChild swaps in and the figure it writes are computed from
\* different snapshots: the two differ by the children whose event could not be
\* written.  No session pays twice: turns that throw, spawns that overwrite the
\* budget and restarts err on the side of the smaller figure in memory.
BudgetSurvivesRestart ==
  \A s \in exists :
    /\ folded[s].reserved = CeilingsOf(children[s] \ unlogged)
    /\ budget[s].reserved = CeilingsOf(children[s])
    /\ budget[s].spent <= folded[s].spent

\* A split grant is spent: no more children come into being without anybody
\* being asked than the grant named, over every restart; one whose event could
\* not be written is not charged.
GrantIsSpent ==
  Cardinality({p \in auto : split[p].child \notin {NoSession} \cup unlogged})
    <= Grant
=============================================================================
