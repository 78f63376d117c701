------------------------------ MODULE AgentLoop ------------------------------
(***************************************************************************)
(* The tool loops of one agent host process, and the files they share:     *)
(* main/runtime/runtimes/agbrteHarness.ts (loop, runTool, interrupt,       *)
(* close), main/tools/leases.ts (WorkspaceLeases), the read, write and     *)
(* edit tools of main/tools/index.ts, and what host/server.ts does to a    *)
(* handle.                                                                 *)
(*                                                                         *)
(* A turn asks the model, runs the calls of the answer one by one, each    *)
(* after a permission, and asks again.  A write claims a lease on its      *)
(* file, compares the file with what the agent last saw of it, and only    *)
(* then replaces it.  The lease outlives the write; it ends with the turn, *)
(* or with its time.                                                       *)
(*                                                                         *)
(* An action ends where the code awaits.  Left out: limits on tokens, cost *)
(* and time, which end a turn as the last answer does; tools that touch no *)
(* file through the leases; and files written by anyone but these tools.   *)
(***************************************************************************)
EXTENDS Naturals, FiniteSets

CONSTANTS Agent,         \* agents whose loops run in the process
          File,          \* the files of the workspace
          NoAgent,       \* stands for the holder of a file nobody holds
          NoCall,        \* stands for the call of a loop that runs none
          MaxIterations, \* maxIterations of a turn
          MaxCalls,      \* bound: calls in one answer of the model
          MaxTurns,      \* bound: turns in all
          MaxUpsets      \* bound: aborts, interrupts and exits of the process

\* A call: its tool and its file, and whether a write was compared with what
\* its agent had seen of the file.
Call == [tool : {"read", "write", "edit"}, file : File, compared : BOOLEAN]

ASSUME LoopAssumption == /\ IsFiniteSet(Agent)
                         /\ NoAgent \notin Agent
                         /\ NoCall \notin Call
                         /\ MaxIterations \in Nat \ {0}
                         /\ MaxCalls \in Nat \ {0}
                         /\ MaxTurns \in Nat
                         /\ MaxUpsets \in Nat

VARIABLES
  holder,    \* WorkspaceLeases.leases: who holds a file
  expired,   \* files whose lease is past its expiresAt
  seen,      \* WorkspaceLeases.seen: what each agent last saw of a file, as
             \* far as a comparison with the file tells: nothing, the text that
             \* is there now, or an old one
  pc,        \* where each loop is
  call,      \* the call being run
  text,      \* the text a read, or an edit, has got from the disk, likewise
  left,      \* calls of the answer that are not finished
  rounds,    \* iterations of the turn so far
  handle,    \* the handle of the turn: open, or closed
  aborted,   \* its abort signal
  turns,     \* turns so far
  upsets,
  stray      \* history: files on which a write landed without its lease

leaseVars == <<holder, expired>>
fileVars  == <<seen, stray>>
turnVars  == <<rounds, handle, aborted, turns>>
vars == <<leaseVars, fileVars, turnVars, pc, call, text, left, upsets>>

\* The file a loop is at work on.
Target(a) == call[a].file

\* A loop inside write or edit, after it claimed the file.
EditPcs == {"checking", "fetching", "writing"}

Init ==
  /\ holder = [f \in File |-> NoAgent]
  /\ expired = {}
  /\ seen = [a \in Agent |-> [f \in File |-> "unread"]]
  /\ pc = [a \in Agent |-> "idle"]
  /\ call = [a \in Agent |-> NoCall]
  /\ text = [a \in Agent |-> "unread"]
  /\ left = [a \in Agent |-> 0]
  /\ rounds = [a \in Agent |-> 0]
  /\ handle = [a \in Agent |-> "closed"]
  /\ aborted = [a \in Agent |-> FALSE]
  /\ turns = 0
  /\ upsets = 0
  /\ stray = {}

----------------------------------------------------------------------------
(* The table of leases.                                                    *)

\* Mutant: the time of a lease is what decides, whoever holds it.
MayClaimAny(f, a) == TRUE

\* acquire: refused while somebody else's lease is in force.
MayAcquire(f, a) == holder[f] \in {a, NoAgent} \/ f \in expired

Acquire(f, a) ==
  /\ holder' = [holder EXCEPT ![f] = a]
  /\ expired' = expired \ {f}

\* releaseHeld: what the agent holds is given back, what it read is kept.
ReleaseHeld(a) ==
  LET mine == {f \in File : holder[f] = a} IN
  /\ holder' = [f \in File |-> IF f \in mine THEN NoAgent ELSE holder[f]]
  /\ expired' = expired \ mine

\* The lease a loop claimed is still in force.
Holds(a, f) == holder[f] = a /\ f \notin expired

\* Mutant: what the agent read is not compared with the file.
NeverStale(f, a) == FALSE

\* freshness: the agent read the file, and it is another text now.
Stale(f, a) == seen[a][f] = "old"

\* expiresAt passes.
Expire(f) ==
  /\ holder[f] # NoAgent
  /\ f \notin expired
  /\ expired' = expired \cup {f}
  /\ UNCHANGED <<holder, fileVars, turnVars, pc, call, text, left, upsets>>

----------------------------------------------------------------------------
(* A turn, and its rounds.                                                 *)

\* start and send: a new handle, whose loop begins its first round.
Start(a) ==
  /\ pc[a] = "idle"
  /\ turns < MaxTurns
  /\ turns' = turns + 1
  /\ handle' = [handle EXCEPT ![a] = "open"]
  /\ pc' = [pc EXCEPT ![a] = "head"]
  /\ UNCHANGED <<leaseVars, fileVars, rounds, aborted, call, text, left, upsets>>

\* stopped is emitted and the handle closed; send returns.
EndTurn(a) ==
  /\ pc' = [pc EXCEPT ![a] = "idle"]
  /\ left' = [left EXCEPT ![a] = 0]
  /\ rounds' = [rounds EXCEPT ![a] = 0]
  /\ handle' = [handle EXCEPT ![a] = "closed"]
  /\ aborted' = [aborted EXCEPT ![a] = FALSE]
  /\ ReleaseHeld(a)
  /\ UNCHANGED <<fileVars, call, text, turns, upsets>>

\* Mutant: only an abort is looked at.
MayAskAgain(a) == ~aborted[a]

\* The test at the top of a round: an abort, or the last iteration, ends it.
MayAsk(a) == ~aborted[a] /\ rounds[a] < MaxIterations

\* The model is asked and answers with calls; with none, or when it does not
\* answer, or when it may not be asked again, the turn ends.  An abort ends
\* the request too, so nothing is lost by taking the two in one step.
Round(a) ==
  /\ pc[a] = "head" /\ left[a] = 0
  /\ \/ EndTurn(a)
     \/ /\ MayAsk(a)
        /\ rounds' = [rounds EXCEPT ![a] = @ + 1]
        /\ \E n \in 1..MaxCalls : left' = [left EXCEPT ![a] = n]
        /\ UNCHANGED <<leaseVars, fileVars, pc, call, text, handle, aborted,
                       turns, upsets>>

\* finishTool: the model will see the result, and the next call is up.
FinishTool(a) ==
  /\ left' = [left EXCEPT ![a] = @ - 1]
  /\ pc' = [pc EXCEPT ![a] = "head"]
  /\ call' = [call EXCEPT ![a] = NoCall]

\* runTool asks for permission, or the turn is at its limit of calls.  Nothing
\* looks at the abort signal between two calls, but an ask of a handle that is
\* closed has no context in the session host, which denies it.
NextCall(a) ==
  /\ pc[a] = "head" /\ left[a] > 0
  /\ \/ EndTurn(a)
     \/ /\ handle[a] = "open"
        /\ \E c \in Call : ~c.compared /\ call' = [call EXCEPT ![a] = c]
        /\ pc' = [pc EXCEPT ![a] = "asking"]
        /\ UNCHANGED <<leaseVars, fileVars, turnVars, text, left, upsets>>
     \/ /\ handle[a] = "closed"
        /\ FinishTool(a)
        /\ UNCHANGED <<leaseVars, fileVars, turnVars, text, upsets>>

----------------------------------------------------------------------------
(* runTool: permission, and the tools.                                     *)

Deny(a) ==
  /\ pc[a] = "asking"
  /\ FinishTool(a)
  /\ UNCHANGED <<leaseVars, fileVars, turnVars, text, upsets>>

AllowRead(a) ==
  /\ pc[a] = "asking" /\ call[a].tool = "read"
  /\ pc' = [pc EXCEPT ![a] = "reading"]
  /\ text' = [text EXCEPT ![a] = "current"]
  /\ UNCHANGED <<leaseVars, fileVars, turnVars, call, left, upsets>>

\* guardWrite up to its readFile: the file is claimed, or somebody has it.
AllowWrite(a) ==
  /\ pc[a] = "asking" /\ call[a].tool # "read"
  /\ \/ /\ MayAcquire(Target(a), a)
        /\ Acquire(Target(a), a)
        /\ pc' = [pc EXCEPT ![a] = "checking"]
        /\ UNCHANGED <<left, call>>
     \/ /\ ~MayAcquire(Target(a), a)
        /\ FinishTool(a)
        /\ UNCHANGED leaseVars
  /\ UNCHANGED <<fileVars, turnVars, text, upsets>>

\* The read tool notes its text, or could not read.  A read is as early as its
\* request or as late as its answer, so that a write of somebody else may have
\* landed in between.
Read(a) ==
  /\ pc[a] = "reading"
  /\ \/ \E what \in {text[a], "current"} :
          seen' = [seen EXCEPT ![a][Target(a)] = what]
     \/ UNCHANGED seen
  /\ text' = [text EXCEPT ![a] = "unread"]
  /\ FinishTool(a)
  /\ UNCHANGED <<leaseVars, stray, turnVars, upsets>>

\* The rest of guardWrite: a stale file is refused, and stays claimed.  A file
\* that cannot be read is compared with nothing, and may be written.
Check(a) ==
  /\ pc[a] = "checking"
  /\ \/ /\ Stale(Target(a), a)
        /\ FinishTool(a)
     \/ /\ \E compared \in BOOLEAN :
             /\ compared => ~Stale(Target(a), a)
             /\ call' = [call EXCEPT ![a].compared = compared]
        /\ pc' = [pc EXCEPT ![a] = IF call[a].tool = "edit" THEN "fetching"
                                                            ELSE "writing"]
        /\ UNCHANGED left
  /\ UNCHANGED <<leaseVars, fileVars, turnVars, text, upsets>>

\* edit reads the file again, and finds its old string once or not.
Fetch(a) ==
  /\ pc[a] = "fetching"
  /\ \/ /\ text' = [text EXCEPT ![a] = "current"]
        /\ pc' = [pc EXCEPT ![a] = "writing"]
        /\ UNCHANGED <<left, call>>
     \/ /\ FinishTool(a)
        /\ UNCHANGED text
  /\ UNCHANGED <<leaseVars, fileVars, turnVars, upsets>>

\* What was seen of a file once it is written.
Outdated(what) == IF what = "unread" THEN "unread" ELSE "old"

\* The file has a new text, which nobody but its author has seen (noteRead).
SeenAfter(a, f) ==
  [b \in Agent |-> [seen[b] EXCEPT ![f] = IF b = a THEN "current"
                                                  ELSE Outdated(@)]]

\* The texts that others have got from this file are old now.
TextAfter(f) ==
  [b \in Agent |-> IF pc[b] \in {"reading", "writing"} /\ Target(b) = f
                     THEN Outdated(text[b]) ELSE text[b]]

\* writeFile is done, and the agent knows what is there; or it failed.
Land(a) ==
  LET f == Target(a) IN
  /\ pc[a] = "writing"
  /\ \/ /\ seen' = SeenAfter(a, f)
        /\ text' = [TextAfter(f) EXCEPT ![a] = "unread"]
        /\ stray' = IF Holds(a, f) THEN stray ELSE stray \cup {f}
     \/ /\ text' = [text EXCEPT ![a] = "unread"]
        /\ UNCHANGED fileVars
  /\ FinishTool(a)
  /\ UNCHANGED <<leaseVars, turnVars, upsets>>

----------------------------------------------------------------------------
(* What the host does to a handle.                                         *)

\* The abort command.
Abort(a) ==
  /\ handle[a] = "open" /\ ~aborted[a]
  /\ upsets < MaxUpsets
  /\ upsets' = upsets + 1
  /\ aborted' = [aborted EXCEPT ![a] = TRUE]
  /\ UNCHANGED <<leaseVars, fileVars, rounds, handle, turns, pc, call, text,
                 left>>

\* Mutant: a request that is open when the handle closes stays open.
LeaveAsks(a) == UNCHANGED <<pc, left, call>>

\* failAsksFor: what a closed handle still asks for is denied.
FailAsks(a) ==
  IF pc[a] = "asking" THEN FinishTool(a) ELSE UNCHANGED <<pc, left, call>>

\* interrupt, and stop, which aborts as well: the stream is closed at once, and
\* the files of the agent go back.  The loop is still where it was.
Interrupt(a) ==
  /\ handle[a] = "open"
  /\ upsets < MaxUpsets
  /\ upsets' = upsets + 1
  /\ handle' = [handle EXCEPT ![a] = "closed"]
  /\ \E stops \in BOOLEAN :
       aborted' = [aborted EXCEPT ![a] = @ \/ stops]
  /\ ReleaseHeld(a)
  /\ FailAsks(a)
  /\ UNCHANGED <<fileVars, rounds, turns, text>>

\* The process exits: its loops, its leases and what its agents saw are gone.
HostExit ==
  /\ upsets < MaxUpsets
  /\ upsets' = upsets + 1
  /\ holder' = [f \in File |-> NoAgent]
  /\ expired' = {}
  /\ seen' = [a \in Agent |-> [f \in File |-> "unread"]]
  /\ pc' = [a \in Agent |-> "idle"]
  /\ left' = [a \in Agent |-> 0]
  /\ call' = [a \in Agent |-> NoCall]
  /\ text' = [a \in Agent |-> "unread"]
  /\ rounds' = [a \in Agent |-> 0]
  /\ handle' = [a \in Agent |-> "closed"]
  /\ aborted' = [a \in Agent |-> FALSE]
  /\ stray' = {}
  /\ UNCHANGED turns

----------------------------------------------------------------------------
\* The steps of a loop that only the model and the disk can delay.
LoopStep(a) ==
  \/ Round(a) \/ NextCall(a)
  \/ Read(a) \/ Check(a) \/ Fetch(a) \/ Land(a)

\* The decision about a call.
Decide(a) == Deny(a) \/ AllowRead(a) \/ AllowWrite(a)

Next ==
  \/ \E a \in Agent : \/ Start(a) \/ LoopStep(a) \/ Decide(a)
                      \/ Abort(a) \/ Interrupt(a)
  \/ \E f \in File : Expire(f)
  \/ HostExit

\* The model answers, or the request to it fails; reads and writes of files
\* return.  Nobody has to decide about a call, to abort or to interrupt.
Fairness == \A a \in Agent : WF_vars(LoopStep(a))

SafeSpec == Init /\ [][Next]_vars
Spec == SafeSpec /\ Fairness

----------------------------------------------------------------------------
\* The values of each variable.
TypeOK ==
  /\ holder \in [File -> Agent \cup {NoAgent}]
  /\ expired \subseteq File
  /\ seen \in [Agent -> [File -> {"unread", "current", "old"}]]
  /\ pc \in [Agent -> {"idle", "head", "asking", "reading"}
                        \cup EditPcs]
  /\ call \in [Agent -> Call \cup {NoCall}]
  /\ text \in [Agent -> {"unread", "current", "old"}]
  /\ left \in [Agent -> 0..MaxCalls]
  /\ rounds \in [Agent -> 0..MaxIterations]
  /\ handle \in [Agent -> {"open", "closed"}]
  /\ aborted \in [Agent -> BOOLEAN]
  /\ turns \in 0..MaxTurns
  /\ upsets \in 0..MaxUpsets
  /\ stray \subseteq File

\* guardWrite and edit (leases.ts lines 4-8): a write about to land replaces a
\* text that its agent saw last, if it ever saw one, unless the file could not
\* be read for the comparison; an edit replaces the very text it read.  This
\* is so while the agent holds the file, and no write that had lost its lease
\* has landed there.
WriteReplacesWhatWasSeen ==
  \A a \in Agent : LET f == Target(a) IN
    pc[a] = "writing" /\ Holds(a, f) /\ f \notin stray =>
      /\ call[a].compared => seen[a][f] # "old"
      /\ call[a].tool = "edit" => text[a] = "current"

\* acquire and releaseHeld: a lease in force changes hands only by the end of
\* its holder's turn, an interrupt of it, or the exit of the process; a file
\* is never taken by, or given back for, somebody else.
KeepsLease(a, f) ==
  Holds(a, f) /\ holder'[f] # a => /\ holder'[f] = NoAgent
                                   /\ handle'[a] = "closed"

LeaseIsKept == [][\A a \in Agent, f \in File : KeepsLease(a, f)]_vars

\* close and failAsksFor: a turn comes to its end, also one that was aborted or
\* interrupted while it waited for a decision; only a handle that is open can
\* be waiting for one.
LoopEnds ==
  \A a \in Agent : pc[a] # "idle" ~> \/ pc[a] = "idle"
                                     \/ pc[a] = "asking" /\ handle[a] = "open"
=============================================================================
