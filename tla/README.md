# TLA+ models of Agbrte

Agbrte is a terminal with coding agents in it. A *session host*, one process per
machine, keeps sessions: their event logs, permission prompts, turn queues,
budgets and workflow runs. Agents run in a child process, the *agent host*.
Desktop, web and CLI clients attach to the session host and drive it; several
may be attached at once, and work goes on when none is.

This directory models the parts of that system whose correctness depends on
order: what happens between two awaits, after a crash, or when two actors meet.
Paths below are relative to `src/src/`.

    tlc -workers 2 -config Turns.cfg MCSessionTurns
    tlapm TurnSlotsProofs.tla
    tlapm SessionTurnsProofs.tla
    tlapm EventLogProofs.tla
    tlapm BudgetTreeProofs.tla
    tlapm SchedulesProofs.tla
    tlapm HostLaunchProofs.tla
    tlapm AgentLoopProofs.tla
    tlapm FleetLinkProofs.tla

## 1. Inventory

| Part | Code | State | Operations | Hard behaviour |
| --- | --- | --- | --- | --- |
| Turn slots | `main/concurrency.ts` | counter, line of resolvers | acquire, release | a woken waiter runs later; repeated release |
| Turns and prompts | `main/sessionManager.ts` 1516-2356, 3248-3394 | queues, handles, abort controllers, slot holders, pending requests, session state | send, drain, runTurn, decide, respondPermission, interrupt | slots given up and retaken inside a turn; a turn that throws while a person is asked |
| Link to the agent host | `main/host/hostRuntime.ts`, `host/server.ts` | handles, asks, commands in flight | start, send, interrupt, abort, ask | exit of the process; answers after an interrupt |
| Agent loop | `main/runtime/runtimes/agbrteHarness.ts`, `main/runtime/supervisor.ts` | messages, limits | loop, runTool | ends, is interrupted, hangs |
| Event log | `main/store/eventLog.ts`, `sessionStore.ts`, `checkpoints.ts`, `reduce.ts` | file, counter, write chain, checkpoints | open, append, readFrom, load, checkpoint | crashes, full disks, followers at an offset |
| Budgets and splits | `main/sessionManager.ts` 3787-4372, `store/brief.ts`, `store/reduce.ts` | budget in memory, budget in the log, children, grant, proposals | proposeSplit, respondSplit, prepareChild, createSession, recordChild, charge | snapshots carried over awaits; memory against log |
| Workflow runs | `main/workflowRun.ts`, `shared/workflow/schedule.ts` | known runs, chain of advances | start, advance, resume | overlapping advances, refused spawns, restarts |
| Schedules | `main/schedules/runner.ts`, `main/store/schedules.ts` | file of schedules, pass in flight | tick, sweep, nextDue | failed writes, a crash in a sweep, hours that were missed |
| Quota | `main/quota.ts`, `main/sessionManager.ts` 712-727, 1865-1984, 3611-3636 | pace and hold per credential, a parked turn per session | acquire, observe, park, sweep | holds that grow while others sleep; parked turns and their timer |
| Seats | `main/sessionManager.ts` 1160-1330 | agents of a session | addAgent, replace | a limit checked before an await |
| Groups | `main/sessionManager.ts` 2456-3097, `main/inbox.ts` | group, hops | deliver, deliverPeer | agents that answer each other for ever |
| Session server | `host/sessionServer.ts` | clients, grants, whether it is leaving | commands, broadcast, shutdown, stop | several clients, one order; clients that arrive while it leaves |
| Client connection | `main/host/hostConnection.ts`, `main/fleet.ts` | entries, marks per session, requests in flight | attach, redial, catchUp, updateHost, detach | lost connections; pushes during a catch-up; a restart that others share |
| Host launch | `main/host/connectOrSpawn.ts`, `host/hostMain.ts`, `shared/host/socketChannel.ts`, `host/discovery.ts` | socket file, record of the machine, processes | find, spawn, bind, stop, clear | two starts at once; debris of a dead host; a stop beside a start |
| Agent host supervisor | `main/host/supervisor.ts` | child process, restarts | spawn, restart | a process that dies at once, again and again |
| Leases | `main/tools/leases.ts`, `main/tools/index.ts` 317-423, 1111-1140 | leases of files, what each agent saw of them | acquire, releaseHeld, noteRead, freshness | writes of two agents; expiry or an interrupt during a write |
| Policy | `main/policy/*.ts` | rules | evaluate | order of rules |
| Everything else | providers, CLI runtimes, MCP, ssh, provisioning, previews, terminal, capture, voice, content, UI | - | - | I/O, parsing, rendering |

How they interact. A client's `send` becomes a turn in the queue of an agent.
`drain` runs it: it opens a handle through the agent host link, appends
`user.turn` to the event log, waits for the credential (quota) and a slot of the
host (turn slots), sends the turn to the loop, and folds what the loop reports
into the log and the budget. The loop calls back for permission, for a split, or
to message another session. A split makes a child session with a part of the
budget; a workflow run makes children the same way, one per node, and moves on
when `rollUp` hears that a child has settled; a schedule starts workflow runs.
After a restart everything is folded back from the logs. A client finds the host
of its machine by its socket or starts it (host launch), keeps one connection per
workspace to it (the fleet), hears every event of that workspace pushed by the
session server, and after a lost link reads from the log what it has missed.

What makes each part correct is in section 4, and what could break it is under
`hazards` in `PROJECT.json`, each at its line.

## 2. Modules

| Module | Models | Uses |
| --- | --- | --- |
| `TurnSlots` | `concurrency.ts` | |
| `FifoSemaphore` | what the comments of that class promise | |
| `TurnSlotsProofs` | theorems about `TurnSlots` | `TurnSlots` |
| `SharedQuota` | the wait for a credential before that for a slot, parked turns | extends `TurnSlots` |
| `SessionTurns` | turns, prompts, interrupts, and the loop and link as far as they matter | `TurnSlots` as an instance whose tickets are turns |
| `SessionTurnsProofs` | theorems about `SessionTurns` | `SessionTurns`, and `TurnSlotsProofs` as an instance whose tickets are turns |
| `EventLog` | the log of a session, its writer, a follower and its checkpoints | |
| `AppendLog` | what a log promises | |
| `EventLogProofs` | theorems about `EventLog`, `AppendLog` among them | `EventLog` |
| `BudgetTree` | budgets, splits and grants in a tree of sessions | |
| `BudgetTreeProofs` | theorems about `BudgetTree` | `BudgetTree` |
| `WorkflowRun` | runs of workflow documents | |
| `Schedules` | the routine that starts runs | extends `WorkflowRun` |
| `SchedulesProofs` | theorems about runs, whoever starts them, and about the schedule | `Schedules` |
| `FleetLink` | a client that keeps watching the workspaces of a machine, its connections, and the host as it appears to them | |
| `FleetLinkProofs` | theorems about `FleetLink` | `FleetLink` |
| `HostLaunch` | clients that find or start the host, and hosts that start, leave and die | |
| `HostLaunchProofs` | theorems about `HostLaunch` | `HostLaunch` |
| `AgentLoop` | the tool loops of one agent host process, and the leases of the files they share | |
| `AgentLoopProofs` | theorems about `AgentLoop` | `AgentLoop` |
| `MC...` | constants of the runs | |

### TurnSlots

`held`, `waiting` and `phase` are `this.held`, `this.waiting` and where each
caller is in its call of `acquire`. Resolving the promise of a waiter (`GiveBack`
makes it "woken") and the waiter going on (`Resume`) are two steps, because the
code goes on in a later microtask. The closure may be called any number of
times, and acts on the first call only (`FirstCall`).

### SharedQuota

Extends `TurnSlots` with the agents (`Seats`) that draw on one credential: a seat is
a caller of the slots that first goes through `Acquires`, the loop of
`QuotaScheduler.acquire`. `group` is the code's `Group`; instants (`heldUntil`,
`lastStart`, a timer) are kept as what is left until them or how long ago they were,
so that `Tick` may go on for ever in a finite state space. `seat[s].queue` is the
agent's queue in the session host, `parked[s]` is `live.parked`, which holds one turn,
and `resending` the turns that `sweepParked` has taken up and whose
`session.unparked` is not in the log yet. `LoopEnds` is all that happens when a turn
is over: the slot goes back, the group observes the stop, the turn is parked or
over. Callers that are not seats take slots as before, and the properties of
`TurnSlots` are checked under `QuotaSpec`.

### FleetLink

`fleet` holds the client: which entry is listed for a workspace, the record of each
entry (`seen` is the high-water mark, `holding` the redial whose queue takes live
events), which connections have their handlers on (`wired`), and the loops of
`redial`, which are promises and outlive what started them. `conn` is both ends of
each connection: what is under way to the client, in order, and the requests the host
has still to answer, in any order. What one message makes the client do before
anything else can run is one action, down to the rejections that a close causes
(`Closing`, `Gone`, `Told`, `Return`); `Adopts` and `HearsShutdown` take several messages of
one read together, because there the code goes on in a microtask and the messages
behind the first are heard before it. A log is its length and an event its number.
`missed`, `broken`, `deaf` and `twice` are history for the properties: no guard reads
them but a bound (`IsFollowed`). The calls of `redial` are numbered because they are state
(a closure, a queue, an awaited dial); `Spare` is the number of the next one. That there
always is one is proved (section 6) from `MaxLoops > MaxConns + MaxFaults`, so `MaxLoops`
bounds nothing.

### HostLaunch

`path` is the socket file, named by who bound it; `record` is `~/.agbrte/host.json`.
`host[h].pc` follows `main` between its awaits: ask, write the record, bind, look
again at what is in the way, unlink, bind again; and `stop` until the record is
read and removed. A host that is killed leaves both files as they are. `client[c].pc`
follows `connectOrSpawnHost` between its probes. Closing a listener unlinks the path
by its name, whoever bound it since, as libuv does (`ShutsDoor`). `stolen` and
`clobbered` are history for the properties.

### AgentLoop

`pc[a]` is where the loop of agent `a` is between its awaits: at the head of a round or
before its next call, asking for permission, reading, or inside `write` or `edit` after
`guardWrite` claimed the file: comparing it with what was seen ("checking"), reading it
again (edit, "fetching"), writing. `left` counts the calls of the answer. A text is
what a comparison with the file can tell of it: `seen[a][f]` is "current" when it is
what is there now, and a write that lands makes it "old" for everybody else.
`text[a]` is the text a read or an edit has in hand. A file that cannot be read when
`guardWrite` compares it is compared with nothing and may be written: `Check` lets a call on
in either way, and the call remembers which (`compared`). An interrupt closes the handle and
gives the files back while the loop stays where it is; what it asks for then is denied,
by `failAsksFor` or by the session host. `stray` is history for one property: the files
on which a write landed whose lease was gone.

### SessionTurns

One action per stretch of code between two awaits. `pc[t]` says where turn `t` is
in `drain` and `runTurn`: opening a handle, preparing (content fitted, user.turn
logged), waiting for the credential, waiting for a slot, running, finishing. Every one of
these stretches may throw, when a write fails: before there is a handle (`OpenFails`), with
one but without a slot (`PrepareFails`: `agent.started`, `fitContent`, `user.turn`, the append
of `setState`), in the pump (`PumpFails`) and after it (`FinishFails`). The turn is then
"broken", and but for the first leaves its handle behind, and the state it had come to.
`ask[t]` says where its permission request is in `decide` and
`respondPermission`. `link[a]` is the latest handle of agent `a`: which
controller `live.aborts` holds, and whether the stream of the handle is open.
`loop[t]` is the loop in the agent host as the session host can tell: thinking,
asking, ended, or refused (the command came back with an error). `turnSlots` and
`holderOf` are the holder that `runTurn` registers and the one that `decide` found;
a holder is named by the turn whose closure it has.

The slots are the real `TurnSlots`: `TakesSlot`, `WaitsForSlot`, `QueueAgain` and
so on each conjoin an action of the instance.

### EventLog

The file is a sequence of whole lines, each a record or `Bad` (it does not
parse), and a flag for a torn line at its end. `nextSeq` is `this.seq` and `chain`
the writes that `this.writing` has still to do. `Crash` leaves nothing, a part, or
all of the write under way; `WriteFails` is a write that fails before its first
byte or half-way. `Load` is `SessionStore.load`: the newest checkpoint that parses,
and the records from its last seq on folded into it. The follower reads whole
lines from its offset and outlives the process, as a mirror or a client does.

### BudgetTree

`budget` is what a session holds in memory, `folded` what its log would give
back. A proposal goes through `proposeSplit`, approval by a person (`Decide`) or by
the grant (`Proposed`), `Prepare` (the reservation is computed and carried in
`split[p].after`), `Create`, `Record` (the carried budget replaces the one in
memory, `Adopt`, and the difference is logged) or `RecordFails` (it replaces it, and the
event cannot be written: memory has a child and a reservation that the log has not, and the
spawn throws), and `SpawnReturns` (the grant is charged). `unlogged` is history: the children
of the failed events. `Restart` is the death of the host and `resumeSession` of every session,
which brings back the children that the logs list.

### WorkflowRun and Schedules

`state[r][n]` is what `nodeStates` reads from the children of root `r`; `made` counts
the sessions created for a node, which is not the same when the host dies
between creating a child and recording it. `chained` counts the advances that
queue behind each other in `Running.advancing`; `step` is the one at work, with
what it found to be ready.

The states are those of live sessions, and no state of a session is for good: `setState` has
no guard, `send` and `runTurn` take a turn for a session in any state, and a turn that is still
running when its child reports a result ends in a state of its own. So a child that is done
or failed may be read as anything but unstarted later (`TurnsAgain`), at any moment: while an
advance awaits a spawn, after its run left `live`, or while no host runs. Every change of a
state asks for an advance of a known run (`Becomes`), and so does a child that asks
or goes on without an end of it (`Stirs`). `again` and `forgotten` are history: the children
that did not stay as the advance at work found them, and the runs with a child that moved
after they had left `live`; no guard reads them.

`Schedules` adds the clock, the file (`lastRunAt`), the pass of the runner (`sweep`), and
starts runs of `WorkflowRun`, next to those that a person starts (`RunByHand`, the command
`workflow.run`, which does not ask `isRunning`). Time is counted in
units coarse enough that a day has three: before its hour, the hour, and after it.

## 3. Runs

| Run | Instance | Bounds, and why they are enough |
| --- | --- | --- |
| `turn_slots` | 2 slots; 5 callers, any number of calls; or 2 agents that share a credential and 1 other caller, 3 turns, 2 that hit a limit or appends that fail, a pace of 1 or 2 units, holds of 2 units | the slots need no bound; a line of three has a head, a middle and an end; two seats wait for each other's window, three turns put two into one session, so that one is parked in the place of another |
| `turns` | cap 1, 2 agents, 3 turns in all, 2 to one agent, 1 prompt per turn, 1 interrupt or exit, any number of writes that fail | cap 1 is what small machines get and where every wait for a slot happens; two turns of one agent exercise queue and drain, two agents the slot |
| `turns_slot_leak` | as `turns` | violation, see 5 |
| `event_log` | 4 appends, 1 crash, 1 failed and 1 half-written line, 2 checkpoints | a crash with records before and after it, and a number used again while a checkpoint holds its predecessor |
| `budget_tree` | ceiling 2, grant 1, 2 children, 3 proposals, 1 approved split of a session in flight, 1 usage, 1 throw, 1 child whose event cannot be written, 1 restart | a child of the root and one of a child, a refusal for want of budget, a restart at every point of a split, and one that forgets a child |
| `budget_two_splits` | as above, 2 approved splits of a session in flight, no failed event, no restart | violation |
| `schedules` | a document of one node, run twice within two days, three times within one, or twice, once by hand; one run of a graph of three nodes, two of them roots, the third in need of both or of one; a day of 3 units; upsets out of refusals, deaths of the host and nodes set going again: 2 for a graph, 1 for a document of one node, but none in the two days; 1 failed write | an occurrence that is hit, missed and repeated, once by a death and once by a failed write; a run by hand beside every stage of a sweep; a node freed while an advance spawns its sibling; a need that is set going again while the advance spawns what needed it, and one that is tried again after the run left `live`, each with a death or a refusal before or after it |
| `schedule_never_runs`, `workflow_stalls` | the same documents | violations |
| `fleet` | 2 workspaces of a machine, one with 3 events and 2 entries, one silent with 1 entry; 2 connections per entry at a time, and 5 redials, more than there can be; 2 faults out of drops, deaths, stops, detaches, restarts on purpose and wrong workspaces | 3 events make a gap with an event after it; the second workspace is there to be the peer of a restart; 2 faults are a fault inside the recovery from another. The three invariants are proved for every bound (section 6); `ComesBack` rests on this run |
| `host_launch` | 3 processes, 2 clients, 1 killed; symmetric | two that start against each other while a third leaves or lies dead |
| `agent_loop` | 2 agents, 1 file, 3 turns in all, 2 rounds of 1 call, 1 abort, interrupt or exit, any number of expiries | the table treats each file by itself; an agent that reads in one round and writes in the next meets one that writes in between; three turns let a file be read in one turn of an agent and written in its next |

The bounds of `fleet` also leave out what is appended before anybody attached and
after an entry was dialled twice. `budget_tree` carries a restriction that the code does
not enforce: `MaxInFlight = 1`, one approved split of a session under way at a time.
Splits of different sessions do overlap, and any number of proposals may wait for a
person. Under it the properties hold; `budget_two_splits` lifts it and
`TreeCannotOutspend` fails (section 5). The theorems of section 6 have the same
restriction as a premise, in the open. The deadlock
check is off wherever a bound stops the system; `turn_slots` has clocks and callers
that never stop and is checked for deadlock.

Every property of a passing run has a mutant under `mutants`: a definition of the
model changed as a plausible bug would change the code, which the property then
catches. They stand, marked *Mutant*, before the definition they vary.

## 4. What holds

*Slots.* `SlotSafety`: the counter is the number of owners, never above the cap;
the line has no duplicates; nobody waits beside a free slot.
`ImplementsSemaphore`: first come, first served.

*Credential.* `TurnsGetDone`: whatever providers say about the allowance, a turn that
was sent comes to an end, unless it was dropped (section 5).

*Turns.* `OneTurnAtATime` (queue, drain and its guard lose and overlap nothing),
`LoopHoldsSlot` (no loop works without a slot, also after an answer),
`OnlyWorkHoldsSlots` (neither an open prompt nor a turn at its end does), `AnsweredOnce`
(clients that answer together), `StateTellsTheTruth` (the state of a session is about its
turn, unless a send was rejected or the latest turn broke off), `TurnsEndUnlessAsked` (no agent is stopped by
another agent's prompt, even with one slot).

*Log.* `FileInOrder`, `AckedIsKept` (an acknowledged record is lost only to a disk
that cut the write before it short, and then only one), `FollowerMissesNothing`,
`FollowerCatchesUp`, `LoadFoldsEachOnce` (whichever checkpoint it starts from),
`ImplementsAppendLog`.

*Budgets.* `TreeCannotOutspend`, `BudgetSurvivesRestart` (memory has reserved
what the children of a session have, and the log what those have whose event was written;
nobody pays twice), `GrantIsSpent`; all three with one split of a session at a time.

*Runs.* `NodeStartedOnce`; `NeedsFinishedFirst`, about the step that makes the session of a
node: whatever the node needs is done then, or was when the advance looked and has been set
going again since; `ReadyNodesStart` (what becomes ready in a run is started, unless a
spawn is refused or a node is tried again after the run left `live`).

*Schedules.* `OneRunAtATime` (a host that has not died drives one run besides those that a
person started; and one is unfinished whatever happens, with one more for each of those,
each death and each node that was set going again), `OccurrenceStartsOnce` (each crash or
failed write repeats at most one), `OverdueRuns`.

*Client.* `NothingLost` (what a client delivers of a session has no hole), `ConnectedIsWatched`
(who is told "connected" hears of the end of that connection), `ComesBack` (once
faults stop, everything attached is connected and up to date).

*Launch.* `OneHost` and `LiveHostIsRecorded`.

*Loops and files.* `WriteReplacesWhatWasSeen` (a write under its lease that was compared replaces a text its
agent saw last, if it saw one, and an edit the very text it read), `LeaseIsKept` (a lease
in force is never taken by, or given back for, somebody else), `LoopEnds` (a turn ends,
also one that was interrupted while it asked, and one that never hears of the abort).

`StateTellsTheTruth`, `BudgetSurvivesRestart`, `GrantIsSpent`, `NeedsFinishedFirst`, `ReadyNodesStart`,
`WriteReplacesWhatWasSeen` and the properties of client and launch hold but for the cases
that section 5 names. A history variable or a predicate marks each, and with it left out of
the property TLC finds the case.

Three of these are stated with what they cost. `NodeStartedOnce` and
`OneRunAtATime` allow one more per crash and `OccurrenceStartsOnce` one per crash or
failed write, because the code has nothing durable between the two steps. That nodes set
going again make more unfinished runs in `live` takes three upsets and three runs, more than
the run of `Schedules` has; there the theorem of section 6 speaks.

### Fairness

`TurnSlots`: a resolved promise is resumed, and a slot that was taken is given back
(`runTurn` does it in a `finally`, and a loop is bounded by its limits).
`SessionTurns`: weak fairness of everything the code does by itself, as one
disjunction, because what can be done stays possible and the steps of one turn are
finite; none for clients (send, answer, interrupt) or for failures. `EventLog`:
writes end, a killed host is started again, a follower goes on reading.
`SharedQuota`: timers fire, turns end, the sweep runs and its append returns; nobody has
to send. `FleetLink`: weak fairness of the host's answers, the client's reading and the
redials as one disjunction: each of them takes a finite number of steps and leaves the
others possible, so if none of them ever stalls all of them are done; the redial of the
fleet has no end by design ("the ordinary reconnect the fleet never gives up on"),
and one day a host answers. None for faults, people, or giving up. `HostLaunch` has only safety.
`WorkflowRun` and `Schedules`: the steps of an advance, of the sweep, and time; no
child has to settle or to stay settled, and a host that died has to be resumed by nobody. `AgentLoop`: the
model answers or its request fails, and reads and writes of files return; nobody has to
decide about a call, to abort or to interrupt.

## 5. What does not hold

Each of the first four is a run that ends in a counterexample, with the line and the
sentence of the repository it contradicts under `findings`.

1. `turns_slot_leak`: a turn whose send is rejected while a person is asked leaks
   the slot that `decide` takes after the answer (`sessionManager.ts` 3380).
2. `budget_two_splits`: two splits of one turn overwrite each other's reservation
   (`sessionManager.ts` 4044).
3. `schedule_never_runs`: a daily schedule that has never run is never due
   (`store/schedules.ts` 136).
4. `workflow_stalls`: a refused spawn with nothing else at work leaves a run that
   never moves and that keeps its schedule from starting another
   (`workflowRun.ts` 253).

These are in the models of passing runs, as the exceptions of a property:

5. A rejected send leaves the handle and the state `working` behind, and every later
   turn of the agent is rejected (`sessionManager.ts` 1925-1968; `Rejected` in
   `StateTellsTheTruth` and `TurnsEndUnlessAsked`), against the comment in `interrupt`
   (2124-2126) that a handle is "removed when the turn ends". A turn that breaks off on a
   failed write (1857, 1863, 2070, in the pump, 1982) leaves them too, until a turn of the
   agent comes to its end, which may be never (`BrokeOff` in `StateTellsTheTruth`).
6. A turn that is parked while another turn of its session is parked already replaces
   it, and a turn whose `session.unparked` cannot be appended is gone as well
   (`sessionManager.ts` 1976, 3631; `dropped` in `TurnsGetDone`). `DESIGN.md` 1625 and
   2198 want a parked agent to resume on its own. A sweep comes every fifth of the stall
   time, so between the end of the window and the sweep a second turn is easily parked.
   What is parked is also in memory only.
7. A catch-up that fails keeps the old mark, and the next live event moves it past the
   gap (`fleet.ts` 925-928 against its comment "catches up on the next reconnect";
   `broken`). A host that was restarted has not loaded the session and refuses the read,
   so this is what a restart does to every session that somebody else then opens.
8. Another workspace's link that closes while the host is asked to restart, and refuses,
   stays "connected" to a connection that is gone (`fleet.ts` 703, 1088-1095; `deaf`).
9. `updateHost` dials its peers, and after a failure the entry itself, without looking
   whether they are dialled or connected: two connections are wired to one entry, and a
   live event on one passes a gap that the other has still to read (1137-1150; `twice`).
10. A dial looks whether it was cancelled before it dials and not after: a workspace
   detached meanwhile is wired and delivers again, and where it was attached anew the
   old loop goes on for it (`fleet.ts` 812-880).
11. A host that finds debris in its way looks and removes it in two steps. Another may
   bind in between, and loses its socket; then two serve (`socketChannel.ts` 244-248;
   `stolen`), against "one host per machine".
12. The record of a host that serves is removed by a client that looked before the host
   wrote it (`connectOrSpawn.ts` 347), by a host that read its own name there just before
   the winner wrote, or by a loser of the bind that had replaced the winner's record
   (`discovery.ts` 224-228; `clobbered`), against `discovery.ts` 202-223.
13. A host that has agreed to leave welcomes a client whose folder it was still opening
   (`sessionServer.ts` 662-681; `Welcomes`), against the comment on `leaving` at 491.
14. A turn that has passed the wait for its credential and stands in line for a slot is
   sent although the group has learnt by then that the window is spent (`AsksSlot`);
   `quota.ts` 154-156 wants it never sent.
15. An interrupt gives the files of an agent back at once (`agbrteHarness.ts` 687, 728)
   while a write of its loop may be under way, and a lease may run out during a write
   (`leases.ts` 57). Another agent then claims the file, finds it as it knows it, and
   writes: one of the two texts is lost without a word (`stray`), against "exclusive,
   time-bounded, required before write" (`leases.ts` 4-8). An agent host that exits
   forgets what its agents have seen, so that an edit in a later turn is "unread" and
   passes, which the comment on `releaseHeld` (124-130) sets out to avoid across turns. And
   a file that cannot be read at the comparison is not compared (`tools/index.ts` 1129-1132;
   `compared`).
16. What is ready is computed once for an advance (`workflowRun.ts` 244), which then awaits
   every spawn (253-262). A child that is done and gets another turn in that time, or ends
   the one in which it reported its result, does not keep a node that needs it from
   starting (`again` in `NeedsFinishedFirst`).
17. A run is taken off `live` when nothing is left of it (265-267), also when a node has
   failed and others wait for it. If that node is then tried again and succeeds, nobody
   advances the run, and `isRunning` does not see it, until its root is resumed in another
   host (`forgotten` in `ReadyNodesStart`).
18. `recordChild` puts the child and the new budget into memory and then writes the event
   (`sessionManager.ts` 4044-4053). If that fails the spawn throws, and the session that was
   made keeps its ceiling: memory has reserved for it, the log has not, a restart forgets
   both, and the grant that approved it is not charged (`unlogged` in
   `BudgetSurvivesRestart` and `GrantIsSpent`).

## 6. Proofs

`TurnSlotsProofs` proves, for every cap and every finite set of callers
(`SlotsAssumption`, the only assumption):

- `TypeCorrect` and `SlotsAreSafe`: `SafeSpec => []TypeOK` and `SafeSpec => []SlotSafety`.
- `TurnSlotsImplementsSemaphore`: `SafeSpec => ImplementsSemaphore`.

The inductive invariant is `IInv == TypeOK /\ SlotSafety`. None of the four parts of
`SlotSafety` is inductive alone: a hand-over keeps the counter exact only because
the head of the line is not an owner (`QueueIsQueued`), `QueueIsQueued` survives it
only because the line has no duplicates, and taking a slot keeps
`WaitingMeansFull` only because nobody is in line. One lemma per action; the two
halves of `GiveBack` have one each, because the set of owners changes by an
exchange in the one and by a removal in the other. The refinement then needs the
invariant at every step: that a caller who may take a slot is not an owner and the
semaphore has room (`HeldIsOwned`), and that one who must queue finds it full.
`acquire` queues when the host is full *or anyone waits*; `WaitingMeansFull` shows
that the second case is one of the first, as slots are handed over and never freed
while somebody waits.

`SessionTurnsProofs` proves, for every finite set of agents, every cap and any number of
turns, prompts and upsets (`TurnsAssumption`), every safety invariant of `SessionTurns`:

- `TypeCorrect`, `TurnsInOrder` (`OneTurnAtATime`), `WorkersHoldSlots`
  (`LoopHoldsSlot`), `IdleHoldNoSlots` (`OnlyWorkHoldsSlots`), `DecidesOnce`
  (`AnsweredOnce`) and `StateIsTrue` (`StateTellsTheTruth`), each as `SafeSpec => []...`.
- `WorkersWithinCap`: no more loops work than the host has slots.
- `SessionsUseSlots` and `SessionsImplementSemaphore`: the turns of a host use the slots
  only as `TurnSlots` allows, so that `TurnSlotsProofs`, as an instance whose tickets are
  turns, makes them a first-come-first-served semaphore.

None of the invariants is inductive. A loop holds a slot, say, because of the turn that
`decide` finds as the holder of its agent, and that depends on the order in which `drain`
takes turns. `IInv` has five layers, and a step keeps each because of those before it:
types, slots and the count of answers; `DrainsInOrder` (the turns of an agent are over,
then one at work, then those in its queue, in order); `Matched` (a turn agrees with its loop,
its handle and its stream; once a send was rejected so is every later one); `SlotsMatch`
(a slot agrees with the loop and the prompt of its turn, also where `decide` found the
holder of another one, as after finding 1); `StatesMatch` (the session's state agrees
with its turns; what a turn that broke off has left stays until a later one of the agent is
done, and by `DrainsInOrder` a later turn comes to its end later). For each layer the lemmas first say what an action does to the turn it
moves and what it leaves to all the others, and then treat the actions one by one.

`EventLogProofs` proves, for any number of appends, crashes, failed and half-written
lines and checkpoints (`LogAssumption`: the bounds are numbers):

- `TypeCorrect`, `FileStaysInOrder` (`FileInOrder`), `AcksAreKept` (`AckedIsKept`),
  `FollowerHasAll` (`FollowerMissesNothing`) and `LoadIsWhole` (`LoadFoldsEachOnce`).
- `LogIsAppendOnly`: `SafeSpec => ImplementsAppendLog`.

`IInv` is the type and one part for each reader of the file. `ClaimedInOrder` says that the records of
the file and then those of the chain have ascending ids and numbers: without the chain
a record that lands could break the order of the file, and without it the counter has no
bound. `AckedInOrder` says that what was acknowledged is in the file or was paid for by
a torn write. While a running process has a torn line at the end of the file it was paid for
with one to spare, since the next record is glued to that line, acknowledged and lost:
with `AckedIsKept` alone that step would break it.
`CheckpointsProject` says that every checkpoint, the one being written included, is the
projection of a prefix of the log; `load` then folds each later record once because its
filter is by number and id and numbers ascend. Lines that do not parse are skipped by
each of the readers, whose loops are recursive functions here (`Only`, `ReduceEvents`).
What they return for every input is proved by induction over sets of numbers, from the
least number of a nonempty set. The refinement has one lemma
for a record that becomes part of the log (`CommitStep`) and one for every step.

`BudgetTreeProofs` proves, for any number of sessions and proposals, any ceiling, grant,
limit, usage, throws and restarts (`BudgetAssumption`):

- `UsageIsKept`: what memory holds as spent is never more than what the log would give
  back, whatever overlaps. No premise.
- `TypeCorrect`, `BudgetsSurvive` (`BudgetSurvivesRestart`), `TreeStaysInBudget`
  (`TreeCannotOutspend`) and `GrantIsNotOverspent` (`GrantIsSpent`), each in the form
  `Spec /\ []OneSplitAtATime => []...`.
- `BoundKeepsSplitsApart`: where `MaxInFlight <= 1` the premise holds, as in the run.

`OneSplitAtATime` says that no two approved splits of one session are under way together.
It is a premise because the code does not see to it and the conclusions are false without
it (`budget_two_splits`); whoever serialises `respondSplit` per session gets them. The
premise keeps splits of different sessions, usage and restarts free to interleave with a split. In `Reservations`,
what is reserved in memory is what the children have, what is reserved in the log is what
those of them have whose event was written, and the budget a split carries across its awaits
is the one in memory plus its own ceiling, of usage too old perhaps but never of
reservations; so a restart, which takes the figure of the log and forgets the children that
it does not have, keeps both (`FewerCeilings`: it reserves less than before, if anything).
`Record` and `RecordFails` share the lemmas about what they do in memory (`AdoptReserves`).
`GrantLeft` counts a child that was
created for the grant and not charged yet (`Owing`), which is why it allows one more than
the grant until the charge; a restart that comes before the charge sets what is left to 0,
and a child whose event failed is counted no more.
`FamiliesGrow` keeps a created child from being counted twice. The ceilings of a set of children
are counted as a set of token pairs, so that the sum is a cardinality (`OneMoreCeiling`,
`SameCeilings`).

`SchedulesProofs` proves, for every set of workflow documents, of roots, of nodes, and
every schedule and bound (`WorkflowAssumption`: a document needs nodes of its own
only, and its bound on runs is no more than the roots there are to take;
`ScheduleAssumption`: a day has its minute, an interval is positive):

- `NodesStartInOrder`: `SafeSpec => NeedsFinishedFirst`, an action property.
- `NodesStartOnce`: `SafeSpec => []NodeStartedOnce`.
- `RunsDoNotPile`: `SafeSpec => []OneRunAtATime`.
- `OccurrencesRunOnce`: `SafeSpec => []OccurrenceStartsOnce`.
- `TypeCorrect`: `SafeSpec => []TypeOK`.
- `CountsHold`, the invariant that the last three rest on.

The documents need not be acyclic: in a graph with a cycle the nodes of the cycle are
never ready. Neither property is inductive, since both depend on what an advance
carries across its awaits. `StepIsFresh` says that the nodes it has still to spawn,
which were unstarted and ready when it looked, are unstarted now, since nobody else records
a node of this root (the chain keeps the advances apart); and that what each of them needs
was found done (`FoundDone`): it is done still, or is one of those set going again since.
The step that makes a session then finds what `NeedsFinishedFirst` says. `SessionsCounted` sharpens the count of sessions: the session that is
created and not recorded yet counts as the one that its node may have, so recording
it adds nothing, and a death between the two leaves one session that only the count
of deaths allows for. One lemma per action that touches either; `StepsEndIInv` covers the three
ways in which an advance ends without a record.

One run at a time rests on what a sweep saw before it waited. It starts a run only if
no run was live when it looked. A run of this host that is not live was left behind finished,
and is unfinished only if a child of it moved after that (`NoneIsForgotten`); any other
is from before a death of the host. So the unfinished runs that are not live are no more than the deaths
and the nodes set going again and the runs by hand, and while a sweep is about to start one
there are no others (`RunsCounted`; `RunsKnown` has what it needs of the types, and that
without a death every run is loaded). A run by hand may start in between, and pays for itself.
That an occurrence starts one run rests
on where the time of the latest start is: in the file, or with the sweep that has still
to write it, or forgotten, and then a death or a failed write has paid for one repetition
(`StartsCounted`). `DueIsAnother` is the arithmetic of it: what `nextDue` finds due is in
another occurrence than the time it was given, over all days, minutes and intervals.

`HostLaunchProofs` proves, for every number of processes, clients and kills
(`LaunchAssumption`: the value that stands for nobody is not a host):

- `Typed`: `Spec => []TypeOK`.
- `HostIsAlone`: `Spec => []OneHost`.
- `HostIsRecorded`: `Spec => []LiveHostIsRecorded`.

`OneHost` follows from where the doors are: while no live socket was stolen, the path
leads to every host that serves, so two of them are one (`PathLeadsToDoor`). It is kept
because a host binds only a free path, takes a path away only through its own door or
as debris, and the one way for debris to have come alive since it was looked at is what
`stolen` records. `LiveHostIsRecorded` follows from `ClaimIsRecorded`: as soon as a
host has written the record, and not only once it serves, there is a record unless one
was clobbered; the record can be removed only by who read its own name there or by a
client, and both cases are in the definition of `clobbered`. One lemma for the initial
states and one for the steps of each of the three, with a step per action.

`AgentLoopProofs` proves, for every number of agents, files, calls, rounds, turns and
upsets (`LoopAssumption`: the values that stand for nobody and for no call are neither,
and there is a round and a call to make):

- `Typed`: `Spec => []TypeOK`. It needs `InCall`: a loop inside a call has one, and its
  answer still counts it, so finishing it never counts below zero.
- `LeasesAreKept`: `Spec => LeaseIsKept`.
- `WritesAreInformed`: `Spec => []WriteReplacesWhatWasSeen`.

`WriteReplacesWhatWasSeen` speaks of the moment before a write lands, but what the write may
rely on is settled earlier, by `Check`, where it was compared (`compared`); so the invariant (`Informed`) speaks of the second
read of an edit too. Only a write of somebody else can undo it: that one either does not
hold the file, which makes it a stray one, or holds it, and then its victim does not.
Every other step either leaves the call, the lease and the text alone (`StaysInformed`)
or leaves nothing to be written (`NothingToKnow`).

`FleetLinkProofs` proves, for any number of workspaces, events, attaches, connections and
faults (`FleetAssumption`: the bounds are numbers, an entry may have a connection, and
`MaxLoops > MaxConns + MaxFaults`; `NoneAssumption`: the value that stands for nothing is
no entry, loop or connection):

- `TypeCorrect`: `Spec => []TypeOK`.
- `NothingIsLost`: `Spec => []NothingLost`.
- `ConnectedAreWatched`: `Spec => []ConnectedIsWatched`.
- `Invariance`, the invariant `IInv` that all three rest on.

The handlers of the code run inside each other: an end of a link calls `onClosed`, which
calls `redial`, and rejects the calls under way, whose `finally` delivers what was held
back. The model chains operators on a value of `fleet` the same way, so the parts of `IInv`
are predicates of such a value and each operator has lemmas of its own; between two
operators of a chain some connections are closed for one part of the client and not yet
for the other, and the parts that mind have that set as a parameter. The parts:

- `FleetInv`, about the client. `Owned`: a loop from its hello on has a live connection of
  its own entry, which no other loop has; what an entry refers to is its own. `Updated` and
  `Watched`: only the update's entry has a loop with a deadline, marks are there only while
  an update is, and what says "connected" is wired. `Counted`: the dialling loops of an
  entry, and one if it is connected, and one if the update will still dial it, are at most
  one and one for each fault, because only a restart on purpose adds a loop. The loops that
  read hold a connection each. So there is a `Spare` when one is needed, and the type of
  `stop` holds. `Singles`: an entry that was not dialled twice has one loop at most and one
  wired connection.
- `Talk` and `Wires`, about the connections. At most one read and one shutdown, or the answer to
  it, is under way on each, and exactly the loop or the update that is waiting for it is there to
  hear it; events are pushed without a gap.
- `Logged` and `Wholes`, about the data. Nobody has seen what the log has not. `Wholes` is
  the reason for `NothingLost`: while a catch-up reads, what is held back has no hole, and
  what is read or found reaches up to it; once it has read, what is held back or comes next
  follows the mark. It is the exact form of the comment on `holding` ("where a push and a
  replay disagree about where history ends"), and is claimed of entries that are neither
  `broken` nor `twice`.

None of it is inductive without the others: that the next event fits needs `Talk` (no older
answer is still on its way) and `Singles` (nobody else delivers), and these need `Owned` and
`Counted`. The proof changed the model in two places. `StartRedial` took a loop that is off where
nothing said that there was one, and the bound on loops was too small for some orders of
faults; the assumption on `MaxLoops` and `Counted` settle that. And the answer to a shutdown
stayed in the inbox when the host agreed and the connection it came over was no longer that of the
entry, which takes an entry that was dialled twice, and more faults than the run has; the
answer is now read whatever follows (`RestartAgreed`).

Only model-checked:

- `SharedQuota`: `turn_slots` checks the properties of `TurnSlots` under `QuotaSpec`; the
  theorems are about `TurnSlots` with callers of any kind.
- Everything about liveness (`TurnsEndUnlessAsked`, `FollowerCatchesUp`, `OverdueRuns`,
  `ComesBack` and the others): liveness under fairness and `ENABLED` are out of reach of
  the prover. The library's induction theorems are too, as they take an operator for
  the claim; what is inducted on above is a set of numbers.

## 7. Not modelled

Listed with reasons under `components`. In the modelled parts: writes that fail in `decide`,
`respondPermission` and `interrupt`; a `recordChild` of a workflow run whose event cannot be
written, which leaves the run a child that only memory knows (`BudgetTree` has it for splits);
a child that cannot be loaded when its root is resumed, which reads as it did at its spawn;
free seats and
unbudgeted sessions (their code paths skip the arithmetic), sessions
of several seats, a person who edits a schedule during a sweep, runs whose document
changes on the way, pruning of checkpoints, and every text and figure that is only
shown; of the client side, roles and grants, terminals, the calls that only pass a command
on, the loopback transport, and hosts of older releases; of the loop, failover,
compaction, the limits on tokens, cost and time, and the tools that use no lease (`bash`
among them, which writes as it likes, as do the CLI runtimes and a `git` of the user: the
leases are advisory, and the model's files change by `write` and `edit` only).

## 8. Plan

1. `Seats`, and the resume of a session by two clients at once, composed with
   `EventLog`'s single writer; groups and hops; policy evaluation as an operator checked
   against a reference definition.
2. `AgentHostLink`: the channel, the supervisor and its restarts, between `SessionTurns`
   and `AgentLoop`.
3. Proofs: that what `SharedQuota` does to the slots is a step of `TurnSlots`, and that
   every turn sent is in one place of the queue, the loop, the parked and the dropped.
