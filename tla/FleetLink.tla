----------------------------- MODULE FleetLink -----------------------------
(***************************************************************************)
(* main/fleet.ts with main/host/hostConnection.ts: how one client keeps    *)
(* watching the workspaces of a machine while links drop, the host of the  *)
(* machine dies, stops or is restarted on purpose, and people detach.      *)
(*                                                                         *)
(* One host process serves every workspace of the machine, each over a     *)
(* connection of its own.  A workspace has one session, whose log is kept  *)
(* as its length: an event is its seq.  The host pushes what is appended   *)
(* while the session is loaded, and answers reads of the log.              *)
(*                                                                         *)
(* An Entry <<w, k>> is the k-th record the fleet makes for workspace w;   *)
(* the promises of an entry outlive it.  A Loop <<e, i>> is one call of    *)
(* redial for entry e.                                                     *)
(***************************************************************************)
EXTENDS Naturals, Sequences, FiniteSets, SequencesExt, FiniteSetsExt

CONSTANTS Workspaces,
          None,
          LogLimit,    \* bound: events of each workspace
          MaxAttaches, \* bound: entries ever made for each workspace
          MaxLoops,    \* bound: calls of redial for one entry at a time, which
                       \* never bites: there are fewer at any time
          MaxConns,    \* bound: connections of one entry alive at a time
          MaxFaults    \* bound: drops, deaths, stops, detaches and updates

ASSUME FleetAssumption == /\ LogLimit \in [Workspaces -> Nat]
                          /\ MaxAttaches \in [Workspaces -> Nat]
                          /\ MaxConns \in Nat \ {0} /\ MaxFaults \in Nat
                          /\ MaxLoops \in Nat
                          /\ MaxLoops > MaxConns + MaxFaults

VARIABLES
  log,     \* the length of the log of each workspace's session
  loaded,  \* the sessions the host process has loaded
  host,    \* the process: up, leaving (agreed to stop) or down
  conn,    \* the connections: both ends, and what is under way on each
  fleet,   \* entries, wiring and redial loops of the client
  update,  \* the call of updateHost that is under way
  faults   \* bound

vars == <<log, loaded, host, conn, fleet, update, faults>>

Entry == UNION {{w} \X (1..MaxAttaches[w]) : w \in Workspaces}
Loop  == Entry \X (1..MaxLoops)
Conns == Entry \X (1..MaxConns)

ASSUME NoneAssumption == None \notin Entry \cup Loop \cup Conns

\* The workspace an entry is of, and the one a connection is bound to.
Of(e) == e[1]
To(c) == Of(c[1])

\* A workspace without events has no session.
Sessions == {w \in Workspaces : LogLimit[w] > 0}

\* A connection that is in use by nobody.
Unused == [at |-> "unused", inbox |-> <<>>, asked |-> {}]

\* A record nobody has filled, and a loop that does not run.
NewEntry == [link |-> "connected", seen |-> 0, missed |-> FALSE,
             updating |-> FALSE, holding |-> None, conn |-> None, stop |-> None,
             broken |-> FALSE, deaf |-> FALSE, twice |-> FALSE]
IdleLoop == [pc |-> "off", cancelled |-> FALSE, window |-> FALSE,
             conn |-> None, held |-> {}]
NoUpdate == [pc |-> "off", entry |-> None, peers |-> {}, conn |-> None]

Init ==
  /\ log = [w \in Workspaces |-> 0]
  /\ loaded = Sessions
  /\ host = "up"
  /\ conn = [c \in Conns |-> Unused]
  /\ fleet = [listed |-> [w \in Workspaces |-> None],
              made   |-> [w \in Workspaces |-> 0],
              entry  |-> [e \in Entry |-> NewEntry],
              wired  |-> {},
              loop   |-> [l \in Loop |-> IdleLoop]]
  /\ update = NoUpdate
  /\ faults = 0

Fault == faults < MaxFaults /\ faults' = faults + 1

----------------------------------------------------------------------------
(* The network                                                             *)

Open(c) == conn[c].at = "open"
Free(e) == {i \in 1..MaxConns : conn[<<e, i>>].at = "unused"}
Fresh(e) == <<e, CHOOSE i \in Free(e) : TRUE>>

\* Either end is lost: nothing more is sent, and what was under way is gone.
\* The client hears of it later (Closed).
Cut(cs, c) == [cs EXCEPT ![c].at = "cut", ![c].inbox = <<>>, ![c].asked = {}]

Send(cs, c, m) == [cs EXCEPT ![c].inbox = Append(@, m)]

----------------------------------------------------------------------------
(* What the client does to its records.  f is the value of `fleet`.        *)

\* entry.unlisten: it takes the handlers off the connection wired last.
Unlisten(f, e) == [f EXCEPT !.wired = @ \ {f.entry[e].conn}]

\* entry.stopReconnect?.()
StopLoop(f, e) ==
  LET l == f.entry[e].stop
  IN  IF l = None THEN f ELSE [f EXCEPT !.loop[l].cancelled = TRUE]

\* forget(instanceId): of whatever entry is listed for the workspace now.
Forget(f, w) ==
  LET e == f.listed[w]
  IN  IF e = None THEN f
      ELSE [Unlisten(StopLoop(f, e), e) EXCEPT !.listed[w] = None]

\* The call that the next redial of e is.
Spare(f, e) == <<e, CHOOSE n \in 1..MaxLoops : f.loop[<<e, n>>].pc = "off">>

\* redial(entry) is called, for each entry of es.  `window`: by updateHost, with
\* its deadline.
StartRedial(f, es, window) ==
  [f EXCEPT !.loop = [l \in Loop |->
              IF l[1] \in es /\ l = Spare(f, l[1])
              THEN [IdleLoop EXCEPT !.pc = "dial", !.window = window]
              ELSE @[l]],
            !.entry = [e \in Entry |->
              IF e \in es THEN [@[e] EXCEPT !.stop = Spare(f, e)] ELSE @[e]]]

\* The links of es are lost and nobody dials them yet.
Lost(f, es) ==
  [f EXCEPT !.wired = @ \ {f.entry[e].conn : e \in es},
            !.entry = [e \in Entry |->
              IF e \in es
              THEN [@[e] EXCEPT !.link = "reconnecting", !.deaf = FALSE]
              ELSE @[e]]]

\* reconnect
Reconnect(f, e) == IF f.entry[e].link = "reconnecting" THEN f
                   ELSE StartRedial(Lost(f, {e}), {e}, FALSE)

\* deliver, of some events in their order: one that was delivered before is
\* dropped.  `missed` is set for the properties when the mark moves past an event
\* nobody delivered.
Delivered(r, ns) ==
  LET New == {n \in ns : n > r.seen}
      From == IF r.seen = 0 THEN Min(New) ELSE r.seen + 1
  IN  IF New = {} THEN r
      ELSE [r EXCEPT !.seen = Max(New), !.missed = @ \/ New # From..Max(New)]

Deliver(f, e, ns) == [f EXCEPT !.entry[e] = Delivered(@, ns)]

\* Mutant: a live event is delivered although a catch-up is reading.
NeverHeld(f, e) == FALSE

\* entry.holding: live events wait while a catch-up reads.
MustHold(f, e) == f.entry[e].holding # None

\* onEvent, for an event on a connection that is wired to e.
OnEvent(f, e, n) ==
  IF MustHold(f, e)
  THEN [f EXCEPT !.loop[f.entry[e].holding].held = @ \cup {n}]
  ELSE Deliver(f, e, {n})

SetUpdating(f, es, yes) ==
  [f EXCEPT !.entry = [e \in Entry |->
     IF e \in es THEN [@[e] EXCEPT !.updating = yes] ELSE @[e]]]

----------------------------------------------------------------------------
(* Returns and rejections: what runs before anything else can happen       *)

\* The entry that is restarted and its peers.
Marked == update.peers \cup {update.entry}

\* What updateHost does once its redial has returned: the marks are taken away,
\* and the peers are dialled, and the entry if it was not reached.
AfterUpdate(f, failed) ==
  LET Again == {p \in update.peers \cup (IF failed THEN {update.entry} ELSE {}) :
                  f.listed[Of(p)] # None}
      Dialled(p) == \/ f.entry[p].link = "connected"
                    \/ \E l \in Loop : l[1] = p /\ f.loop[l].pc # "off"
      g == SetUpdating(f, Marked, FALSE)
      h == [g EXCEPT !.entry = [p \in Entry |->
              IF p \in Again /\ Dialled(p)
              THEN [@[p] EXCEPT !.twice = TRUE] ELSE @[p]]]
  IN  StartRedial(h, Again, FALSE)

\* redial of l returns, and so does an updateHost that waits for it.
Return(f, l, failed) ==
  LET g == [f EXCEPT !.loop[l] = IdleLoop]
  IN  IF f.loop[l].window THEN AfterUpdate(g, failed) ELSE g

Returns(l, f, failed) ==
  /\ update' = IF fleet.loop[l].window THEN NoUpdate ELSE update
  /\ \E g \in {f} : fleet' = Return(g, l, failed)

\* Mutant: the queue is dropped with the flag.
DropHeld(r, held) == r

\* The held events are delivered, after what the catch-up has read.
FlushHeld(r, held) == Delivered(r, held)

\* The `finally` of l: only the queue of this redial is taken away.
CaughtUp(r, l, held) ==
  FlushHeld([r EXCEPT !.holding = IF r.holding = l THEN None ELSE r.holding],
            held)

\* Whoever awaited an answer on cs is told: a dial is made again, and a catch-up
\* is over, its error swallowed.
Told(f, cs) ==
  LET Awaits(l) == f.loop[l].conn \in cs
      Over(l) == Awaits(l) /\ f.loop[l].pc # "hello"
      Rejected(r, l) ==
        CaughtUp([r EXCEPT !.broken = r.broken \/ f.loop[l].pc = "catchUp"],
                 l, f.loop[l].held)
      g == [f EXCEPT
              !.loop = [l \in Loop |->
                CASE Over(l) -> IdleLoop
                  [] Awaits(l) /\ ~Over(l) ->
                       [@[l] EXCEPT !.pc = "dial", !.conn = None]
                  [] OTHER -> @[l]],
              !.entry = [e \in Entry |->
                IF \E l \in Loop : l[1] = e /\ Over(l)
                THEN Rejected(f.entry[e],
                              CHOOSE l \in Loop : l[1] = e /\ Over(l))
                ELSE @[e]]]
  IN  IF \E l \in Loop : Over(l) /\ f.loop[l].window
      THEN AfterUpdate(g, FALSE) ELSE g

\* Mutant: whoever awaited an answer is told, and the handlers stay.
OnlyTold(f, cs) == Told(f, cs)

\* Nobody refers to cs any more but as to connections that are closed.
Unwired(f, cs) ==
  [f EXCEPT !.wired = @ \ cs,
            !.entry = [e \in Entry |->
              IF f.entry[e].conn \in cs THEN [@[e] EXCEPT !.conn = None]
              ELSE @[e]]]

\* cs, at most one of an entry, are closed.
Gone(f, cs) == Unwired(Told(f, cs), cs)

\* The host would not stop, or did not answer: the marks are taken away.
Unmarked(f) == SetUpdating(f, Marked, FALSE)

\* onClosed; it stands down while the entry is updating.  `deaf` is set for the
\* properties when nobody is left to dial a link that closed while a restart was
\* being asked for.
OnClosed(f, e) ==
  CASE f.entry[e].updating ->
         [f EXCEPT !.entry[e].deaf = /\ update.pc = "asking"
                                     /\ f.entry[e].link = "connected"]
    [] OTHER -> IF f.listed[Of(e)] = None THEN f ELSE Reconnect(f, e)

\* die and handleClose, for the end of c or for the disconnect of a workspace
\* that is `detached`: the handlers run at once, then what detach does next, then
\* the rejections.
Closing(c, detached) ==
  LET Asking == update.pc = "asking" /\ update.conn = c
      Redialled == \E l \in Loop : /\ fleet.loop[l].conn = c
                                   /\ fleet.loop[l].window
                                   /\ fleet.loop[l].pc # "hello"
  IN  /\ update' = IF Asking \/ Redialled THEN NoUpdate ELSE update
      /\ conn' = [conn EXCEPT ![c] = Unused]
      /\ \E f \in {IF c \in fleet.wired THEN OnClosed(fleet, c[1]) ELSE fleet} :
           \E g \in {IF detached THEN Forget(f, To(c)) ELSE f} :
             \E h \in {Gone(g, {c})} :
               fleet' = IF Asking THEN Reconnect(Unmarked(h), update.entry)
                        ELSE h

\* The client hears that a connection is lost, after what came before that.
Closed(c) ==
  /\ conn[c].at = "cut" /\ conn[c].inbox = <<>>
  /\ UNCHANGED <<log, loaded, host, faults>>
  /\ Closing(c, FALSE)

----------------------------------------------------------------------------
(* The host                                                                *)

\* Bound: what is appended before anybody has attached, or when an entry has
\* been dialled twice, is not followed.
IsFollowed(w) == /\ fleet.made[w] > 0
                 /\ \A e \in Entry : Of(e) = w => ~fleet.entry[e].twice

\* A session appends an event: it is in the log, and pushed to every client of
\* its workspace.
Appends(w) ==
  /\ host # "down" /\ w \in loaded
  /\ log[w] < LogLimit[w] /\ IsFollowed(w)
  /\ log' = [log EXCEPT ![w] = @ + 1]
  /\ conn' = [c \in Conns |->
       IF Open(c) /\ To(c) = w
       THEN [conn[c] EXCEPT !.inbox = Append(@, [t |-> "event",
                                                 n |-> log[w] + 1])]
       ELSE conn[c]]
  /\ UNCHANGED <<loaded, host, fleet, update, faults>>

\* Somebody opens a session that this host process has not loaded.
Resumes(w) ==
  /\ host = "up" /\ w \in Sessions \ loaded
  /\ loaded' = loaded \cup {w}
  /\ UNCHANGED <<log, host, conn, fleet, update, faults>>

\* session.events: the log is read, if the session is loaded ...
Reads(c) ==
  /\ Open(c)
  /\ \E m \in conn[c].asked :
       /\ m.t = "read"
       /\ conn' = [conn EXCEPT ![c].asked =
            (@ \ {m}) \cup {IF To(c) \in loaded
                            THEN [t |-> "found", from |-> m.from,
                                  upto |-> log[To(c)]]
                            ELSE [t |-> "unknown"]}]
  /\ UNCHANGED <<log, loaded, host, fleet, update, faults>>

\* ... and what was found is posted, maybe after events that came later.
Replies(c) ==
  /\ Open(c)
  /\ \E m \in conn[c].asked :
       /\ m.t \in {"found", "unknown"}
       /\ conn' = [Send(conn, c, m) EXCEPT ![c].asked = @ \ {m}]
  /\ UNCHANGED <<log, loaded, host, fleet, update, faults>>

\* `shutdown`: refused while work is running, or agreed to.
AnswersShutdown(c) ==
  /\ Open(c)
  /\ \E m \in conn[c].asked, yes \in BOOLEAN :
       /\ m.t = "shutdown"
       /\ conn' = [Send(conn, c, [t |-> "stopping", yes |-> yes])
                     EXCEPT ![c].asked = @ \ {m}]
       /\ host' = IF yes THEN "leaving" ELSE host
  /\ UNCHANGED <<log, loaded, fleet, update, faults>>

\* Another client asks for the shutdown, or the machine does.
AgreesToLeave ==
  /\ Fault
  /\ host = "up"
  /\ host' = "leaving"
  /\ UNCHANGED <<log, loaded, conn, fleet, update>>

\* stop(): every client is told and dropped, and the process ends.
Leaves ==
  /\ host = "leaving"
  /\ host' = "down"
  /\ loaded' = {}
  /\ conn' = [c \in Conns |->
       IF Open(c)
       THEN [conn[c] EXCEPT !.at = "cut", !.asked = {},
                            !.inbox = Append(@, [t |-> "closing"])]
       ELSE conn[c]]
  /\ UNCHANGED <<log, fleet, update, faults>>

Dies ==
  /\ Fault
  /\ host # "down"
  /\ host' = "down"
  /\ loaded' = {}
  /\ conn' = [c \in Conns |-> IF Open(c) THEN Cut(conn, c)[c] ELSE conn[c]]
  /\ UNCHANGED <<log, fleet, update>>

Drops(c) ==
  /\ Fault
  /\ Open(c)
  /\ conn' = Cut(conn, c)
  /\ UNCHANGED <<log, loaded, host, fleet, update>>

----------------------------------------------------------------------------
(* attach, detach                                                          *)

\* A host that is down is started by whoever dials; one that leaves refuses.
\* The first welcome has been read, and whatever came in one piece with it.
Attach(w) ==
  LET e == <<w, fleet.made[w] + 1>>
      c == Fresh(e)
  IN  /\ fleet.listed[w] = None
      /\ fleet.made[w] < MaxAttaches[w]
      /\ host # "leaving" /\ Free(e) # {}
      /\ host' = "up"
      /\ conn' = [conn EXCEPT ![c] = [Unused EXCEPT !.at = "open"]]
      /\ fleet' = [fleet EXCEPT !.listed[w] = e,
                                !.made[w] = @ + 1,
                                !.entry[e].conn = c,
                                !.wired = @ \cup {c}]
      /\ UNCHANGED <<log, loaded, update, faults>>

\* The disconnect is heard as a close of a listed entry, and dialled again; then
\* the entry is forgotten and the dial with it.
Detach(w) ==
  LET c == fleet.entry[fleet.listed[w]].conn
  IN  /\ Fault
      /\ fleet.listed[w] # None
      /\ IF c = None
         THEN fleet' = Forget(fleet, w) /\ UNCHANGED <<conn, update>>
         ELSE Closing(c, TRUE)
      /\ UNCHANGED <<log, loaded, host>>

----------------------------------------------------------------------------
(* redial                                                                  *)

\* The loop's check, before it dials: cancelled, or the workspace not listed.
MustStop(l) == \/ fleet.loop[l].cancelled
               \/ fleet.listed[Of(l[1])] = None

Stops(l) ==
  /\ fleet.loop[l].pc = "dial" /\ MustStop(l)
  /\ UNCHANGED <<log, loaded, host, conn, faults>>
  /\ Returns(l, fleet, TRUE)

\* A host accepts the connection and binds it; its welcome is on the way.
Dials(l) ==
  LET c == Fresh(l[1])
  IN  /\ fleet.loop[l].pc = "dial" /\ ~MustStop(l)
      /\ host # "leaving" /\ Free(l[1]) # {}
      /\ host' = "up"
      /\ conn' = [conn EXCEPT ![c] =
                    [Unused EXCEPT !.at = "open",
                                   !.inbox = <<[t |-> "welcome"]>>]]
      /\ fleet' = [fleet EXCEPT !.loop[l].pc = "hello", !.loop[l].conn = c]
      /\ UNCHANGED <<log, loaded, update, faults>>

\* A dial fails and the deadline has passed.
GivesUp(l) ==
  /\ fleet.loop[l].pc = "dial" /\ ~MustStop(l)
  /\ fleet.loop[l].window
  /\ Returns(l, fleet, TRUE)
  /\ UNCHANGED <<log, loaded, host, conn, faults>>

\* Another workspace answers at that location.
FindsAnother(l) ==
  /\ Fault
  /\ fleet.loop[l].pc = "dial" /\ ~MustStop(l)
  /\ Returns(l, Forget(fleet, Of(l[1])), TRUE)
  /\ UNCHANGED <<log, loaded, host, conn>>

\* Mutant: `updating` is left for updateHost to clear.
StillUpdating(f, e) == f.entry[e].updating

\* Before the handlers are wired, `updating` is cleared.
UpdatingOnceWired(f, e) == FALSE

\* The welcome is read: the handlers are wired, and what came in one piece with
\* it (the next k messages) was heard by nobody.  catchUp asks for what is
\* after the mark, for a session of which there is a mark.
Adopts(l) ==
  LET e == l[1]
      c == fleet.loop[l].conn
      mark == fleet.entry[e].seen
      Wired == [fleet.entry[e] EXCEPT !.updating = UpdatingOnceWired(fleet, e),
                                      !.holding = l, !.conn = c,
                                      !.link = "connected", !.stop = None,
                                      !.deaf = FALSE]
  IN  /\ fleet.loop[l].pc = "hello"
      /\ conn[c].inbox # <<>>
      /\ UNCHANGED <<log, loaded, host, update, faults>>
      /\ \E k \in 1..Len(conn[c].inbox) :
           conn' = [conn EXCEPT
             ![c].inbox = SubSeq(@, k + 1, Len(@)),
             ![c].asked = IF mark = 0 \/ ~Open(c) THEN @
                          ELSE @ \cup {[t |-> "read", from |-> mark]}]
      /\ fleet' = [fleet EXCEPT !.entry[e] = Wired,
                                !.wired = @ \cup {c},
                                !.loop[l].pc = IF mark = 0 THEN "finish"
                                               ELSE "catchUp"]

\* The rest of catchUp, the record and the open prompts, has been answered.
Finishes(l) ==
  /\ fleet.loop[l].pc = "finish"
  /\ Open(fleet.loop[l].conn)
  /\ UNCHANGED <<log, loaded, host, conn, faults>>
  /\ \E f \in {[fleet EXCEPT !.entry[l[1]] =
                              CaughtUp(@, l, fleet.loop[l].held)]} :
       Returns(l, f, FALSE)

----------------------------------------------------------------------------
(* updateHost                                                              *)

ListedEntries == {fleet.listed[w] : w \in Workspaces} \ {None}

\* The entry and its peers are marked before the host is asked.
AsksRestart(w) ==
  LET e == fleet.listed[w]
      c == fleet.entry[e].conn
  IN  /\ update.pc = "off"
      /\ e # None
      /\ Fault
      /\ IF c = None
         THEN \* the call rejects at once; nothing stays marked
              fleet' = Reconnect(SetUpdating(fleet, ListedEntries, FALSE), e)
              /\ UNCHANGED <<conn, update>>
         ELSE /\ fleet' = SetUpdating(fleet, ListedEntries, TRUE)
              /\ update' = [pc |-> "asking", entry |-> e,
                            peers |-> ListedEntries \ {e}, conn |-> c]
              /\ conn' = IF Open(c)
                         THEN [conn EXCEPT ![c].asked =
                                             @ \cup {[t |-> "shutdown"]}]
                         ELSE conn
      /\ UNCHANGED <<log, loaded, host>>

\* It agrees: the entry and its peers are cut off, and the entry is dialled.  f
\* and cs are what the client has and hears of once the answer is read.
RestartAgreed(f, cs) ==
  LET Cutoff == {f.entry[e].conn : e \in Marked} \ {None}
  IN  /\ update' = [update EXCEPT !.pc = "redialling"]
      /\ conn' = [c \in Conns |-> IF c \in Cutoff THEN Unused ELSE cs[c]]
      /\ \E g \in {StartRedial(Lost(f, Marked), {update.entry}, TRUE)} :
           fleet' = Gone(g, Cutoff)

----------------------------------------------------------------------------
(* HostConnection                                                          *)

\* catchUp has its answer: what was found is delivered, an error is swallowed.
CatchUpRead(f, c, m) ==
  LET l == CHOOSE x \in Loop : f.loop[x].conn = c /\ f.loop[x].pc = "catchUp"
      g == [f EXCEPT !.loop[l].pc = "finish"]
  IN  IF m.t = "unknown" THEN [g EXCEPT !.entry[l[1]].broken = TRUE]
      ELSE Deliver(g, l[1], (m.from + 1)..m.upto)

\* What c hears, other than the answers to a hello and to a shutdown.
Heard(f, c, m) ==
  LET e == c[1]
      Wired == c \in f.wired
  IN  CASE m.t \in {"found", "unknown"} -> CatchUpRead(f, c, m)
        [] m.t = "event" -> IF Wired THEN OnEvent(f, e, m.n) ELSE f
        [] m.t = "closing" -> IF Wired /\ ~f.entry[e].updating
                              THEN Forget(f, Of(e)) ELSE f

Hears(c) ==
  /\ conn[c].inbox # <<>>
  /\ Head(conn[c].inbox).t \notin {"welcome", "stopping"}
  /\ UNCHANGED <<log, loaded, host, update, faults>>
  /\ conn' = [conn EXCEPT ![c].inbox = Tail(@)]
  /\ fleet' = Heard(fleet, c, Head(conn[c].inbox))

\* updateHost has its answer, after what came in one piece with it was heard
\* (bound: at most the next message, k = 2).
HearsShutdown(c) ==
  LET in == conn[c].inbox
  IN  /\ in # <<>>
      /\ Head(in).t = "stopping"
      /\ UNCHANGED <<log, loaded, host, faults>>
      /\ \E k \in 1..Min({2, Len(in)}) :
           \E f \in {IF k = 1 THEN fleet ELSE Heard(fleet, c, in[2])},
              cs \in {[conn EXCEPT ![c].inbox = SubSeq(@, k + 1, Len(@))]} :
             IF Head(in).yes THEN RestartAgreed(f, cs)
             ELSE update' = NoUpdate /\ conn' = cs /\ fleet' = Unmarked(f)

----------------------------------------------------------------------------
\* The connections and the calls of redial that there are.
InUse   == {c \in Conns : conn[c].at # "unused"}
Running == {l \in Loop : fleet.loop[l].pc # "off"}

HostAnswers == \/ Leaves
               \/ \E c \in InUse : Reads(c) \/ Replies(c) \/ AnswersShutdown(c)

ClientHears == \E c \in InUse : Hears(c) \/ HearsShutdown(c) \/ Closed(c)

Redials == \E l \in Running : Stops(l) \/ Dials(l) \/ Adopts(l) \/ Finishes(l)

\* What people, clocks and the machine decide.
Environment ==
  \/ \E w \in Workspaces : \/ Appends(w) \/ Resumes(w)
                           \/ Attach(w) \/ Detach(w) \/ AsksRestart(w)
  \/ \E l \in Running : GivesUp(l) \/ FindsAnother(l)
  \/ \E c \in InUse : Drops(c)
  \/ AgreesToLeave \/ Dies

Next == HostAnswers \/ ClientHears \/ Redials \/ Environment

\* While anything is owed, something owed is done: an agreed stop happens and a
\* request is answered; a message that was sent is read; and a redial never gives
\* up: one day a host answers.
Fairness == WF_vars(HostAnswers \/ ClientHears \/ Redials)

Spec == Init /\ [][Next]_vars /\ Fairness

----------------------------------------------------------------------------
EntryRecords == [link : {"connected", "reconnecting"}, seen : Nat,
                 missed : BOOLEAN, updating : BOOLEAN,
                 holding : Loop \cup {None}, conn : Conns \cup {None},
                 stop : Loop \cup {None}, broken : BOOLEAN,
                 deaf : BOOLEAN, twice : BOOLEAN]
LoopRecords == [pc : {"off", "dial", "hello", "catchUp", "finish"},
                cancelled : BOOLEAN, window : BOOLEAN,
                conn : Conns \cup {None}, held : SUBSET Nat]

\* The values of each variable; only a connection that is alive is wired.
TypeOK ==
  /\ \A w \in Workspaces : log[w] \in 0..LogLimit[w]
  /\ loaded \subseteq Sessions
  /\ host \in {"up", "leaving", "down"}
  /\ \A c \in Conns : /\ conn[c].at \in {"unused", "open", "cut"}
                      /\ conn[c].at = "unused" => c \notin fleet.wired
  /\ \A w \in Workspaces : fleet.listed[w] \in Entry \cup {None}
  /\ \A e \in Entry : fleet.entry[e] \in EntryRecords
  /\ \A l \in Loop : fleet.loop[l] \in LoopRecords
  /\ update.pc \in {"off", "asking", "redialling"}
  /\ faults \in 0..MaxFaults

\* "asking for everything after the last one seen loses nothing": what an entry
\* has delivered has no hole, whatever was pushed, read or dropped in between.
\* A hole takes a catch-up that failed: its read was refused or cut off, the
\* failure is swallowed, and the next live event moves the mark past what was
\* never read.
NothingLost ==
  \A e \in Entry : fleet.entry[e].missed =>
                   fleet.entry[e].broken \/ fleet.entry[e].twice

\* "connected" is never said of a connection that is gone: while an entry says
\* so and no restart is being asked for, it is wired to a connection whose end
\* it will hear of.  Only a peer whose link closed while a restart was asked
\* for, and then refused, is left deaf.
ConnectedIsWatched ==
  \A w \in Workspaces :
    LET e == fleet.listed[w]
    IN  e # None =>
          LET r == fleet.entry[e]
          IN  r.link = "connected" /\ ~r.updating /\ ~r.deaf =>
                r.conn # None /\ r.conn \in fleet.wired

\* A lost workspace comes back, as often as faults take it away: once they stop,
\* whatever is still attached is connected and has delivered all that its session
\* appended since it was first heard of, unless a catch-up of it failed or it was
\* left deaf or dialled twice.
ComesBack ==
  <>[](\A w \in Workspaces :
         LET e == fleet.listed[w]
         IN  e # None =>
               /\ fleet.entry[e].link = "connected"
               /\ ~fleet.entry[e].updating
               /\ \/ fleet.entry[e].seen \in {0, log[w]}
                  \/ fleet.entry[e].broken \/ fleet.entry[e].deaf
                  \/ fleet.entry[e].twice)
=============================================================================
