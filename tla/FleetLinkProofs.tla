-------------------------- MODULE FleetLinkProofs --------------------------
(***************************************************************************)
(* The client of a machine, for any number of workspaces, events, entries, *)
(* connections and faults: its types, that what it delivers of a session   *)
(* has no hole, and that a workspace said to be connected is listened to.  *)
(*                                                                         *)
(* The operators of FleetLink take a value of `fleet` to the next, and a   *)
(* step chains several of them: what closes a connection calls the         *)
(* handlers, forgets, rejects and dials.  So the invariants are predicates *)
(* of such a value f, of the connections cs and of the update u, and are   *)
(* shown to survive each operator.  Between two of them some connections   *)
(* (the set G) are closed already for one part of the client and not for   *)
(* the other; the invariants that mind have G as a parameter.              *)
(***************************************************************************)
EXTENDS FleetLink, FiniteSetTheorems, SequenceTheorems, TLAPS

----------------------------------------------------------------------------
(* The values of the variables                                             *)

Asks == [t : {"read"}, from : Nat] \cup [t : {"found"}, from : Nat, upto : Nat]
        \cup [t : {"unknown"}] \cup [t : {"shutdown"}]
Messages == [t : {"welcome"}] \cup [t : {"event"}, n : Nat]
            \cup [t : {"found"}, from : Nat, upto : Nat] \cup [t : {"unknown"}]
            \cup [t : {"stopping"}, yes : BOOLEAN] \cup [t : {"closing"}]
ConnRecords == [at : {"unused", "open", "cut"}, inbox : Seq(Messages),
                asked : SUBSET Asks]
Fleets == [listed : [Workspaces -> Entry \cup {None}],
           made   : [Workspaces -> Nat],
           entry  : [Entry -> EntryRecords],
           wired  : SUBSET Conns,
           loop   : [Loop -> LoopRecords]]
Updates == {NoUpdate} \cup [pc : {"asking", "redialling"}, entry : Entry,
                            peers : SUBSET Entry, conn : Conns]

Shapes == /\ log \in [Workspaces -> Nat]
          /\ \A w \in Workspaces : log[w] <= LogLimit[w]
          /\ loaded \subseteq Sessions
          /\ host \in {"up", "leaving", "down"}
          /\ faults \in 0..MaxFaults

----------------------------------------------------------------------------
(* Entries, loops and connections                                          *)

Alive(cs, c) == cs[c].at # "unused"
Used(f, e) == e[2] <= f.made[Of(e)]

\* A redial that has no connection to catch up over yet, and one that has.
Dialling(f, l) == f.loop[l].pc \in {"dial", "hello"}
Reading(f, l) == f.loop[l].pc \in {"catchUp", "finish"}

\* A loop has a connection of its own entry from its hello on, which nobody
\* else uses before it is adopted; a loop that is off holds nothing.
LoopOwns(f, cs, l) ==
  LET r == f.loop[l]
  IN  /\ r.conn # None <=> r.pc \in {"hello", "catchUp", "finish"}
      /\ r.conn # None => r.conn[1] = l[1] /\ Alive(cs, r.conn)
      /\ r.pc \in {"off", "dial", "hello"} => r.held = {}
      /\ r.pc = "off" => ~r.window
      /\ r.pc = "hello" => r.conn \notin f.wired /\ f.entry[l[1]].conn # r.conn

\* An entry refers to its own connections and loops.
EntryOwns(f, cs, e) ==
  LET r == f.entry[e]
  IN  /\ r.conn # None => r.conn[1] = e /\ Alive(cs, r.conn)
      /\ r.holding # None => r.holding[1] = e /\ Reading(f, r.holding)

\* An entry that was not made yet.
Untouched(f, cs, e) ==
  /\ f.entry[e] = NewEntry
  /\ \A l \in Loop : l[1] = e => f.loop[l].pc = "off"
  /\ \A c \in Conns : c[1] = e => ~Alive(cs, c)

Owned(f, cs) ==
  /\ \A w \in Workspaces : f.listed[w] # None =>
       Of(f.listed[w]) = w /\ Used(f, f.listed[w])
  /\ \A e \in Entry : ~Used(f, e) => Untouched(f, cs, e)
  /\ \A c \in f.wired : Alive(cs, c)
  /\ \A e \in Entry : EntryOwns(f, cs, e)
  /\ \A l \in Loop : LoopOwns(f, cs, l)
  /\ \A l, m \in Loop :
       f.loop[l].conn = f.loop[m].conn /\ f.loop[l].conn # None => l = m

----------------------------------------------------------------------------
(* The update                                                              *)

MarkedBy(u) == u.peers \cup {u.entry}

\* At most one loop runs for the update, and is one of its entry.
Updated(f, cs, u) ==
  /\ u.pc # "off" => /\ u.entry \notin u.peers
                     /\ \A e \in MarkedBy(u) : Used(f, e)
  /\ u.pc = "asking" => u.conn[1] = u.entry /\ Alive(cs, u.conn)
  /\ \A l \in Loop :
       f.loop[l].window => u.pc = "redialling" /\ l[1] = u.entry
  /\ \A l, m \in Loop : f.loop[l].window /\ f.loop[m].window => l = m

\* Entries are marked for an update only, and are redialled once it is agreed
\* to; what is said to be connected is wired, updating or not.
EntryWatched(f, u, G, e) ==
  LET r == f.entry[e]
  IN  /\ r.updating => u.pc # "off" /\ e \in MarkedBy(u)
      /\ u.pc = "redialling" /\ r.updating => r.link = "reconnecting"
      /\ f.listed[Of(e)] = e /\ r.link = "connected" /\ ~r.deaf
           => r.conn # None /\ r.conn \in f.wired /\ r.conn \notin G

Watched(f, u, G) == \A e \in Entry : EntryWatched(f, u, G, e)

----------------------------------------------------------------------------
(* How many loops                                                          *)

One(b) == IF b THEN 1 ELSE 0

DialsOf(f, e) == {n \in 1..MaxLoops : Dialling(f, <<e, n>>)}

\* The update will start a loop of e, whatever else does.
Due(u, e) == \/ u.pc = "asking" /\ e \in MarkedBy(u)
             \/ u.pc = "redialling" /\ e \in u.peers

\* An entry that is not connected has one loop that dials, and each restart on
\* purpose may add one.
EntryCounted(f, u, n, e) ==
  Cardinality(DialsOf(f, e)) + One(f.entry[e].link = "connected")
    + One(Due(u, e)) <= 1 + n

Counted(f, u, n) == \A e \in Entry : EntryCounted(f, u, n, e)

----------------------------------------------------------------------------
(* Entries that were not dialled twice                                     *)

\* One loop at most is at work, over the only connection that is wired; and a
\* host that is asked to restart is asked over the connection that will be cut.
Single(f, u, G, e) ==
  LET r == f.entry[e]
  IN  /\ r.link = "reconnecting" => r.conn \in G \cup {None}
      /\ r.link = "connected" => \A l \in Loop : l[1] = e => ~Dialling(f, l)
      /\ \A l, m \in Loop :
           l[1] = e /\ m[1] = e /\ Dialling(f, l) /\ Dialling(f, m) => l = m
      /\ \A l \in Loop : l[1] = e /\ Reading(f, l) =>
           f.loop[l].conn = r.conn /\ r.holding = l
      /\ \A c \in f.wired : c[1] = e => c = r.conn
      /\ u.pc = "asking" /\ e = u.entry =>
           r.updating /\ r.link = "connected" /\ r.conn = u.conn

Singles(f, u, G) == \A e \in Entry : ~f.entry[e].twice => Single(f, u, G, e)

\* What the operators on fleets preserve.
FleetInv(f, cs, u, n, G) ==
  /\ f \in Fleets
  /\ Owned(f, cs)
  /\ Updated(f, cs, u)
  /\ Watched(f, u, G)
  /\ Counted(f, u, n)
  /\ Singles(f, u, G)

----------------------------------------------------------------------------
(* Messages                                                                *)

Answers == {"read", "found", "unknown"}
Asked(k) == {m \in k.asked : m.t \in Answers}
Answered(k) == {i \in DOMAIN k.inbox : k.inbox[i].t \in Answers}
Shutdowns(k) == {m \in k.asked : m.t = "shutdown"}
Stoppings(k) == {i \in DOMAIN k.inbox : k.inbox[i].t = "stopping"}
Welcomes(k) == {i \in DOMAIN k.inbox : k.inbox[i].t = "welcome"}

\* One connection: at most one request of each kind is under way, or its answer,
\* and a welcome is the first thing heard.
Tidy(k) ==
  /\ k.at = "unused" => k = Unused
  /\ k.at = "cut" => k.asked = {}
  /\ Welcomes(k) \subseteq {1}
  /\ \A m, o \in Asked(k) : m = o
  /\ \A i, j \in Answered(k) : i = j
  /\ Asked(k) = {} \/ Answered(k) = {}
  /\ \A i, j \in Stoppings(k) : i = j
  /\ Shutdowns(k) = {} \/ Stoppings(k) = {}

\* Somebody waits for the welcome and the answers that are under way ...
Expected(f, k, c) ==
  /\ Welcomes(k) # {} =>
       \E l \in Loop : f.loop[l].conn = c /\ f.loop[l].pc = "hello"
  /\ Asked(k) # {} \/ Answered(k) # {} =>
       \E l \in Loop : f.loop[l].conn = c /\ f.loop[l].pc = "catchUp"

Talk(f, cs) == \A c \in Conns : Tidy(cs[c]) /\ Expected(f, cs[c], c)

\* ... and the update for what the host is asked.
Restarting(k) == Shutdowns(k) # {} \/ Stoppings(k) # {}

HostAsked(cs, u) ==
  \A c \in Conns : Restarting(cs[c]) => u.pc = "asking" /\ u.conn = c

----------------------------------------------------------------------------
(* Events                                                                  *)

IsEvent(s, i, n) == s[i].t = "event" /\ s[i].n = n

\* The events in s follow each other without a gap, up to `top`.
InStream(s, top) ==
  /\ \A i \in DOMAIN s : s[i].t = "event" => s[i].n \in 1..top
  /\ \A i, j \in DOMAIN s :
       i < j /\ s[i].t = "event" /\ s[j].t = "event" =>
         /\ s[i].n < s[j].n
         /\ \E k \in (i + 1)..j : IsEvent(s, k, s[i].n + 1)

\* ... and reach it.
ToTheEnd(s, top) ==
  \A i \in DOMAIN s : s[i].t = "event" =>
    s[i].n = top \/ \E k \in (i + 1)..Len(s) : IsEvent(s, k, s[i].n + 1)

Streamed(cs, lg) ==
  \A c \in Conns : /\ InStream(cs[c].inbox, lg[To(c)])
                   /\ cs[c].at = "open" => ToTheEnd(cs[c].inbox, lg[To(c)])

\* What was read, heard and found is in the log.
Logged(f, cs, lg) ==
  /\ \A e \in Entry : f.entry[e].seen <= lg[Of(e)]
  /\ \A l \in Loop : f.loop[l].held \subseteq 1..lg[Of(l[1])]
  /\ \A c \in Conns :
       /\ \A i \in DOMAIN cs[c].inbox :
            cs[c].inbox[i].t = "found" => cs[c].inbox[i].upto <= lg[To(c)]
       /\ \A m \in cs[c].asked : m.t = "found" => m.upto <= lg[To(c)]

----------------------------------------------------------------------------
(* What is delivered                                                       *)

\* A set without a hole.
Convex(T) == \A a, b \in T : a..b \subseteq T

\* n is the next event that a connection will bring.
IsNext(k, top, n) ==
  \/ \E i \in DOMAIN k.inbox :
       /\ IsEvent(k.inbox, i, n)
       /\ \A j \in 1..(i - 1) : k.inbox[j].t # "event"
  \/ /\ k.at = "open" /\ \A i \in DOMAIN k.inbox : k.inbox[i].t # "event"
     /\ n = top + 1

\* m is a request to read, or what was found.
IsReading(k, m) ==
  /\ m.t \in {"read", "found"}
  /\ m \in k.asked \/ \E i \in DOMAIN k.inbox : k.inbox[i] = m

\* Once the loop has read, there is no hole before event n.
Covers(r, loop, k, n) ==
  IF loop.pc = "catchUp"
  THEN \A m : IsReading(k, m) /\ m.t = "found" => n <= m.upto + 1
  ELSE r.seen = 0 \/ n <= r.seen + 1

\* A loop that reads asks from the mark on; what it holds back has no hole, nor
\* is there one before it, or behind it.
LoopWhole(r, loop, k, top, wired) ==
  /\ Convex(loop.held)
  /\ loop.pc = "catchUp" => /\ r.seen > 0
                            /\ \A m : IsReading(k, m) => m.from = r.seen
  /\ loop.held # {} => \E n \in loop.held : Covers(r, loop, k, n)
  /\ wired => \A n \in Nat : IsNext(k, top, n) =>
       IF loop.held = {} THEN Covers(r, loop, k, n)
       ELSE n - 1 \in loop.held /\ \A h \in loop.held : h < n

Whole(f, cs, lg, e) ==
  LET r == f.entry[e]
  IN  /\ ~r.missed
      /\ r.conn # None /\ r.conn \in f.wired /\ r.holding = None =>
           \A n \in Nat : IsNext(cs[r.conn], lg[Of(e)], n) =>
             r.seen = 0 \/ n <= r.seen + 1
      /\ \A l \in Loop : l[1] = e /\ f.loop[l].conn # None /\ Reading(f, l) =>
           LoopWhole(r, f.loop[l], cs[f.loop[l].conn], lg[Of(e)],
                     f.loop[l].conn \in f.wired)

Wholes(f, cs, lg) ==
  \A e \in Entry :
    ~f.entry[e].twice /\ ~f.entry[e].broken => Whole(f, cs, lg, e)

\* What the connections and the log have to do with the client f ...
Data(f, cs, lg) == Talk(f, cs) /\ Logged(f, cs, lg) /\ Wholes(f, cs, lg)

\* ... and what is on the connections, whoever waits for it.
Wires(cs, u, lg) ==
  cs \in [Conns -> ConnRecords] /\ HostAsked(cs, u) /\ Streamed(cs, lg)

Core(f, cs, u, n, lg) == /\ u \in Updates
                         /\ FleetInv(f, cs, u, n, {})
                         /\ Data(f, cs, lg)
                         /\ Wires(cs, u, lg)

IInv == Shapes /\ Core(fleet, conn, update, faults, log)
----------------------------------------------------------------------------
(* Entries, loops, connections and records                                 *)

\* Of an entry, a loop and a connection: the parts they are made of.
LEMMA EntryParts ==
  ASSUME NEW e \in Entry
  PROVE  /\ Of(e) \in Workspaces /\ e[2] \in 1..MaxAttaches[Of(e)]
         /\ e[2] \in Nat /\ e = <<Of(e), e[2]>> /\ e # None
<1>1. PICK w \in Workspaces : e \in {w} \X (1..MaxAttaches[w])
  BY DEF Entry
<1>2. MaxAttaches[w] \in Nat
  BY <1>1, FleetAssumption
<1>. QED
  BY <1>1, <1>2, NoneAssumption DEF Of

LEMMA EntryIs ==
  ASSUME NEW w \in Workspaces, NEW k \in Nat, k > 0, k <= MaxAttaches[w]
  PROVE  <<w, k>> \in Entry /\ Of(<<w, k>>) = w /\ <<w, k>>[2] = k
<1>1. MaxAttaches[w] \in Nat
  BY FleetAssumption
<1>2. <<w, k>> \in {w} \X (1..MaxAttaches[w])
  BY <1>1
<1>. QED
  BY <1>2 DEF Entry, Of

LEMMA LoopParts ==
  ASSUME NEW l \in Loop
  PROVE  /\ l[1] \in Entry /\ l[2] \in 1..MaxLoops /\ l = <<l[1], l[2]>>
         /\ l # None
  BY NoneAssumption DEF Loop

LEMMA LoopIs ==
  ASSUME NEW e \in Entry, NEW k \in 1..MaxLoops
  PROVE  <<e, k>> \in Loop /\ <<e, k>>[1] = e /\ <<e, k>>[2] = k
  BY DEF Loop

LEMMA ConnParts ==
  ASSUME NEW c \in Conns
  PROVE  /\ c[1] \in Entry /\ c[2] \in 1..MaxConns /\ c = <<c[1], c[2]>>
         /\ c # None /\ To(c) = Of(c[1]) /\ To(c) \in Workspaces
  BY NoneAssumption, EntryParts DEF Conns, To

LEMMA ConnIs ==
  ASSUME NEW e \in Entry, NEW k \in 1..MaxConns
  PROVE  <<e, k>> \in Conns /\ <<e, k>>[1] = e /\ <<e, k>>[2] = k
  BY DEF Conns

LEMMA Bounds ==
  /\ MaxConns \in Nat \ {0} /\ MaxFaults \in Nat /\ MaxLoops \in Nat
  /\ MaxLoops > MaxConns + MaxFaults
  BY FleetAssumption

\* The parts of a fleet, and of its records.
LEMMA FleetParts ==
  ASSUME NEW f \in Fleets
  PROVE  /\ f.listed \in [Workspaces -> Entry \cup {None}]
         /\ f.made \in [Workspaces -> Nat]
         /\ f.entry \in [Entry -> EntryRecords]
         /\ f.wired \in SUBSET Conns
         /\ f.loop \in [Loop -> LoopRecords]
  BY DEF Fleets

LEMMA EntryTypes ==
  ASSUME NEW r \in EntryRecords
  PROVE  /\ r.link \in {"connected", "reconnecting"} /\ r.seen \in Nat
         /\ r.missed \in BOOLEAN /\ r.updating \in BOOLEAN
         /\ r.holding \in Loop \cup {None} /\ r.conn \in Conns \cup {None}
         /\ r.stop \in Loop \cup {None} /\ r.broken \in BOOLEAN
         /\ r.deaf \in BOOLEAN /\ r.twice \in BOOLEAN
  BY DEF EntryRecords

LEMMA LoopTypes ==
  ASSUME NEW r \in LoopRecords
  PROVE  /\ r.pc \in {"off", "dial", "hello", "catchUp", "finish"}
         /\ r.cancelled \in BOOLEAN /\ r.window \in BOOLEAN
         /\ r.conn \in Conns \cup {None} /\ r.held \in SUBSET Nat
  BY DEF LoopRecords

LEMMA FreshRecords ==
  /\ IdleLoop \in LoopRecords /\ NewEntry \in EntryRecords
  /\ IdleLoop.pc = "off" /\ ~IdleLoop.cancelled /\ ~IdleLoop.window
  /\ IdleLoop.conn = None /\ IdleLoop.held = {}
  /\ NewEntry.link = "connected" /\ NewEntry.seen = 0 /\ ~NewEntry.missed
  /\ ~NewEntry.updating /\ NewEntry.holding = None /\ NewEntry.conn = None
  /\ NewEntry.stop = None /\ ~NewEntry.broken /\ ~NewEntry.deaf
  /\ ~NewEntry.twice
  BY DEF IdleLoop, NewEntry, LoopRecords, EntryRecords

----------------------------------------------------------------------------
(* What each operator on fleets does                                       *)

\* What becomes of f when the entry listed for w is forgotten.
Forgotten(f, w, g) ==
  /\ g \in Fleets
  /\ g.made = f.made /\ g.entry = f.entry
  /\ g.listed = [f.listed EXCEPT ![w] = None]
  /\ g.wired = IF f.listed[w] = None THEN f.wired
               ELSE f.wired \ {f.entry[f.listed[w]].conn}
  /\ \A l \in Loop : /\ g.loop[l].pc = f.loop[l].pc
                     /\ g.loop[l].conn = f.loop[l].conn
                     /\ g.loop[l].window = f.loop[l].window
                     /\ g.loop[l].held = f.loop[l].held

LEMMA ForgetDoes ==
  ASSUME NEW f \in Fleets, NEW w \in Workspaces, NEW g, g = Forget(f, w)
  PROVE  Forgotten(f, w, g)
<1>0. /\ f.listed \in [Workspaces -> Entry \cup {None}]
      /\ f.made \in [Workspaces -> Nat]
      /\ f.entry \in [Entry -> EntryRecords]
      /\ f.wired \in SUBSET Conns
      /\ f.loop \in [Loop -> LoopRecords]
  BY FleetParts
<1>1. CASE f.listed[w] = None
  <2>1. g = f
    BY <1>1 DEF Forget
  <2>2. [f.listed EXCEPT ![w] = None] = f.listed
    BY <1>0, <1>1
  <2>. QED
    BY <1>1, <2>1, <2>2 DEF Forgotten
<1>2. CASE f.listed[w] # None
  <2>. DEFINE e == f.listed[w]
              h == StopLoop(f, e)
              l0 == f.entry[e].stop
  <2>1. e \in Entry /\ e # None
    BY <1>0, <1>2
  <2>2. l0 \in Loop \cup {None}
    BY <2>1, <1>0, EntryTypes
  <2>3. /\ h \in Fleets /\ h.made = f.made /\ h.entry = f.entry
        /\ h.listed = f.listed /\ h.wired = f.wired
        /\ \A l \in Loop : /\ h.loop[l].pc = f.loop[l].pc
                           /\ h.loop[l].conn = f.loop[l].conn
                           /\ h.loop[l].window = f.loop[l].window
                           /\ h.loop[l].held = f.loop[l].held
    <3>1. CASE l0 = None
      BY <3>1 DEF StopLoop
    <3>2. CASE l0 # None
      <4>0. h = [f EXCEPT !.loop[l0].cancelled = TRUE]
        BY <3>2 DEF StopLoop
      <4>. DEFINE lp == [f.loop EXCEPT ![l0] = [@ EXCEPT !.cancelled = TRUE]]
      <4>1. h = [f EXCEPT !.loop = lp]
        BY <4>0, <1>0, <2>2, <3>2, Zenon
      <4>2. [f.loop[l0] EXCEPT !.cancelled = TRUE] \in LoopRecords
        BY <1>0, <2>2, <3>2, Zenon DEF LoopRecords
      <4>3. lp \in [Loop -> LoopRecords]
        BY <4>2, <1>0, Zenon
      <4>4. \A l \in Loop : /\ lp[l].pc = f.loop[l].pc
                            /\ lp[l].conn = f.loop[l].conn
                            /\ lp[l].window = f.loop[l].window
                            /\ lp[l].held = f.loop[l].held
        BY <1>0, <2>2, <3>2 DEF LoopRecords
      <4>. HIDE DEF lp
      <4>5. h \in Fleets /\ h.loop = lp /\ h.made = f.made /\ h.entry = f.entry
            /\ h.listed = f.listed /\ h.wired = f.wired
        BY <4>1, <4>3, <1>0 DEF Fleets
      <4>. QED
        BY <4>4, <4>5
    <3>. QED
      BY <3>1, <3>2
  <2>4. g = [[h EXCEPT !.wired = @ \ {h.entry[e].conn}]
               EXCEPT !.listed[w] = None]
    BY <1>2 DEF Forget, Unlisten
  <2>. HIDE DEF h
  <2>. DEFINE ls == [f.listed EXCEPT ![w] = None]
              wi == f.wired \ {f.entry[e].conn}
  <2>5. ls \in [Workspaces -> Entry \cup {None}] /\ wi \in SUBSET Conns
    BY <1>0
  <2>6. g = [h EXCEPT !.wired = wi, !.listed = ls]
    BY <2>3, <2>4 DEF Fleets
  <2>. HIDE DEF ls, wi
  <2>7. /\ g \in Fleets /\ g.made = h.made /\ g.entry = h.entry
        /\ g.listed = ls /\ g.wired = wi /\ g.loop = h.loop
    BY <2>3, <2>5, <2>6 DEF Fleets
  <2>. QED
    BY <1>2, <2>3, <2>7 DEF ls, wi, Forgotten
<1>. QED
  BY <1>1, <1>2

\* What becomes of f when each entry of es is dialled.
Started(f, es, window, g) ==
  /\ g \in Fleets
  /\ g.made = f.made /\ g.listed = f.listed /\ g.wired = f.wired
  /\ \A e \in Entry : /\ g.entry[e].link = f.entry[e].link
                      /\ g.entry[e].seen = f.entry[e].seen
                      /\ g.entry[e].missed = f.entry[e].missed
                      /\ g.entry[e].updating = f.entry[e].updating
                      /\ g.entry[e].holding = f.entry[e].holding
                      /\ g.entry[e].conn = f.entry[e].conn
                      /\ g.entry[e].broken = f.entry[e].broken
                      /\ g.entry[e].deaf = f.entry[e].deaf
                      /\ g.entry[e].twice = f.entry[e].twice
                      /\ e \notin es => g.entry[e] = f.entry[e]
  /\ \A l \in Loop :
       IF l[1] \in es /\ l = Spare(f, l[1])
       THEN /\ g.loop[l].pc = "dial" /\ g.loop[l].window = window
            /\ g.loop[l].conn = None /\ g.loop[l].held = {}
       ELSE g.loop[l] = f.loop[l]

LEMMA StartRedialDoes ==
  ASSUME NEW f \in Fleets, NEW es \in SUBSET Entry, NEW window \in BOOLEAN,
         \A e \in es : Spare(f, e) \in Loop,
         NEW g, g = StartRedial(f, es, window)
  PROVE  Started(f, es, window, g)
<1>0. /\ f.listed \in [Workspaces -> Entry \cup {None}]
      /\ f.made \in [Workspaces -> Nat]
      /\ f.entry \in [Entry -> EntryRecords]
      /\ f.wired \in SUBSET Conns
      /\ f.loop \in [Loop -> LoopRecords]
  BY FleetParts
<1>. DEFINE new == [IdleLoop EXCEPT !.pc = "dial", !.window = window]
            lp == [l \in Loop |-> IF l[1] \in es /\ l = Spare(f, l[1])
                                  THEN new ELSE f.loop[l]]
            en == [e \in Entry |->
                     IF e \in es THEN [f.entry[e] EXCEPT !.stop = Spare(f, e)]
                     ELSE f.entry[e]]
<1>1. /\ new \in LoopRecords /\ new.pc = "dial" /\ new.window = window
      /\ new.conn = None /\ new.held = {}
  BY DEF IdleLoop, LoopRecords
<1>2. g = [f EXCEPT !.loop = lp, !.entry = en]
  BY DEF StartRedial
<1>. HIDE DEF new
<1>3. lp \in [Loop -> LoopRecords]
  BY <1>0, <1>1
<1>4. \A e \in Entry : /\ en[e] \in EntryRecords
                       /\ en[e].link = f.entry[e].link
                       /\ en[e].seen = f.entry[e].seen
                       /\ en[e].missed = f.entry[e].missed
                       /\ en[e].updating = f.entry[e].updating
                       /\ en[e].holding = f.entry[e].holding
                       /\ en[e].conn = f.entry[e].conn
                       /\ en[e].broken = f.entry[e].broken
                       /\ en[e].deaf = f.entry[e].deaf
                       /\ en[e].twice = f.entry[e].twice
                       /\ e \notin es => en[e] = f.entry[e]
  <2>. TAKE e \in Entry
  <2>1. CASE e \notin es
    BY <2>1, <1>0
  <2>2. CASE e \in es
    <3>. DEFINE r == f.entry[e]
                s == Spare(f, e)
    <3>1. r \in EntryRecords /\ s \in Loop
      BY <1>0, <2>2
    <3>2. en[e] = [r EXCEPT !.stop = s]
      BY <2>2
    <3>. HIDE DEF r, s, en
    <3>3. /\ en[e] \in EntryRecords
          /\ en[e].link = r.link /\ en[e].seen = r.seen
          /\ en[e].missed = r.missed /\ en[e].updating = r.updating
          /\ en[e].holding = r.holding /\ en[e].conn = r.conn
          /\ en[e].broken = r.broken /\ en[e].deaf = r.deaf
          /\ en[e].twice = r.twice
      BY <3>1, <3>2 DEF EntryRecords
    <3>. QED
      BY <3>3, <2>2 DEF r
  <2>. QED
    BY <2>1, <2>2
<1>5. en \in [Entry -> EntryRecords]
  BY <1>4
<1>6. \A l \in Loop : IF l[1] \in es /\ l = Spare(f, l[1])
                      THEN lp[l] = new ELSE lp[l] = f.loop[l]
  OBVIOUS
<1>. HIDE DEF en, lp
<1>7. /\ g \in Fleets /\ g.made = f.made /\ g.listed = f.listed
      /\ g.wired = f.wired /\ g.entry = en /\ g.loop = lp
  BY <1>2, <1>3, <1>5, <1>0 DEF Fleets
<1>. QED
  BY <1>1, <1>4, <1>6, <1>7 DEF Started

\* What becomes of f when the links of es are lost.
AllLost(f, es, g) ==
  /\ g \in Fleets
  /\ g.made = f.made /\ g.listed = f.listed /\ g.loop = f.loop
  /\ \A c : c \in g.wired <=> /\ c \in f.wired
                            /\ \A e \in es : c # f.entry[e].conn
  /\ \A e \in Entry \ es : g.entry[e] = f.entry[e]
  /\ \A e \in es : /\ g.entry[e].link = "reconnecting"
                   /\ g.entry[e].deaf = FALSE
  /\ \A e \in Entry : /\ g.entry[e].seen = f.entry[e].seen
                      /\ g.entry[e].missed = f.entry[e].missed
                      /\ g.entry[e].updating = f.entry[e].updating
                      /\ g.entry[e].holding = f.entry[e].holding
                      /\ g.entry[e].conn = f.entry[e].conn
                      /\ g.entry[e].broken = f.entry[e].broken
                      /\ g.entry[e].twice = f.entry[e].twice

LEMMA LostDoes ==
  ASSUME NEW f \in Fleets, NEW es \in SUBSET Entry, NEW g, g = Lost(f, es)
  PROVE  AllLost(f, es, g)
<1>0. /\ f.listed \in [Workspaces -> Entry \cup {None}]
      /\ f.made \in [Workspaces -> Nat]
      /\ f.entry \in [Entry -> EntryRecords]
      /\ f.wired \in SUBSET Conns
      /\ f.loop \in [Loop -> LoopRecords]
  BY FleetParts
<1>. DEFINE wi == f.wired \ {f.entry[e].conn : e \in es}
            en == [e \in Entry |->
                     IF e \in es
                     THEN [f.entry[e] EXCEPT !.link = "reconnecting",
                                             !.deaf = FALSE]
                     ELSE f.entry[e]]
<1>1. g = [f EXCEPT !.wired = wi, !.entry = en]
  BY DEF Lost
<1>2. wi \in SUBSET Conns
  BY <1>0
<1>3. \A e \in Entry : /\ en[e] \in EntryRecords
                       /\ en[e].seen = f.entry[e].seen
                       /\ en[e].missed = f.entry[e].missed
                       /\ en[e].updating = f.entry[e].updating
                       /\ en[e].holding = f.entry[e].holding
                       /\ en[e].conn = f.entry[e].conn
                       /\ en[e].broken = f.entry[e].broken
                       /\ en[e].twice = f.entry[e].twice
                       /\ e \notin es => en[e] = f.entry[e]
                       /\ e \in es => /\ en[e].link = "reconnecting"
                                      /\ en[e].deaf = FALSE
  <2>. TAKE e \in Entry
  <2>1. CASE e \notin es
    BY <2>1, <1>0
  <2>2. CASE e \in es
    <3>. DEFINE r == f.entry[e]
    <3>1. r \in EntryRecords
      BY <1>0
    <3>2. en[e] = [r EXCEPT !.link = "reconnecting", !.deaf = FALSE]
      BY <2>2
    <3>. HIDE DEF r, en
    <3>3. /\ en[e] \in EntryRecords
          /\ en[e].link = "reconnecting" /\ en[e].seen = r.seen
          /\ en[e].missed = r.missed /\ en[e].updating = r.updating
          /\ en[e].holding = r.holding /\ en[e].conn = r.conn
          /\ en[e].broken = r.broken /\ en[e].deaf = FALSE
          /\ en[e].twice = r.twice
      BY <3>1, <3>2 DEF EntryRecords
    <3>. QED
      BY <3>3, <2>2 DEF r
  <2>. QED
    BY <2>1, <2>2
<1>4. en \in [Entry -> EntryRecords]
  BY <1>3, Zenon
<1>. HIDE DEF wi, en
<1>5. /\ g \in Fleets /\ g.made = f.made /\ g.listed = f.listed
      /\ g.loop = f.loop /\ g.wired = wi /\ g.entry = en
  BY <1>0, <1>1, <1>2, <1>4 DEF Fleets
<1>. QED
  BY <1>3, <1>5 DEF wi, AllLost

\* What becomes of f when the marks of es are set or taken away.
MarksSet(f, es, yes, g) ==
  /\ g \in Fleets
  /\ g.made = f.made /\ g.listed = f.listed /\ g.loop = f.loop
  /\ g.wired = f.wired
  /\ \A e \in Entry :
       /\ g.entry[e].updating =
            IF e \in es THEN yes ELSE f.entry[e].updating
       /\ g.entry[e].link = f.entry[e].link
       /\ g.entry[e].seen = f.entry[e].seen
       /\ g.entry[e].missed = f.entry[e].missed
       /\ g.entry[e].holding = f.entry[e].holding
       /\ g.entry[e].conn = f.entry[e].conn
       /\ g.entry[e].broken = f.entry[e].broken
       /\ g.entry[e].deaf = f.entry[e].deaf
       /\ g.entry[e].twice = f.entry[e].twice
       /\ e \notin es \/ f.entry[e].updating = yes
            => g.entry[e] = f.entry[e]

LEMMA SetUpdatingDoes ==
  ASSUME NEW f \in Fleets, NEW es, NEW yes \in BOOLEAN,
         NEW g, g = SetUpdating(f, es, yes)
  PROVE  MarksSet(f, es, yes, g)
<1>0. /\ f.listed \in [Workspaces -> Entry \cup {None}]
      /\ f.made \in [Workspaces -> Nat]
      /\ f.entry \in [Entry -> EntryRecords]
      /\ f.wired \in SUBSET Conns
      /\ f.loop \in [Loop -> LoopRecords]
  BY FleetParts
<1>. DEFINE en == [e \in Entry |->
                     IF e \in es THEN [f.entry[e] EXCEPT !.updating = yes]
                     ELSE f.entry[e]]
<1>1. g = [f EXCEPT !.entry = en]
  BY DEF SetUpdating
<1>3. \A e \in Entry : /\ en[e] \in EntryRecords
                       /\ en[e].updating =
                            IF e \in es THEN yes ELSE f.entry[e].updating
                       /\ en[e].link = f.entry[e].link
                       /\ en[e].seen = f.entry[e].seen
                       /\ en[e].missed = f.entry[e].missed
                       /\ en[e].holding = f.entry[e].holding
                       /\ en[e].conn = f.entry[e].conn
                       /\ en[e].broken = f.entry[e].broken
                       /\ en[e].deaf = f.entry[e].deaf
                       /\ en[e].twice = f.entry[e].twice
                       /\ e \notin es \/ f.entry[e].updating = yes
                            => en[e] = f.entry[e]
  <2>. TAKE e \in Entry
  <2>1. CASE e \notin es
    BY <2>1, <1>0
  <2>2. CASE e \in es
    <3>. DEFINE r == f.entry[e]
    <3>1. r \in EntryRecords
      BY <1>0
    <3>2. en[e] = [r EXCEPT !.updating = yes]
      BY <2>2
    <3>. HIDE DEF r, en
    <3>3. /\ en[e] \in EntryRecords
          /\ en[e].link = r.link /\ en[e].seen = r.seen
          /\ en[e].missed = r.missed /\ en[e].updating = yes
          /\ en[e].holding = r.holding /\ en[e].conn = r.conn
          /\ en[e].broken = r.broken /\ en[e].deaf = r.deaf
          /\ en[e].twice = r.twice
      BY <3>1, <3>2 DEF EntryRecords
    <3>4. r.updating = yes => en[e] = r
      BY <3>1, <3>2 DEF EntryRecords
    <3>. QED
      BY <3>3, <3>4, <2>2 DEF r
  <2>. QED
    BY <2>1, <2>2
<1>4. en \in [Entry -> EntryRecords]
  BY <1>3
<1>. HIDE DEF en
<1>5. /\ g \in Fleets /\ g.made = f.made /\ g.listed = f.listed
      /\ g.loop = f.loop /\ g.wired = f.wired /\ g.entry = en
  BY <1>0, <1>1, <1>4 DEF Fleets
<1>. QED
  BY <1>3, <1>5 DEF MarksSet

----------------------------------------------------------------------------
(* Steps that leave loops and connections where they are                   *)

\* From f to g no loop or entry changes hands, nobody is listed or wired anew.
Calm(f, g) ==
  /\ g \in Fleets /\ g.made = f.made
  /\ \A w \in Workspaces : g.listed[w] \in {f.listed[w], None}
  /\ g.wired \subseteq f.wired
  /\ \A e \in Entry : /\ g.entry[e].conn = f.entry[e].conn
                      /\ g.entry[e].holding = f.entry[e].holding
                      /\ ~Used(f, e) => g.entry[e] = f.entry[e]
  /\ \A l \in Loop : /\ g.loop[l].conn = f.loop[l].conn
                     /\ g.loop[l].window = f.loop[l].window
                     /\ \/ g.loop[l].pc = f.loop[l].pc
                        \/ Reading(f, l) /\ Reading(g, l)
                     /\ \/ g.loop[l].held = f.loop[l].held
                        \/ Reading(f, l)

LEMMA CalmPhases ==
  ASSUME NEW f, NEW g, Calm(f, g), NEW l \in Loop
  PROVE  /\ Reading(g, l) <=> Reading(f, l)
         /\ Dialling(g, l) <=> Dialling(f, l)
         /\ \A p \in {"off", "dial", "hello"} :
              g.loop[l].pc = p <=> f.loop[l].pc = p
  BY DEF Calm, Reading, Dialling

LEMMA CalmOwned ==
  ASSUME NEW f, NEW g, NEW cs, Calm(f, g), Owned(f, cs)
  PROVE  Owned(g, cs)
<1>1. \A e \in Entry : Used(g, e) <=> Used(f, e)
  BY DEF Used, Calm
<1>2. \A w \in Workspaces : g.listed[w] # None =>
        Of(g.listed[w]) = w /\ Used(g, g.listed[w])
  BY DEF Calm, Owned, Used
<1>3. \A e \in Entry : ~Used(g, e) => Untouched(g, cs, e)
  BY <1>1, CalmPhases DEF Calm, Owned, Untouched
<1>4. \A c \in g.wired : Alive(cs, c)
  BY DEF Calm, Owned
<1>5. \A e \in Entry : EntryOwns(g, cs, e)
  <2>. TAKE e \in Entry
  <2>1. EntryOwns(f, cs, e) /\ f.entry[e].holding \in Loop \cup {None}
        /\ g.entry[e].conn = f.entry[e].conn
        /\ g.entry[e].holding = f.entry[e].holding
    <3>1. g.entry[e] \in EntryRecords
      BY FleetParts DEF Calm
    <3>. QED
      BY <3>1, EntryTypes DEF Calm, Owned
  <2>. QED
    BY <2>1, CalmPhases DEF EntryOwns
<1>6. \A l \in Loop : LoopOwns(g, cs, l)
  <2>. TAKE l \in Loop
  <2>1. LoopOwns(f, cs, l)
    BY DEF Owned
  <2>2. /\ g.loop[l].conn = f.loop[l].conn
        /\ g.loop[l].window = f.loop[l].window
        /\ \/ g.loop[l].pc = f.loop[l].pc
           \/ Reading(f, l) /\ Reading(g, l)
        /\ \/ g.loop[l].held = f.loop[l].held
           \/ Reading(f, l)
        /\ g.wired \subseteq f.wired
        /\ g.entry[l[1]].conn = f.entry[l[1]].conn
    BY LoopParts DEF Calm
  <2>. QED
    BY <2>1, <2>2 DEF LoopOwns, Reading
<1>7. \A l, m \in Loop :
        g.loop[l].conn = g.loop[m].conn /\ g.loop[l].conn # None => l = m
  BY DEF Calm, Owned
<1>. QED
  BY <1>2, <1>3, <1>4, <1>5, <1>6, <1>7 DEF Owned

LEMMA CalmUpdated ==
  ASSUME NEW f, NEW g, NEW cs, NEW u, Calm(f, g), Updated(f, cs, u)
  PROVE  Updated(g, cs, u)
  BY DEF Calm, Updated, Used

LEMMA CalmDials ==
  ASSUME NEW f, NEW g, Calm(f, g), NEW e \in Entry
  PROVE  DialsOf(g, e) = DialsOf(f, e)
  BY CalmPhases, LoopIs DEF DialsOf

\* A step that is calm, and keeps the links, keeps the invariants, if what is
\* said to be connected is still watched.
LEMMA CalmButWatched ==
  ASSUME NEW f, NEW g, NEW cs, NEW u, NEW n, NEW G, NEW H,
         FleetInv(f, cs, u, n, G), Calm(f, g), G \subseteq H,
         \A e \in Entry :
           /\ g.entry[e].link = f.entry[e].link
           /\ g.entry[e].updating = f.entry[e].updating
           /\ f.entry[e].twice => g.entry[e].twice,
         Watched(g, u, H)
  PROVE  FleetInv(g, cs, u, n, H)
<1>1. Counted(g, u, n)
  BY CalmDials DEF FleetInv, Counted, EntryCounted
<1>2. Singles(g, u, H)
  <2>. SUFFICES ASSUME NEW e \in Entry, ~g.entry[e].twice
                PROVE  Single(g, u, H, e)
    BY DEF Singles
  <2>1. Single(f, u, G, e)
    BY DEF FleetInv, Singles
  <2>2. /\ g.entry[e].conn = f.entry[e].conn
        /\ g.entry[e].holding = f.entry[e].holding
        /\ g.wired \subseteq f.wired
        /\ \A l \in Loop : g.loop[l].conn = f.loop[l].conn
    BY DEF Calm
  <2>. QED
    BY <2>1, <2>2, CalmPhases DEF Single
<1>. QED
  BY <1>1, <1>2, CalmOwned, CalmUpdated DEF FleetInv, Calm

LEMMA CalmInv ==
  ASSUME NEW f, NEW g, NEW cs, NEW u, NEW n, NEW G,
         FleetInv(f, cs, u, n, G), Calm(f, g),
         \A e \in Entry :
           /\ g.entry[e].link = f.entry[e].link
           /\ g.entry[e].updating = f.entry[e].updating
           /\ f.entry[e].deaf => g.entry[e].deaf
           /\ f.entry[e].twice => g.entry[e].twice
           /\ g.listed[Of(e)] = e /\ f.entry[e].conn \in f.wired
                => f.entry[e].conn \in g.wired
  PROVE  FleetInv(g, cs, u, n, G)
<1>1. Watched(g, u, G)
  <2>. SUFFICES ASSUME NEW e \in Entry PROVE EntryWatched(g, u, G, e)
    BY DEF Watched
  <2>1. EntryWatched(f, u, G, e)
    BY DEF FleetInv, Watched
  <2>2. g.listed[Of(e)] = e => f.listed[Of(e)] = e
    BY EntryParts DEF Calm
  <2>3. g.entry[e].conn = f.entry[e].conn
    BY DEF Calm
  <2>. QED
    BY <2>1, <2>2, <2>3 DEF EntryWatched
<1>. QED
  BY <1>1, CalmButWatched

\* An entry that has something was made.
LEMMA UsedWhen ==
  ASSUME NEW f \in Fleets, NEW cs, Owned(f, cs), NEW e \in Entry,
         \/ \E l \in Loop : l[1] = e /\ f.loop[l].pc # "off"
         \/ f.entry[e] # NewEntry
         \/ \E c \in Conns : c[1] = e /\ Alive(cs, c)
  PROVE  Used(f, e)
  BY DEF Owned, Untouched

\* The connection of an entry, and what is wired, has one entry.
LEMMA OwnConn ==
  ASSUME NEW f \in Fleets, NEW cs, Owned(f, cs), NEW e \in Entry,
         f.entry[e].conn # None
  PROVE  /\ f.entry[e].conn \in Conns /\ f.entry[e].conn[1] = e
         /\ Alive(cs, f.entry[e].conn)
<1>1. f.entry[e] \in EntryRecords
  BY FleetParts
<1>. QED
  BY <1>1, EntryTypes DEF Owned, EntryOwns

\* Forgetting an entry: nothing is said of it any more.
LEMMA ForgetCalm ==
  ASSUME NEW f \in Fleets, NEW w \in Workspaces, NEW g, g = Forget(f, w)
  PROVE  Calm(f, g)
<1>1. /\ f.listed \in [Workspaces -> Entry \cup {None}]
      /\ f.wired \in SUBSET Conns
  BY FleetParts
<1>2. Forgotten(f, w, g)
  BY ForgetDoes
<1>3. g.wired \subseteq f.wired
  BY <1>2 DEF Forgotten
<1>4. \A v \in Workspaces : g.listed[v] \in {f.listed[v], None}
  BY <1>1, <1>2 DEF Forgotten
<1>. QED
  BY <1>2, <1>3, <1>4 DEF Calm, Forgotten

LEMMA ForgetInv ==
  ASSUME NEW f, NEW cs, NEW u, NEW n, NEW G, FleetInv(f, cs, u, n, G),
         NEW w \in Workspaces, NEW g, g = Forget(f, w)
  PROVE  FleetInv(g, cs, u, n, G)
<1>1. f \in Fleets /\ Owned(f, cs)
  BY DEF FleetInv
<1>2. f.listed \in [Workspaces -> Entry \cup {None}]
  BY <1>1, FleetParts
<1>3. g.entry = f.entry /\ g.listed = [f.listed EXCEPT ![w] = None]
      /\ g.wired = IF f.listed[w] = None THEN f.wired
                   ELSE f.wired \ {f.entry[f.listed[w]].conn}
  <2>1. Forgotten(f, w, g)
    BY <1>1, ForgetDoes
  <2>. QED
    BY <2>1 DEF Forgotten
<1>4. ASSUME NEW e \in Entry, g.listed[Of(e)] = e, f.entry[e].conn \in f.wired
      PROVE  f.entry[e].conn \in g.wired
  <2>1. Of(e) # w /\ f.listed[Of(e)] = e
    BY <1>2, <1>3, <1>4, EntryParts
  <2>2. f.entry[e].conn # None
    BY <1>1, <1>4, FleetParts, ConnParts
  <2>3. f.listed[w] # None =>
          f.listed[w] \in Entry /\ f.listed[w] # e
    BY <1>1, <1>2, <2>1 DEF Owned
  <2>4. f.listed[w] # None =>
          f.entry[f.listed[w]].conn # f.entry[e].conn
    BY <1>1, <2>2, <2>3, OwnConn
  <2>. QED
    BY <1>3, <1>4, <2>4
<1>. QED
  BY <1>1, <1>3, <1>4, ForgetCalm, CalmInv

\* The invariants do not say who is deaf, nor who has been dialled twice.
LEMMA Ghosts ==
  ASSUME NEW f, NEW cs, NEW u, NEW n, NEW G, FleetInv(f, cs, u, n, G),
         NEW g \in Fleets,
         g.made = f.made, g.listed = f.listed, g.wired = f.wired,
         g.loop = f.loop,
         \A e \in Entry :
           /\ g.entry[e].link = f.entry[e].link
           /\ g.entry[e].updating = f.entry[e].updating
           /\ g.entry[e].conn = f.entry[e].conn
           /\ g.entry[e].holding = f.entry[e].holding
           /\ f.entry[e].deaf => g.entry[e].deaf
           /\ f.entry[e].twice => g.entry[e].twice
           /\ Used(f, e) \/ g.entry[e] = f.entry[e]
  PROVE  Calm(f, g) /\ FleetInv(g, cs, u, n, G)
<1>0. f.listed \in [Workspaces -> Entry \cup {None}]
  BY FleetParts DEF FleetInv
<1>1. Calm(f, g)
  BY <1>0 DEF Calm
<1>. QED
  BY <1>1, CalmInv

\* More connections may be closing if they are watched by nobody.
LEMMA Widen ==
  ASSUME NEW f, NEW cs, NEW u, NEW n, NEW G, NEW H, FleetInv(f, cs, u, n, G),
         G \subseteq H, Watched(f, u, H)
  PROVE  FleetInv(f, cs, u, n, H)
<1>1. Singles(f, u, H)
  BY DEF FleetInv, Singles, Single
<1>. QED
  BY <1>1 DEF FleetInv

LEMMA DialsFinite ==
  ASSUME NEW f, NEW e \in Entry
  PROVE  IsFiniteSet(DialsOf(f, e)) /\ Cardinality(DialsOf(f, e)) \in Nat
<1>1. DialsOf(f, e) \subseteq 1..MaxLoops
  BY DEF DialsOf
<1>2. IsFiniteSet(1..MaxLoops)
  BY Bounds, FS_Interval
<1>3. IsFiniteSet(DialsOf(f, e))
  BY <1>1, <1>2, FS_Subset
<1>. QED
  BY <1>3, FS_CardinalityType

\* Between the answer to a restart and what the client does next, the update
\* neither waits nor dials.
ToldOf(u) == [u EXCEPT !.pc = "told"]

LEMMA ToldInv ==
  ASSUME NEW f, NEW cs, NEW u \in Updates, NEW n \in Nat, NEW G,
         FleetInv(f, cs, u, n, G), u.pc = "asking"
  PROVE  /\ FleetInv(f, cs, ToldOf(u), n, G)
         /\ ToldOf(u).pc = "told" /\ ToldOf(u).entry = u.entry
         /\ ToldOf(u).peers = u.peers /\ MarkedBy(ToldOf(u)) = MarkedBy(u)
<1>. DEFINE v == ToldOf(u)
<1>1. /\ v.pc = "told" /\ v.entry = u.entry /\ v.peers = u.peers
      /\ v.conn = u.conn
  BY DEF Updates, NoUpdate, ToldOf
<1>. HIDE DEF v
<1>2. MarkedBy(v) = MarkedBy(u)
  BY <1>1 DEF MarkedBy
<1>3. Updated(f, cs, v)
  BY <1>1, <1>2 DEF FleetInv, Updated
<1>4. Watched(f, v, G)
  BY <1>1, <1>2 DEF FleetInv, Watched, EntryWatched
<1>5. Counted(f, v, n)
  <2>. SUFFICES ASSUME NEW e \in Entry PROVE EntryCounted(f, v, n, e)
    BY DEF Counted
  <2>1. EntryCounted(f, u, n, e)
    BY DEF FleetInv, Counted
  <2>2. Cardinality(DialsOf(f, e)) \in Nat
    BY DialsFinite
  <2>. QED
    BY <1>1, <2>1, <2>2 DEF EntryCounted, One, Due
<1>6. Singles(f, v, G)
  BY <1>1 DEF FleetInv, Singles, Single
<1>. QED
  BY <1>1, <1>2, <1>3, <1>4, <1>5, <1>6 DEF FleetInv, v

\* The links of es are lost: the connections that close are theirs.
LEMMA LostInv ==
  ASSUME NEW f, NEW cs, NEW u, NEW n \in Nat, NEW G, NEW H,
         FleetInv(f, cs, u, n, G),
         NEW es \in SUBSET Entry, \A e \in es : Used(f, e),
         G \subseteq H, \A c \in H \ G : c[1] \in es,
         u.pc = "asking" /\ u.entry \in es => f.entry[u.entry].twice,
         \A e \in es : ~f.entry[e].twice /\ f.entry[e].link = "connected" =>
                         f.entry[e].conn \in H \cup {None},
         NEW g, g = Lost(f, es)
  PROVE  Calm(f, g) /\ FleetInv(g, cs, u, n, H)
<1>1. f \in Fleets /\ Owned(f, cs)
  BY DEF FleetInv
<1>2. AllLost(f, es, g)
  BY <1>1, LostDoes
<1>3. Calm(f, g)
  <2>1. f.listed \in [Workspaces -> Entry \cup {None}]
    BY <1>1, FleetParts
  <2>. QED
    BY <1>2, <2>1 DEF Calm, AllLost
<1>4. Watched(g, u, H)
  <2>. SUFFICES ASSUME NEW e \in Entry PROVE EntryWatched(g, u, H, e)
    BY DEF Watched
  <2>1. EntryWatched(f, u, G, e)
    BY DEF FleetInv, Watched
  <2>2. CASE e \in es
    BY <1>2, <2>1, <2>2 DEF EntryWatched, AllLost
  <2>3. CASE e \notin es
    <3>1. f.entry[e].conn # None =>
            /\ \A d \in es : f.entry[e].conn # f.entry[d].conn
            /\ f.entry[e].conn \notin H \ G
      BY <1>1, <2>3, OwnConn
    <3>. QED
      BY <1>2, <2>1, <2>3, <3>1 DEF EntryWatched, AllLost
  <2>. QED
    BY <2>2, <2>3
<1>5. Counted(g, u, n)
  <2>. SUFFICES ASSUME NEW e \in Entry PROVE EntryCounted(g, u, n, e)
    BY DEF Counted
  <2>1. EntryCounted(f, u, n, e)
    BY DEF FleetInv, Counted
  <2>2. DialsOf(g, e) = DialsOf(f, e)
    BY <1>3, CalmDials
  <2>3. g.entry[e].link = "connected" => f.entry[e].link = "connected"
    BY <1>2 DEF AllLost
  <2>. QED
    BY <2>1, <2>2, <2>3, DialsFinite DEF EntryCounted, One
<1>6. Singles(g, u, H)
  <2>. SUFFICES ASSUME NEW e \in Entry, ~g.entry[e].twice
                PROVE  Single(g, u, H, e)
    BY DEF Singles
  <2>1. Single(f, u, G, e) /\ ~f.entry[e].twice
    BY <1>2 DEF FleetInv, Singles, AllLost
  <2>2. /\ g.loop = f.loop /\ g.wired \subseteq f.wired
        /\ g.entry[e].holding = f.entry[e].holding
        /\ g.entry[e].conn = f.entry[e].conn
        /\ g.entry[e].updating = f.entry[e].updating
    BY <1>2 DEF AllLost
  <2>3. g.entry[e].link = "reconnecting" => g.entry[e].conn \in H \cup {None}
    <3>1. CASE e \in es
      <4>1. f.entry[e].link \in {"connected", "reconnecting"}
        BY <1>1, FleetParts, EntryTypes
      <4>. QED
        BY <3>1, <4>1, <2>1, <2>2 DEF Single
    <3>2. CASE e \notin es
      BY <3>2, <1>2, <2>1 DEF Single, AllLost
    <3>. QED
      BY <3>1, <3>2
  <2>4. g.entry[e].link = "connected" => f.entry[e].link = "connected"
    BY <1>2 DEF AllLost
  <2>5. u.pc = "asking" /\ e = u.entry =>
          g.entry[e].link = "connected" /\ f.entry[e].link = "connected"
    BY <1>2, <2>1 DEF Single, AllLost
  <2>. QED
    BY <2>1, <2>2, <2>3, <2>4, <2>5 DEF Single, Dialling, Reading
<1>. QED
  BY <1>2, <1>3, <1>4, <1>5, <1>6, CalmOwned, CalmUpdated DEF FleetInv, AllLost

----------------------------------------------------------------------------
(* Marks                                                                   *)

LEMMA OneIs ==
  \A b : One(b) \in {0, 1} /\ (b => One(b) = 1) /\ (~b => One(b) = 0)
  BY DEF One

LEMMA OffTypes ==
  /\ NoUpdate.pc = "off" /\ NoUpdate.peers = {} /\ NoUpdate.entry = None
  /\ NoUpdate \in Updates
  BY DEF NoUpdate, Updates

\* The marks are taken away when no redial of the update is left.
LEMMA ClearMarksInv ==
  ASSUME NEW f, NEW cs, NEW u, NEW n \in Nat, NEW G,
         FleetInv(f, cs, u, n, G), u.pc # "off",
         \A l \in Loop : ~f.loop[l].window,
         NEW g, g = SetUpdating(f, MarkedBy(u), FALSE)
  PROVE  Calm(f, g) /\ FleetInv(g, cs, NoUpdate, n, G)
<1>1. f \in Fleets /\ Owned(f, cs)
  BY DEF FleetInv
<1>2. MarksSet(f, MarkedBy(u), FALSE, g)
  BY <1>1, SetUpdatingDoes
<1>3. \A e \in MarkedBy(u) : Used(f, e)
  BY DEF FleetInv, Updated
<1>4. Calm(f, g)
  <2>1. f.listed \in [Workspaces -> Entry \cup {None}]
    BY <1>1, FleetParts
  <2>. QED
    BY <1>2, <1>3, <2>1 DEF Calm, MarksSet
<1>5. Updated(g, cs, NoUpdate)
  BY <1>2, OffTypes DEF Updated, MarksSet
<1>6. Watched(g, NoUpdate, G)
  <2>. SUFFICES ASSUME NEW e \in Entry PROVE EntryWatched(g, NoUpdate, G, e)
    BY DEF Watched
  <2>1. EntryWatched(f, u, G, e)
    BY DEF FleetInv, Watched
  <2>2. ~g.entry[e].updating
    BY <1>2, <2>1 DEF EntryWatched, MarksSet
  <2>. QED
    BY <1>2, <2>1, <2>2, OffTypes DEF EntryWatched, MarksSet
<1>7. Counted(g, NoUpdate, n)
  <2>. SUFFICES ASSUME NEW e \in Entry PROVE EntryCounted(g, NoUpdate, n, e)
    BY DEF Counted
  <2>1. EntryCounted(f, u, n, e)
    BY DEF FleetInv, Counted
  <2>2. DialsOf(g, e) = DialsOf(f, e)
    BY <1>4, CalmDials
  <2>3. g.entry[e].link = f.entry[e].link
    BY <1>2 DEF MarksSet
  <2>4. ~Due(NoUpdate, e)
    BY OffTypes DEF Due
  <2>5. Cardinality(DialsOf(f, e)) \in Nat
    BY DialsFinite
  <2>. QED
    <3>. DEFINE d == Cardinality(DialsOf(f, e))
                p == One(f.entry[e].link = "connected")
                q == One(Due(u, e))
    <3>1. d + p + q <= 1 + n /\ d \in Nat
      BY <2>1, <2>5 DEF EntryCounted
    <3>2. p \in {0, 1} /\ q \in {0, 1} /\ One(Due(NoUpdate, e)) = 0
      BY <2>4, OneIs
    <3>. HIDE DEF d, p, q
    <3>3. d + p + 0 <= 1 + n
      BY <3>1, <3>2
    <3>. QED
      BY <2>2, <2>3, <3>2, <3>3 DEF EntryCounted, d, p
<1>8. Singles(g, NoUpdate, G)
  <2>. SUFFICES ASSUME NEW e \in Entry, ~g.entry[e].twice
                PROVE  Single(g, NoUpdate, G, e)
    BY DEF Singles
  <2>1. Single(f, u, G, e) /\ ~f.entry[e].twice
    BY <1>2 DEF FleetInv, Singles, MarksSet
  <2>2. /\ g.loop = f.loop /\ g.wired = f.wired
        /\ g.entry[e].holding = f.entry[e].holding
        /\ g.entry[e].conn = f.entry[e].conn
        /\ g.entry[e].link = f.entry[e].link
    BY <1>2 DEF MarksSet
  <2>. QED
    BY <2>1, <2>2, OffTypes DEF Single, Dialling, Reading
<1>. QED
  BY <1>2, <1>4, <1>5, <1>6, <1>7, <1>8, CalmOwned DEF FleetInv, MarksSet

\* One more fault is one more restart that may be asked for.
LEMMA MoreFaults ==
  ASSUME NEW f, NEW cs, NEW u, NEW n \in Nat, NEW G, FleetInv(f, cs, u, n, G)
  PROVE  FleetInv(f, cs, u, n + 1, G)
<1>1. ASSUME NEW e \in Entry PROVE EntryCounted(f, u, n + 1, e)
  <2>1. EntryCounted(f, u, n, e)
    BY DEF FleetInv, Counted
  <2>. QED
    BY <2>1, DialsFinite DEF EntryCounted, One
<1>. QED
  BY <1>1 DEF FleetInv, Counted

\* A restart is asked for: the entries listed are marked.
LEMMA SetMarksInv ==
  ASSUME NEW f, NEW cs, NEW n \in Nat, FleetInv(f, cs, NoUpdate, n, {}),
         NEW es \in SUBSET Entry, \A e \in es : Used(f, e),
         NEW u \in Updates, u.pc = "asking", MarkedBy(u) = es,
         u.entry \notin u.peers, u.conn = f.entry[u.entry].conn,
         NEW g, g = SetUpdating(f, es, TRUE)
  PROVE  Calm(f, g) /\ FleetInv(g, cs, u, n + 1, {})
<1>0. u.entry \in Entry /\ u.entry \in es /\ u.conn \in Conns
  BY OffTypes DEF Updates, MarkedBy
<1>1. f \in Fleets /\ Owned(f, cs)
  BY DEF FleetInv
<1>2. MarksSet(f, es, TRUE, g)
  BY <1>1, SetUpdatingDoes
<1>4. Calm(f, g)
  <2>1. f.listed \in [Workspaces -> Entry \cup {None}]
    BY <1>1, FleetParts
  <2>. QED
    BY <1>2, <2>1 DEF Calm, MarksSet
<1>5. Updated(g, cs, u)
  <2>1. g.made = f.made /\ g.loop = f.loop
    BY <1>2 DEF MarksSet
  <2>2. u.conn[1] = u.entry /\ Alive(cs, u.conn)
    BY <1>0, <1>1, OwnConn, ConnParts
  <2>3. \A l \in Loop : ~f.loop[l].window
    BY OffTypes DEF FleetInv, Updated
  <2>. QED
    BY <2>1, <2>2, <2>3 DEF Updated, Used
<1>6. Watched(g, u, {})
  <2>. SUFFICES ASSUME NEW e \in Entry PROVE EntryWatched(g, u, {}, e)
    BY DEF Watched
  <2>1. EntryWatched(f, NoUpdate, {}, e)
    BY DEF FleetInv, Watched
  <2>2. g.entry[e].updating => e \in es
    BY <1>2, <2>1, OffTypes DEF EntryWatched, MarksSet
  <2>. QED
    BY <1>2, <2>1, <2>2 DEF EntryWatched, MarksSet
<1>7. Counted(g, u, n + 1)
  <2>. SUFFICES ASSUME NEW e \in Entry PROVE EntryCounted(g, u, n + 1, e)
    BY DEF Counted
  <2>1. EntryCounted(f, NoUpdate, n, e)
    BY DEF FleetInv, Counted
  <2>2. DialsOf(g, e) = DialsOf(f, e)
    BY <1>4, CalmDials
  <2>3. g.entry[e].link = f.entry[e].link
    BY <1>2 DEF MarksSet
  <2>5. Cardinality(DialsOf(f, e)) \in Nat
    BY DialsFinite
  <2>6. ~Due(NoUpdate, e)
    BY OffTypes DEF Due
  <2>. QED
    <3>. DEFINE d == Cardinality(DialsOf(f, e))
                p == One(f.entry[e].link = "connected")
                q == One(Due(u, e))
    <3>1. d + p + One(Due(NoUpdate, e)) <= 1 + n /\ d \in Nat
      BY <2>1, <2>5 DEF EntryCounted
    <3>2. p \in {0, 1} /\ q \in {0, 1} /\ One(Due(NoUpdate, e)) = 0
      BY <2>6, OneIs
    <3>. HIDE DEF d, p, q
    <3>3. d + p + q <= 1 + (n + 1)
      BY <3>1, <3>2
    <3>. QED
      BY <2>2, <2>3, <3>3 DEF EntryCounted, d, p, q
<1>8. Singles(g, u, {})
  <2>. SUFFICES ASSUME NEW e \in Entry, ~g.entry[e].twice
                PROVE  Single(g, u, {}, e)
    BY DEF Singles
  <2>1. Single(f, NoUpdate, {}, e) /\ ~f.entry[e].twice
    BY <1>2 DEF FleetInv, Singles, MarksSet
  <2>2. /\ g.loop = f.loop /\ g.wired = f.wired
        /\ g.entry[e].holding = f.entry[e].holding
        /\ g.entry[e].conn = f.entry[e].conn
        /\ g.entry[e].link = f.entry[e].link
    BY <1>2 DEF MarksSet
  <2>3. f.entry[e].link \in {"connected", "reconnecting"}
    BY <1>1, FleetParts, EntryTypes
  <2>4. e = u.entry => /\ g.entry[e].updating /\ g.entry[e].conn = u.conn
                       /\ g.entry[e].link = "connected"
    <3>1. e = u.entry => g.entry[e].updating /\ g.entry[e].conn = u.conn
      <4>1. e = u.entry => g.entry[e].updating
        BY <1>0, <1>2, Zenon DEF MarksSet
      <4>. QED
        BY <1>0, <2>2, <4>1
    <3>2. u.conn # None
      BY <1>0, ConnParts
    <3>. QED
      BY <2>1, <2>2, <2>3, <3>1, <3>2 DEF Single
  <2>. QED
    BY <2>1, <2>2, <2>4 DEF Single, Dialling, Reading
<1>. QED
  BY <1>2, <1>4, <1>5, <1>6, <1>7, <1>8, CalmOwned DEF FleetInv, MarksSet

----------------------------------------------------------------------------
(* Redials                                                                 *)

\* There is a spare loop: those that dial are few, and those that read have a
\* connection each.
LEMMA SpareIs ==
  ASSUME NEW f \in Fleets, NEW cs, Owned(f, cs), NEW e \in Entry,
         Cardinality(DialsOf(f, e)) <= MaxFaults
  PROVE  /\ Spare(f, e) \in Loop /\ Spare(f, e)[1] = e
         /\ f.loop[Spare(f, e)].pc = "off"
<1>. DEFINE D == DialsOf(f, e)
            R == {k \in 1..MaxLoops : Reading(f, <<e, k>>)}
<1>1. IsFiniteSet(1..MaxLoops) /\ Cardinality(1..MaxLoops) = MaxLoops
  <2>1. 1 \in Int /\ MaxLoops \in Int /\ MaxLoops > 0
    BY Bounds
  <2>. QED
    BY <2>1, FS_Interval
<1>2. IsFiniteSet(1..MaxConns) /\ Cardinality(1..MaxConns) = MaxConns
  <2>1. 1 \in Int /\ MaxConns \in Int /\ MaxConns > 0
    BY Bounds
  <2>. QED
    BY <2>1, FS_Interval
<1>3. IsFiniteSet(R) /\ Cardinality(R) <= MaxConns
  <2>. DEFINE own == [k \in R |-> f.loop[<<e, k>>].conn[2]]
  <2>1. ASSUME NEW k \in R
        PROVE  /\ <<e, k>> \in Loop
               /\ f.loop[<<e, k>>].conn \in Conns
               /\ f.loop[<<e, k>>].conn[1] = e
               /\ f.loop[<<e, k>>].conn = <<e, own[k]>>
               /\ own[k] \in 1..MaxConns
    <3>1. <<e, k>> \in Loop /\ <<e, k>>[1] = e
      BY LoopIs
    <3>2. LoopOwns(f, cs, <<e, k>>)
      BY <3>1 DEF Owned
    <3>3. f.loop[<<e, k>>].conn \in Conns \cup {None}
      BY <3>1, FleetParts, LoopTypes
    <3>4. f.loop[<<e, k>>].conn \in Conns /\ f.loop[<<e, k>>].conn[1] = e
      BY <3>1, <3>2, <3>3 DEF LoopOwns, Reading
    <3>. QED
      BY <3>1, <3>4, ConnParts
  <2>2. \A i, k \in R : own[i] = own[k] => i = k
    <3>. TAKE i, k \in R
    <3>. HAVE own[i] = own[k]
    <3>1. f.loop[<<e, i>>].conn = f.loop[<<e, k>>].conn
          /\ f.loop[<<e, i>>].conn # None
      BY <2>1, ConnParts
    <3>2. <<e, i>> = <<e, k>>
      BY <2>1, <3>1 DEF Owned
    <3>. QED
      BY <3>2
  <2>3. own \in Injection(R, 1..MaxConns)
    <3>1. own \in [R -> 1..MaxConns]
      BY <2>1
    <3>. HIDE DEF own
    <3>. QED
      BY <2>2, <3>1 DEF Injection, IsInjective
  <2>. HIDE DEF R, own
  <2>. QED
    BY <2>3, <1>2, FS_Injection
<1>4. IsFiniteSet(D) /\ Cardinality(D) \in Nat
  BY DialsFinite
<1>5. Cardinality(D \cup R) < MaxLoops
  <2>. HIDE DEF D, R
  <2>1. Cardinality(R) \in Nat
    BY <1>3, FS_CardinalityType
  <2>2. Cardinality(D \cup R) <= Cardinality(D) + Cardinality(R)
    <3>1. IsFiniteSet(D \cap R) /\ Cardinality(D \cap R) \in Nat
      BY <1>4, FS_Intersection, FS_CardinalityType
    <3>2. Cardinality(D \cup R)
            = Cardinality(D) + Cardinality(R) - Cardinality(D \cap R)
      BY <1>3, <1>4, FS_Union
    <3>. QED
      BY <3>1, <3>2, <2>1, <1>4
  <2>3. IsFiniteSet(D \cup R) /\ Cardinality(D \cup R) \in Nat
    BY <1>3, <1>4, FS_Union, FS_CardinalityType
  <2>4. Cardinality(D) <= MaxFaults
    BY DEF D
  <2>. QED
    BY <1>3, <1>4, <2>1, <2>2, <2>3, <2>4, Bounds
<1>6. PICK k \in 1..MaxLoops : k \notin D \cup R
  <2>. HIDE DEF D, R
  <2>1. ASSUME D \cup R = 1..MaxLoops PROVE FALSE
    <3>1. MaxLoops < MaxLoops
      BY <1>1, <1>5, <2>1
    <3>. QED
      BY <3>1, Bounds
  <2>2. D \cup R \subseteq 1..MaxLoops
    BY DEF D, R, DialsOf
  <2>. QED
    BY <2>1, <2>2
<1>7. f.loop[<<e, k>>].pc = "off"
  <2>1. f.loop[<<e, k>>].pc \in {"off", "dial", "hello", "catchUp", "finish"}
    BY LoopIs, FleetParts, LoopTypes
  <2>. QED
    BY <1>6, <2>1 DEF DialsOf, Dialling, Reading
<1>. DEFINE m == CHOOSE j \in 1..MaxLoops : f.loop[<<e, j>>].pc = "off"
<1>8. m \in 1..MaxLoops /\ f.loop[<<e, m>>].pc = "off"
  BY <1>7
<1>9. Spare(f, e) = <<e, m>>
  BY DEF Spare
<1>. HIDE DEF m
<1>. QED
  BY <1>8, <1>9, LoopIs

\* A redial may be started for each entry of es: there is room for one more, and
\* it is not connected, or is dialled twice.
MayStart(f, u, n, es, window) ==
  /\ \A e \in es :
       /\ Used(f, e)
       /\ Cardinality(DialsOf(f, e)) + One(f.entry[e].link = "connected")
            + One(Due(u, e)) <= n
       /\ ~f.entry[e].twice =>
            /\ f.entry[e].link = "reconnecting"
            /\ \A l \in Loop : l[1] = e => ~Dialling(f, l)
  /\ window => /\ u.pc = "redialling" /\ es = {u.entry}
               /\ \A l \in Loop : ~f.loop[l].window

\* The loops they will get.
Spares(f, es) == \A e \in es : /\ Spare(f, e) \in Loop /\ Spare(f, e)[1] = e
                               /\ f.loop[Spare(f, e)].pc = "off"

LEMMA StartRedialInv ==
  ASSUME NEW f, NEW cs, NEW u, NEW n \in Nat, NEW G, n <= MaxFaults,
         FleetInv(f, cs, u, n, G),
         NEW es \in SUBSET Entry, NEW window \in BOOLEAN,
         MayStart(f, u, n, es, window),
         NEW g, g = StartRedial(f, es, window)
  PROVE  FleetInv(g, cs, u, n, G) /\ Started(f, es, window, g) /\ Spares(f, es)
<1>0. /\ \A e \in es :
           /\ Used(f, e)
           /\ Cardinality(DialsOf(f, e)) + One(f.entry[e].link = "connected")
                + One(Due(u, e)) <= n
           /\ ~f.entry[e].twice =>
                /\ f.entry[e].link = "reconnecting"
                /\ \A l \in Loop : l[1] = e => ~Dialling(f, l)
      /\ window => /\ u.pc = "redialling" /\ es = {u.entry}
                   /\ \A l \in Loop : ~f.loop[l].window
  BY DEF MayStart
<1>1. f \in Fleets /\ Owned(f, cs)
  BY DEF FleetInv
<1>2. \A e \in es : /\ Spare(f, e) \in Loop /\ Spare(f, e)[1] = e
                    /\ f.loop[Spare(f, e)].pc = "off"
  <2>. TAKE e \in es
  <2>1. Cardinality(DialsOf(f, e)) <= MaxFaults
    <3>. DEFINE d == Cardinality(DialsOf(f, e))
                p == One(f.entry[e].link = "connected")
                q == One(Due(u, e))
    <3>1. d \in Nat /\ p \in {0, 1} /\ q \in {0, 1} /\ d + p + q <= n
      BY <1>0, DialsFinite, OneIs
    <3>. HIDE DEF d, p, q
    <3>2. d <= MaxFaults
      BY <3>1, Bounds
    <3>. QED
      BY <3>2 DEF d
  <2>. QED
    BY <1>1, <2>1, SpareIs
<1>3. Started(f, es, window, g)
  BY <1>1, <1>2, StartRedialDoes
<1>4. g \in Fleets
  BY <1>3 DEF Started
\* The loops of g.
<1>5. ASSUME NEW l \in Loop
      PROVE  \/ /\ l[1] \in es /\ l = Spare(f, l[1])
                /\ f.loop[l].pc = "off" /\ g.loop[l].pc = "dial"
                /\ g.loop[l].window = window
                /\ g.loop[l].conn = None /\ g.loop[l].held = {}
             \/ /\ ~(l[1] \in es /\ l = Spare(f, l[1]))
                /\ g.loop[l] = f.loop[l]
  BY <1>2, <1>3 DEF Started
<1>6. \A l \in Loop : Reading(g, l) <=> Reading(f, l)
  BY <1>5 DEF Reading
<1>7. Owned(g, cs)
  <2>0. /\ g.made = f.made /\ g.listed = f.listed /\ g.wired = f.wired
        /\ \A e \in Entry : /\ g.entry[e].holding = f.entry[e].holding
                            /\ g.entry[e].conn = f.entry[e].conn
                            /\ e \notin es => g.entry[e] = f.entry[e]
    BY <1>3 DEF Started
  <2>1. \A w \in Workspaces : g.listed[w] # None =>
          Of(g.listed[w]) = w /\ Used(g, g.listed[w])
    BY <1>1, <2>0 DEF Owned, Used
  <2>2. \A e \in Entry : ~Used(g, e) => Untouched(g, cs, e)
    <3>. SUFFICES ASSUME NEW e \in Entry, ~Used(g, e) PROVE Untouched(g, cs, e)
      OBVIOUS
    <3>1. ~Used(f, e) /\ e \notin es
      BY <1>0, <2>0 DEF Used
    <3>2. Untouched(f, cs, e)
      BY <1>1, <3>1 DEF Owned
    <3>. QED
      BY <1>5, <2>0, <3>1, <3>2 DEF Untouched
  <2>3. \A c \in g.wired : Alive(cs, c)
    BY <1>1, <2>0 DEF Owned
  <2>4. \A e \in Entry : EntryOwns(g, cs, e)
    <3>. TAKE e \in Entry
    <3>1. EntryOwns(f, cs, e) /\ f.entry[e].holding \in Loop \cup {None}
      BY <1>1, FleetParts, EntryTypes DEF Owned
    <3>. QED
      BY <1>6, <2>0, <3>1 DEF EntryOwns
  <2>5. \A l \in Loop : LoopOwns(g, cs, l)
    <3>. TAKE l \in Loop
    <3>1. LoopOwns(f, cs, l)
      BY <1>1 DEF Owned
    <3>2. g.entry[l[1]].conn = f.entry[l[1]].conn
      BY <2>0, LoopParts
    <3>. QED
      BY <1>5, <2>0, <3>1, <3>2 DEF LoopOwns
  <2>6. \A l, m \in Loop :
          g.loop[l].conn = g.loop[m].conn /\ g.loop[l].conn # None => l = m
    <3>. TAKE l, m \in Loop
    <3>. HAVE g.loop[l].conn = g.loop[m].conn /\ g.loop[l].conn # None
    <3>1. g.loop[l] = f.loop[l] /\ g.loop[m] = f.loop[m]
      BY <1>5
    <3>. QED
      BY <1>1, <3>1 DEF Owned
  <2>. QED
    BY <2>1, <2>2, <2>3, <2>4, <2>5, <2>6 DEF Owned
<1>8. Updated(g, cs, u)
  <2>0. Updated(f, cs, u) /\ g.made = f.made
    BY <1>3 DEF FleetInv, Started
  <2>1. \A l \in Loop :
          g.loop[l].window => u.pc = "redialling" /\ l[1] = u.entry
    BY <1>0, <1>5, <2>0 DEF Updated
  <2>2. \A l, m \in Loop : g.loop[l].window /\ g.loop[m].window => l = m
    <3>1. CASE window
      <4>1. ASSUME NEW l \in Loop, g.loop[l].window
            PROVE  l = Spare(f, u.entry)
        <5>1. ~f.loop[l].window
          BY <1>0, <3>1
        <5>2. l[1] \in es /\ l = Spare(f, l[1])
          BY <1>5, <4>1, <5>1
        <5>. QED
          BY <1>0, <3>1, <5>2
      <4>. QED
        BY <4>1
    <3>2. CASE ~window
      BY <1>5, <2>0, <3>2 DEF Updated
    <3>. QED
      BY <3>1, <3>2
  <2>. QED
    BY <2>0, <2>1, <2>2 DEF Updated, Used
<1>9. Watched(g, u, G)
  BY <1>3 DEF FleetInv, Watched, EntryWatched, Started
<1>10. Counted(g, u, n)
  <2>. SUFFICES ASSUME NEW e \in Entry PROVE EntryCounted(g, u, n, e)
    BY DEF Counted
  <2>. DEFINE d == Cardinality(DialsOf(f, e))
              d2 == Cardinality(DialsOf(g, e))
              p == One(f.entry[e].link = "connected")
              q == One(Due(u, e))
  <2>1. d \in Nat /\ p \in {0, 1} /\ q \in {0, 1} /\ d + p + q <= 1 + n
    <3>1. EntryCounted(f, u, n, e)
      BY DEF FleetInv, Counted
    <3>. QED
      BY <3>1, DialsFinite, OneIs DEF EntryCounted
  <2>2. g.entry[e].link = f.entry[e].link
    BY <1>3 DEF Started
  <2>3. d2 + p + q <= 1 + n
    <3>1. CASE e \notin es
      <4>1. DialsOf(g, e) = DialsOf(f, e)
        BY <1>5, <3>1, LoopIs DEF DialsOf, Dialling
      <4>. QED
        BY <2>1, <4>1
    <3>2. CASE e \in es
      <4>. DEFINE k == Spare(f, e)[2]
      <4>1. k \in 1..MaxLoops /\ Spare(f, e) = <<e, k>>
        BY <1>2, <3>2, LoopParts
      <4>2. \A j \in 1..MaxLoops : Dialling(g, <<e, j>>) <=>
                                     Dialling(f, <<e, j>>) \/ j = k
        <5>. TAKE j \in 1..MaxLoops
        <5>1. <<e, j>> \in Loop /\ <<e, j>>[1] = e
          BY LoopIs
        <5>2. <<e, j>> = Spare(f, e) <=> j = k
          BY <4>1
        <5>3. CASE j = k
          BY <1>5, <5>1, <5>2, <5>3, <3>2 DEF Dialling
        <5>4. CASE j # k
          <6>1. g.loop[<<e, j>>] = f.loop[<<e, j>>]
            BY <1>5, <5>1, <5>2, <5>4
          <6>. QED
            BY <5>4, <6>1 DEF Dialling
        <5>. QED
          BY <5>3, <5>4
      <4>3. DialsOf(g, e) = DialsOf(f, e) \cup {k}
        BY <4>1, <4>2 DEF DialsOf
      <4>4. d2 <= d + 1
        <5>. HIDE DEF k
        <5>1. IsFiniteSet(DialsOf(f, e)) /\ d \in Nat
          BY DialsFinite
        <5>2. d2 = IF k \in DialsOf(f, e) THEN d ELSE d + 1
          BY <4>3, <5>1, FS_AddElement
        <5>. HIDE DEF d, d2
        <5>. QED
          BY <5>1, <5>2
      <4>5. d + p + q <= n
        BY <1>0, <3>2
      <4>6. d2 \in Nat
        BY DialsFinite
      <4>. HIDE DEF d, d2, p, q
      <4>. QED
        BY <2>1, <4>4, <4>5, <4>6
    <3>. QED
      BY <3>1, <3>2
  <2>. QED
    BY <2>2, <2>3 DEF EntryCounted
<1>11. Singles(g, u, G)
  <2>. SUFFICES ASSUME NEW e \in Entry, ~g.entry[e].twice
                PROVE  Single(g, u, G, e)
    BY DEF Singles
  <2>0. /\ g.wired = f.wired
        /\ g.entry[e].link = f.entry[e].link
        /\ g.entry[e].updating = f.entry[e].updating
        /\ g.entry[e].holding = f.entry[e].holding
        /\ g.entry[e].conn = f.entry[e].conn
        /\ g.entry[e].twice = f.entry[e].twice
    BY <1>3 DEF Started
  <2>1. Single(f, u, G, e)
    BY <2>0 DEF FleetInv, Singles
  <2>2. \A l \in Loop : l[1] = e /\ Dialling(g, l) =>
                          Dialling(f, l) \/ (e \in es /\ l = Spare(f, e))
    <3>. TAKE l \in Loop
    <3>. HAVE l[1] = e /\ Dialling(g, l)
    <3>1. CASE l[1] \in es /\ l = Spare(f, l[1])
      BY <3>1
    <3>2. CASE g.loop[l] = f.loop[l]
      BY <3>2 DEF Dialling
    <3>. QED
      BY <1>5, <3>1, <3>2
  <2>3. e \in es => /\ f.entry[e].link = "reconnecting"
                    /\ \A l \in Loop : l[1] = e => ~Dialling(f, l)
    BY <1>0, <2>0
  <2>4. \A l \in Loop : Reading(g, l) => g.loop[l] = f.loop[l]
    BY <1>5 DEF Reading
  <2>. QED
    BY <1>6, <2>0, <2>1, <2>2, <2>3, <2>4 DEF Single
<1>. QED
  BY <1>2, <1>3, <1>4, <1>7, <1>8, <1>9, <1>10, <1>11 DEF FleetInv, Spares

\* One record is replaced.
WithEntry(f, e, r) == [f EXCEPT !.entry = [f.entry EXCEPT ![e] = r]]
WithLoop(f, l, r) == [f EXCEPT !.loop = [f.loop EXCEPT ![l] = r]]

LEMMA PutEntry ==
  ASSUME NEW f \in Fleets, NEW e \in Entry, NEW r \in EntryRecords,
         NEW g, g = WithEntry(f, e, r)
  PROVE  /\ g \in Fleets /\ g.made = f.made /\ g.listed = f.listed
         /\ g.wired = f.wired /\ g.loop = f.loop /\ g.entry[e] = r
         /\ \A x \in Entry : x # e => g.entry[x] = f.entry[x]
<1>1. f.entry \in [Entry -> EntryRecords]
  BY FleetParts
<1>. DEFINE en == [f.entry EXCEPT ![e] = r]
<1>2. g = [f EXCEPT !.entry = en]
  BY DEF WithEntry
<1>3. /\ en \in [Entry -> EntryRecords] /\ en[e] = r
      /\ \A x \in Entry : x # e => en[x] = f.entry[x]
  BY <1>1
<1>. HIDE DEF en
<1>4. /\ g \in Fleets /\ g.made = f.made /\ g.listed = f.listed
      /\ g.wired = f.wired /\ g.loop = f.loop /\ g.entry = en
  BY <1>2, <1>3 DEF Fleets
<1>. QED
  BY <1>3, <1>4

LEMMA PutLoop ==
  ASSUME NEW f \in Fleets, NEW l \in Loop, NEW r \in LoopRecords,
         NEW g, g = WithLoop(f, l, r)
  PROVE  /\ g \in Fleets /\ g.made = f.made /\ g.listed = f.listed
         /\ g.wired = f.wired /\ g.entry = f.entry /\ g.loop[l] = r
         /\ \A m \in Loop : m # l => g.loop[m] = f.loop[m]
<1>1. f.loop \in [Loop -> LoopRecords]
  BY FleetParts
<1>. DEFINE lp == [f.loop EXCEPT ![l] = r]
<1>2. g = [f EXCEPT !.loop = lp]
  BY DEF WithLoop
<1>3. /\ lp \in [Loop -> LoopRecords] /\ lp[l] = r
      /\ \A m \in Loop : m # l => lp[m] = f.loop[m]
  BY <1>1
<1>. HIDE DEF lp
<1>4. /\ g \in Fleets /\ g.made = f.made /\ g.listed = f.listed
      /\ g.wired = f.wired /\ g.entry = f.entry /\ g.loop = lp
  BY <1>2, <1>3 DEF Fleets
<1>. QED
  BY <1>3, <1>4

----------------------------------------------------------------------------
(* Deliveries                                                              *)

LEMMA Least ==
  ASSUME NEW T \in SUBSET Nat, T # {}
  PROVE  \E x \in T : \A y \in T : x <= y
<1>1. PICK R : /\ IsWellFoundedOn(R, Nat)
               /\ \A x, y \in Nat : y < x => <<y, x>> \in R
  <2>1. \A x, y \in Nat : y < x => <<y, x>> \in OpToRel(<, Nat)
    BY DEF OpToRel
  <2>. QED
    BY <2>1, NatLessThanWellFounded, Zenon
<1>2. PICK x \in T : \A y \in T : ~(<<y, x>> \in R)
  BY <1>1, WFMin
<1>3. ASSUME NEW y \in T PROVE x <= y
  <2>1. ~(y < x)
    BY <1>1, <1>2
  <2>. QED
    BY <2>1
<1>. QED
  BY <1>3

\* A set of naturals with a bound has a least and a greatest member.
Bounded(T) == T \subseteq Nat /\ \E M \in Nat : \A x \in T : x <= M

LEMMA Extremes ==
  ASSUME NEW T, Bounded(T), T # {}
  PROVE  /\ Min(T) \in T /\ \A y \in T : Min(T) <= y
         /\ Max(T) \in T /\ \A y \in T : y <= Max(T)
<1>0. T \subseteq Nat
  BY DEF Bounded
<1>1. PICK x \in T : \A y \in T : x <= y
  BY <1>0, Least
<1>2. PICK M \in Nat : \A y \in T : y <= M
  BY DEF Bounded
<1>. DEFINE D == {M - y : y \in T}
<1>3. D \in SUBSET Nat /\ D # {}
  <2>1. \A y \in T : y \in Nat /\ y <= M /\ M - y \in Nat
    BY <1>0, <1>2
  <2>. QED
    BY <2>1
<1>4. PICK d \in D : \A y \in D : d <= y
  <2>. HIDE DEF D
  <2>. QED
    BY <1>3, Least
<1>5. PICK z \in T : d = M - z
  OBVIOUS
<1>6. ASSUME NEW y \in T PROVE y <= z
  <2>1. M - y \in D
    OBVIOUS
  <2>2. M - z <= M - y
    BY <1>4, <1>5, <2>1
  <2>3. y \in Nat /\ z \in Nat
    BY <1>0
  <2>. QED
    BY <1>2, <2>2, <2>3
<1>7. /\ Min(T) \in T /\ \A y \in T : Min(T) =< y
  BY <1>1 DEF Min
<1>8. \A y \in T : z >= y
  BY <1>0, <1>6
<1>9. /\ Max(T) \in T /\ \A y \in T : Max(T) >= y
  BY <1>8 DEF Max
<1>. QED
  BY <1>0, <1>7, <1>9

\* What becomes of the record r when the events of ns are delivered; a failure
\* and the queue are seen to elsewhere.
IsDelivery(r, ns, d) ==
  /\ d \in EntryRecords
  /\ d.link = r.link /\ d.updating = r.updating /\ d.conn = r.conn
  /\ d.stop = r.stop /\ d.deaf = r.deaf /\ d.twice = r.twice
  /\ d.seen >= r.seen /\ (d.seen = r.seen \/ d.seen \in ns)
  /\ \A n \in ns : n <= d.seen
  /\ r.missed => d.missed
  /\ /\ Convex(ns) /\ ~r.missed
     /\ r.seen = 0 \/ ns = {} \/ \E n \in ns : n <= r.seen + 1
     => ~d.missed

LEMMA DeliveredDoes ==
  ASSUME NEW r \in EntryRecords, NEW ns, Bounded(ns),
         NEW d, d = Delivered(r, ns)
  PROVE  IsDelivery(r, ns, d) /\ d.holding = r.holding /\ d.broken = r.broken
<1>. DEFINE New == {n \in ns : n > r.seen}
            From == IF r.seen = 0 THEN Min(New) ELSE r.seen + 1
            miss == r.missed \/ New # From..Max(New)
<1>0. r.seen \in Nat /\ ns \subseteq Nat /\ r.missed \in BOOLEAN
  BY EntryTypes DEF Bounded
<1>1. CASE New = {}
  <2>1. d = r
    BY <1>1 DEF Delivered
  <2>2. \A n \in ns : n <= r.seen
    BY <1>0, <1>1
  <2>. QED
    BY <1>0, <2>1, <2>2 DEF IsDelivery
<1>2. CASE New # {}
  <2>1. d = [r EXCEPT !.seen = Max(New), !.missed = miss]
    BY <1>2 DEF Delivered
  <2>2. Bounded(New)
    BY <1>0 DEF Bounded
  <2>3. /\ Min(New) \in New /\ \A y \in New : Min(New) <= y
        /\ Max(New) \in New /\ \A y \in New : y <= Max(New)
    BY <1>2, <2>2, Extremes
  <2>. DEFINE top == Max(New)
              low == Min(New)
  <2>4. top \in ns /\ top \in Nat /\ top > r.seen /\ low \in ns /\ low \in Nat
        /\ low > r.seen
    BY <1>0, <2>3
  <2>5. \A n \in ns : n <= top
    <3>. TAKE n \in ns
    <3>1. CASE n > r.seen
      BY <2>3, <3>1
    <3>2. CASE ~(n > r.seen)
      BY <1>0, <2>4, <3>2
    <3>. QED
      BY <3>1, <3>2
  <2>6. ASSUME Convex(ns), r.seen = 0 \/ \E n \in ns : n <= r.seen + 1
        PROVE  New = From..top
    <3>1. From \in Nat /\ From > r.seen /\ \A y \in New : From <= y
      <4>1. CASE r.seen = 0
        BY <1>0, <2>3, <2>4, <4>1
      <4>2. CASE r.seen # 0
        <5>1. From = r.seen + 1
          BY <4>2
        <5>2. \A y \in New : y \in Nat /\ y > r.seen
          BY <1>0
        <5>. HIDE DEF From, New
        <5>. QED
          BY <1>0, <5>1, <5>2
      <4>. QED
        BY <4>1, <4>2
    <3>2. \E n \in ns : n <= From
      <4>1. CASE r.seen = 0
        BY <2>3, <2>4, <4>1
      <4>2. CASE r.seen # 0
        BY <2>6, <4>2
      <4>. QED
        BY <4>1, <4>2
    <3>3. PICK n \in ns : n <= From
      BY <3>2
    <3>4. n..top \subseteq ns
      BY <2>6, <2>4 DEF Convex
    <3>5. \A y \in New : y \in Nat /\ y <= top
      BY <1>0, <2>3
    <3>. HIDE DEF From
    <3>6. New \subseteq From..top
      <4>. HIDE DEF New, top
      <4>. QED
        BY <3>1, <3>5, <2>4
    <3>7. From..top \subseteq New
      <4>1. ASSUME NEW y \in From..top PROVE y \in New
        <5>1. y \in n..top /\ y \in Nat /\ y > r.seen
          <6>. HIDE DEF New, top
          <6>. QED
            BY <1>0, <2>4, <3>1, <3>3
        <5>. QED
          BY <3>4, <5>1
      <4>. QED
        BY <4>1
    <3>. QED
      BY <3>6, <3>7
  <2>7. ns # {}
    BY <2>4
  <2>8. /\ Convex(ns) /\ ~r.missed
        /\ r.seen = 0 \/ ns = {} \/ \E n \in ns : n <= r.seen + 1
        => ~miss
    BY <2>6, <2>7
  <2>9. r.missed => miss
    OBVIOUS
  <2>10. miss \in BOOLEAN
    BY <1>0
  <2>. HIDE DEF New, From, miss, top
  <2>11. /\ d \in EntryRecords /\ d.seen = top /\ d.missed = miss
         /\ d.link = r.link /\ d.updating = r.updating
         /\ d.holding = r.holding /\ d.conn = r.conn /\ d.stop = r.stop
         /\ d.broken = r.broken /\ d.deaf = r.deaf /\ d.twice = r.twice
    BY <2>1, <2>4, <2>10 DEF EntryRecords, top
  <2>12. d.seen >= r.seen /\ d.seen \in ns /\ \A n \in ns : n <= d.seen
    BY <1>0, <2>4, <2>5, <2>11
  <2>. QED
    BY <2>8, <2>9, <2>11, <2>12 DEF IsDelivery
<1>. QED
  BY <1>1, <1>2

\* The end of a catch-up, good or bad.
LEMMA CaughtUpDoes ==
  ASSUME NEW r \in EntryRecords, NEW l \in Loop, NEW held, Bounded(held),
         NEW d, d = CaughtUp(r, l, held)
  PROVE  /\ IsDelivery(r, held, d) /\ d.broken = r.broken
         /\ d.holding = IF r.holding = l THEN None ELSE r.holding
<1>. DEFINE h == IF r.holding = l THEN None ELSE r.holding
            b == [r EXCEPT !.holding = h]
<1>1. d = Delivered(b, held)
  BY DEF CaughtUp, FlushHeld
<1>2. h \in Loop \cup {None}
  BY EntryTypes
<1>. HIDE DEF h
<1>3. /\ b \in EntryRecords /\ b.holding = h
      /\ b.link = r.link /\ b.updating = r.updating /\ b.conn = r.conn
      /\ b.stop = r.stop /\ b.broken = r.broken /\ b.deaf = r.deaf
      /\ b.twice = r.twice /\ b.seen = r.seen /\ b.missed = r.missed
  BY <1>2 DEF EntryRecords
<1>. HIDE DEF b
<1>4. IsDelivery(b, held, d) /\ d.holding = b.holding /\ d.broken = b.broken
  BY <1>1, <1>3, DeliveredDoes
<1>5. IsDelivery(r, held, d)
  BY <1>3, <1>4 DEF IsDelivery
<1>. QED
  BY <1>3, <1>4, <1>5 DEF h

LEMMA RejectedDoes ==
  ASSUME NEW r \in EntryRecords, NEW l \in Loop, NEW held, Bounded(held),
         NEW b \in BOOLEAN,
         NEW d, d = CaughtUp([r EXCEPT !.broken = b], l, held)
  PROVE  /\ IsDelivery(r, held, d) /\ d.broken = b
         /\ d.holding = IF r.holding = l THEN None ELSE r.holding
<1>. DEFINE s == [r EXCEPT !.broken = b]
<1>1. /\ s \in EntryRecords /\ s.holding = r.holding
      /\ s.link = r.link /\ s.updating = r.updating /\ s.conn = r.conn
      /\ s.stop = r.stop /\ s.broken = b /\ s.deaf = r.deaf
      /\ s.twice = r.twice /\ s.seen = r.seen /\ s.missed = r.missed
  BY DEF EntryRecords
<1>. HIDE DEF s
<1>2. d = CaughtUp(s, l, held)
  BY DEF s
<1>3. /\ IsDelivery(s, held, d) /\ d.broken = s.broken
      /\ d.holding = IF s.holding = l THEN None ELSE s.holding
  BY <1>1, <1>2, CaughtUpDoes
<1>4. IsDelivery(r, held, d)
  BY <1>1, <1>3 DEF IsDelivery
<1>. QED
  BY <1>1, <1>3, <1>4

----------------------------------------------------------------------------
(* Loops that come to rest                                                 *)

\* From f to g some loops end, or dial anew, and nothing is wired.
Rested(f, g) ==
  /\ g \in Fleets
  /\ g.made = f.made /\ g.listed = f.listed /\ g.wired = f.wired
  /\ \A e \in Entry :
       /\ g.entry[e].link = f.entry[e].link
       /\ g.entry[e].updating = f.entry[e].updating
       /\ g.entry[e].conn = f.entry[e].conn
       /\ g.entry[e].deaf = f.entry[e].deaf
       /\ g.entry[e].twice = f.entry[e].twice
       /\ ~Used(f, e) => g.entry[e] = f.entry[e]
       /\ g.entry[e].holding # None =>
            /\ g.entry[e].holding = f.entry[e].holding
            /\ g.loop[g.entry[e].holding] = f.loop[g.entry[e].holding]
  /\ \A l \in Loop :
       \/ /\ g.loop[l] = f.loop[l]
          /\ Reading(f, l) /\ f.entry[l[1]].holding = l =>
               g.entry[l[1]].holding = l
       \/ g.loop[l] = IdleLoop
       \/ /\ f.loop[l].pc = "hello" /\ g.loop[l].pc = "dial"
          /\ g.loop[l].conn = None /\ g.loop[l].held = {}
          /\ g.loop[l].window = f.loop[l].window

LEMMA RestedInv ==
  ASSUME NEW f, NEW cs, NEW u, NEW n \in Nat, NEW G, FleetInv(f, cs, u, n, G),
         NEW g, Rested(f, g)
  PROVE  /\ FleetInv(g, cs, u, n, G)
         /\ \A e \in Entry : Cardinality(DialsOf(g, e))
                               <= Cardinality(DialsOf(f, e))
<1>1. f \in Fleets /\ Owned(f, cs) /\ g \in Fleets
  BY DEF FleetInv, Rested
<1>2. /\ g.made = f.made /\ g.listed = f.listed /\ g.wired = f.wired
      /\ \A e \in Entry :
           /\ g.entry[e].link = f.entry[e].link
           /\ g.entry[e].updating = f.entry[e].updating
           /\ g.entry[e].conn = f.entry[e].conn
           /\ g.entry[e].deaf = f.entry[e].deaf
           /\ g.entry[e].twice = f.entry[e].twice
           /\ ~Used(f, e) => g.entry[e] = f.entry[e]
           /\ g.entry[e].holding # None =>
                /\ g.entry[e].holding = f.entry[e].holding
                /\ g.loop[g.entry[e].holding] = f.loop[g.entry[e].holding]
  BY DEF Rested
\* A loop of g.
<1>3. ASSUME NEW l \in Loop
      PROVE  \/ g.loop[l] = f.loop[l]
             \/ /\ g.loop[l].pc = "off" /\ g.loop[l].conn = None
                /\ ~g.loop[l].window /\ g.loop[l].held = {}
             \/ /\ f.loop[l].pc = "hello" /\ g.loop[l].pc = "dial"
                /\ g.loop[l].conn = None /\ g.loop[l].held = {}
                /\ g.loop[l].window = f.loop[l].window
  <2>1. CASE g.loop[l] = IdleLoop
    BY <2>1, FreshRecords
  <2>. QED
    BY <2>1 DEF Rested
<1>4. \A l \in Loop : Dialling(g, l) => Dialling(f, l)
  <2>. TAKE l \in Loop
  <2>. QED
    BY <1>3 DEF Dialling
<1>5. ASSUME NEW l \in Loop, Reading(g, l)
      PROVE  /\ g.loop[l] = f.loop[l] /\ Reading(f, l)
             /\ f.entry[l[1]].holding = l => g.entry[l[1]].holding = l
  <2>1. g.loop[l].pc \in {"catchUp", "finish"}
    BY <1>5 DEF Reading
  <2>2. g.loop[l] # IdleLoop
    BY <2>1, FreshRecords
  <2>3. g.loop[l] = f.loop[l]
    BY <2>1, <1>3
  <2>4. Reading(f, l)
    BY <2>1, <2>3 DEF Reading
  <2>. QED
    BY <2>1, <2>2, <2>3, <2>4 DEF Rested
<1>6. Owned(g, cs)
  <2>1. \A w \in Workspaces : g.listed[w] # None =>
          Of(g.listed[w]) = w /\ Used(g, g.listed[w])
    BY <1>1, <1>2 DEF Owned, Used
  <2>2. \A e \in Entry : ~Used(g, e) => Untouched(g, cs, e)
    <3>. SUFFICES ASSUME NEW e \in Entry, ~Used(g, e) PROVE Untouched(g, cs, e)
      OBVIOUS
    <3>1. ~Used(f, e)
      BY <1>2 DEF Used
    <3>2. Untouched(f, cs, e)
      BY <1>1, <3>1 DEF Owned
    <3>3. \A l \in Loop : l[1] = e => g.loop[l].pc = "off"
      <4>. TAKE l \in Loop
      <4>. HAVE l[1] = e
      <4>1. f.loop[l].pc = "off"
        BY <3>2 DEF Untouched
      <4>. QED
        BY <1>3, <4>1
    <3>. QED
      BY <1>2, <3>1, <3>2, <3>3 DEF Untouched
  <2>3. \A c \in g.wired : Alive(cs, c)
    BY <1>1, <1>2 DEF Owned
  <2>4. \A e \in Entry : EntryOwns(g, cs, e)
    <3>. TAKE e \in Entry
    <3>1. EntryOwns(f, cs, e)
      BY <1>1 DEF Owned
    <3>. QED
      BY <1>2, <3>1 DEF EntryOwns, Reading
  <2>5. \A l \in Loop : LoopOwns(g, cs, l)
    <3>. TAKE l \in Loop
    <3>1. LoopOwns(f, cs, l)
      BY <1>1 DEF Owned
    <3>2. g.entry[l[1]].conn = f.entry[l[1]].conn
      BY <1>2, LoopParts
    <3>. QED
      BY <1>2, <1>3, <3>1, <3>2 DEF LoopOwns
  <2>6. \A l, m \in Loop :
          g.loop[l].conn = g.loop[m].conn /\ g.loop[l].conn # None => l = m
    <3>. TAKE l, m \in Loop
    <3>. HAVE g.loop[l].conn = g.loop[m].conn /\ g.loop[l].conn # None
    <3>1. g.loop[l] = f.loop[l] /\ g.loop[m] = f.loop[m]
      BY <1>3
    <3>. QED
      BY <1>1, <3>1 DEF Owned
  <2>. QED
    BY <2>1, <2>2, <2>3, <2>4, <2>5, <2>6 DEF Owned
<1>7. Updated(g, cs, u)
  <2>1. \A l \in Loop : g.loop[l].window => f.loop[l].window
    <3>. TAKE l \in Loop
    <3>. QED
      BY <1>3
  <2>. QED
    BY <1>2, <2>1 DEF FleetInv, Updated, Used
<1>8. Watched(g, u, G)
  BY <1>2 DEF FleetInv, Watched, EntryWatched
<1>9. \A e \in Entry : Cardinality(DialsOf(g, e)) <= Cardinality(DialsOf(f, e))
  <2>. TAKE e \in Entry
  <2>1. DialsOf(g, e) \subseteq DialsOf(f, e)
    BY <1>4, LoopIs DEF DialsOf
  <2>. QED
    BY <2>1, DialsFinite, FS_Subset
<1>10. Counted(g, u, n)
  <2>. SUFFICES ASSUME NEW e \in Entry PROVE EntryCounted(g, u, n, e)
    BY DEF Counted
  <2>. DEFINE d == Cardinality(DialsOf(f, e))
              d2 == Cardinality(DialsOf(g, e))
              p == One(f.entry[e].link = "connected")
              q == One(Due(u, e))
  <2>1. d \in Nat /\ p \in {0, 1} /\ q \in {0, 1} /\ d + p + q <= 1 + n
    <3>1. EntryCounted(f, u, n, e)
      BY DEF FleetInv, Counted
    <3>. QED
      BY <3>1, DialsFinite, OneIs DEF EntryCounted
  <2>2. d2 \in Nat /\ d2 <= d
    BY <1>9, DialsFinite
  <2>3. g.entry[e].link = f.entry[e].link
    BY <1>2
  <2>4. d2 + p + q <= 1 + n
    <3>. HIDE DEF d, d2, p, q
    <3>. QED
      BY <2>1, <2>2
  <2>. QED
    BY <2>3, <2>4 DEF EntryCounted
<1>11. Singles(g, u, G)
  <2>. SUFFICES ASSUME NEW e \in Entry, ~g.entry[e].twice
                PROVE  Single(g, u, G, e)
    BY DEF Singles
  <2>1. Single(f, u, G, e)
    BY <1>2 DEF FleetInv, Singles
  <2>2. ASSUME NEW l \in Loop, l[1] = e, Reading(g, l)
        PROVE  g.loop[l].conn = g.entry[e].conn /\ g.entry[e].holding = l
    BY <1>2, <1>5, <2>1, <2>2 DEF Single
  <2>. QED
    BY <1>2, <1>4, <2>1, <2>2 DEF Single
<1>. QED
  BY <1>1, <1>6, <1>7, <1>8, <1>9, <1>10, <1>11 DEF FleetInv

\* What becomes of f when the connections of G are taken away.
Dropped(f, G, g) ==
  /\ g \in Fleets
  /\ g.made = f.made /\ g.listed = f.listed /\ g.loop = f.loop
  /\ \A c : c \in g.wired <=> c \in f.wired /\ c \notin G
  /\ \A e \in Entry :
       /\ g.entry[e].conn = IF f.entry[e].conn \in G THEN None
                            ELSE f.entry[e].conn
       /\ g.entry[e].link = f.entry[e].link
       /\ g.entry[e].seen = f.entry[e].seen
       /\ g.entry[e].missed = f.entry[e].missed
       /\ g.entry[e].updating = f.entry[e].updating
       /\ g.entry[e].holding = f.entry[e].holding
       /\ g.entry[e].broken = f.entry[e].broken
       /\ g.entry[e].deaf = f.entry[e].deaf
       /\ g.entry[e].twice = f.entry[e].twice
       /\ f.entry[e].conn \notin G => g.entry[e] = f.entry[e]

LEMMA DropDoes ==
  ASSUME NEW f \in Fleets, NEW G, NEW g, g = Unwired(f, G)
  PROVE  Dropped(f, G, g)
<1>0. /\ f.listed \in [Workspaces -> Entry \cup {None}]
      /\ f.made \in [Workspaces -> Nat]
      /\ f.entry \in [Entry -> EntryRecords]
      /\ f.wired \in SUBSET Conns
      /\ f.loop \in [Loop -> LoopRecords]
  BY FleetParts
<1>. DEFINE wi == f.wired \ G
            put(r) == IF r.conn \in G THEN [r EXCEPT !.conn = None] ELSE r
            en == [e \in Entry |-> put(f.entry[e])]
<1>1. g = [f EXCEPT !.wired = wi, !.entry = en]
  BY DEF Unwired
<1>2. wi \in SUBSET Conns
  BY <1>0
<1>3. ASSUME NEW r \in EntryRecords
      PROVE  /\ put(r) \in EntryRecords
             /\ put(r).conn = IF r.conn \in G THEN None ELSE r.conn
             /\ put(r).link = r.link /\ put(r).seen = r.seen
             /\ put(r).missed = r.missed /\ put(r).updating = r.updating
             /\ put(r).holding = r.holding /\ put(r).broken = r.broken
             /\ put(r).deaf = r.deaf /\ put(r).twice = r.twice
             /\ r.conn \notin G => put(r) = r
  <2>1. CASE r.conn \in G
    <3>1. put(r) = [r EXCEPT !.conn = None]
      BY <2>1
    <3>. HIDE DEF put
    <3>. QED
      BY <2>1, <3>1 DEF EntryRecords
  <2>2. CASE r.conn \notin G
    BY <2>2
  <2>. QED
    BY <2>1, <2>2
<1>. HIDE DEF put, wi
<1>4. en \in [Entry -> EntryRecords] /\ \A e \in Entry : en[e] = put(f.entry[e])
  BY <1>0, <1>3
<1>. HIDE DEF en
<1>5. /\ g \in Fleets /\ g.made = f.made /\ g.listed = f.listed
      /\ g.loop = f.loop /\ g.wired = wi /\ g.entry = en
  BY <1>0, <1>1, <1>2, <1>4 DEF Fleets
<1>6. \A e \in Entry : f.entry[e] \in EntryRecords
  BY <1>0
<1>. QED
  BY <1>3, <1>4, <1>5, <1>6 DEF Dropped, wi

LEMMA DropInv ==
  ASSUME NEW f, NEW cs, NEW u, NEW n \in Nat, NEW G, FleetInv(f, cs, u, n, G),
         G \subseteq Conns,
         \A l \in Loop : f.loop[l].conn \notin G,
         u.pc = "asking" => u.conn \notin G,
         NEW ds, \A c \in Conns : Alive(ds, c) <=> Alive(cs, c) /\ c \notin G,
         u.pc = "asking" => u.conn \in Conns,
         NEW g, g = Unwired(f, G)
  PROVE  FleetInv(g, ds, u, n, {})
<1>1. f \in Fleets /\ Owned(f, cs)
  BY DEF FleetInv
<1>2. Dropped(f, G, g)
  BY <1>1, DropDoes
<1>3. None \notin G /\ f.wired \in SUBSET Conns
  BY <1>1, FleetParts, ConnParts
<1>4. Owned(g, ds)
  <2>1. \A w \in Workspaces : g.listed[w] # None =>
          Of(g.listed[w]) = w /\ Used(g, g.listed[w])
    BY <1>1, <1>2 DEF Owned, Used, Dropped
  <2>2. \A e \in Entry : ~Used(g, e) => Untouched(g, ds, e)
    <3>. SUFFICES ASSUME NEW e \in Entry, ~Used(g, e) PROVE Untouched(g, ds, e)
      OBVIOUS
    <3>1. Untouched(f, cs, e)
      BY <1>1, <1>2 DEF Owned, Used, Dropped
    <3>2. f.entry[e].conn \notin G
      BY <3>1, <1>3, FreshRecords DEF Untouched
    <3>. QED
      BY <1>2, <3>1, <3>2 DEF Untouched, Dropped
  <2>3. \A c \in g.wired : Alive(ds, c)
    BY <1>1, <1>2, <1>3 DEF Owned, Dropped
  <2>4. \A e \in Entry : EntryOwns(g, ds, e)
    <3>. TAKE e \in Entry
    <3>1. EntryOwns(f, cs, e) /\ f.entry[e].conn \in Conns \cup {None}
      BY <1>1, FleetParts, EntryTypes DEF Owned
    <3>. QED
      BY <1>2, <1>3, <3>1 DEF EntryOwns, Reading, Dropped
  <2>5. \A l \in Loop : LoopOwns(g, ds, l)
    <3>. TAKE l \in Loop
    <3>1. LoopOwns(f, cs, l) /\ f.loop[l].conn \in Conns \cup {None}
      BY <1>1, FleetParts, LoopTypes DEF Owned
    <3>2. \/ g.entry[l[1]].conn = f.entry[l[1]].conn
          \/ g.entry[l[1]].conn = None
      BY <1>2, LoopParts DEF Dropped
    <3>3. g.loop[l] = f.loop[l]
      BY <1>2 DEF Dropped
    <3>4. f.loop[l].conn \notin f.wired => g.loop[l].conn \notin g.wired
      BY <1>2 DEF Dropped
    <3>. QED
      BY <3>1, <3>2, <3>3, <3>4 DEF LoopOwns
  <2>6. \A l, m \in Loop :
          g.loop[l].conn = g.loop[m].conn /\ g.loop[l].conn # None => l = m
    BY <1>1, <1>2 DEF Owned, Dropped
  <2>. QED
    BY <2>1, <2>2, <2>3, <2>4, <2>5, <2>6 DEF Owned
<1>5. Updated(g, ds, u)
  BY <1>2 DEF FleetInv, Updated, Used, Dropped
<1>6. Watched(g, u, {})
  <2>. SUFFICES ASSUME NEW e \in Entry PROVE EntryWatched(g, u, {}, e)
    BY DEF Watched
  <2>1. EntryWatched(f, u, G, e)
    BY DEF FleetInv, Watched
  <2>. QED
    BY <1>2, <2>1 DEF EntryWatched, Dropped
<1>7. Counted(g, u, n)
  <2>1. \A e \in Entry : DialsOf(g, e) = DialsOf(f, e)
                         /\ g.entry[e].link = f.entry[e].link
    BY <1>2 DEF DialsOf, Dialling, Dropped
  <2>. QED
    BY <2>1 DEF FleetInv, Counted, EntryCounted
<1>8. Singles(g, u, {})
  <2>. SUFFICES ASSUME NEW e \in Entry, ~g.entry[e].twice
                PROVE  Single(g, u, {}, e)
    BY DEF Singles
  <2>1. Single(f, u, G, e)
    BY <1>2 DEF FleetInv, Singles, Dropped
  <2>2. /\ g.loop = f.loop
        /\ g.entry[e].link = f.entry[e].link
        /\ g.entry[e].updating = f.entry[e].updating
        /\ g.entry[e].holding = f.entry[e].holding
        /\ g.entry[e].conn = IF f.entry[e].conn \in G THEN None
                             ELSE f.entry[e].conn
    BY <1>2 DEF Dropped
  <2>3. \A c : c \in g.wired <=> c \in f.wired /\ c \notin G
    BY <1>2 DEF Dropped
  <2>4. \A l \in Loop : l[1] = e /\ Reading(g, l) =>
          g.loop[l].conn = g.entry[e].conn /\ g.entry[e].holding = l
    BY <2>1, <2>2 DEF Single, Reading
  <2>5. \A c \in g.wired : c[1] = e => c = g.entry[e].conn
    BY <2>1, <2>2, <2>3 DEF Single
  <2>. QED
    BY <2>1, <2>2, <2>4, <2>5 DEF Single, Dialling
<1>. QED
  BY <1>2, <1>4, <1>5, <1>6, <1>7, <1>8 DEF FleetInv, Dropped

----------------------------------------------------------------------------
(* Rejections                                                              *)

Over(f, cs, l) == f.loop[l].conn \in cs /\ f.loop[l].pc # "hello"

RejectedRecord(f, e, l) ==
  CaughtUp([f.entry[e] EXCEPT
              !.broken = f.entry[e].broken \/ f.loop[l].pc = "catchUp"],
           l, f.loop[l].held)

\* Told, without what an updateHost does next.
ToldOnly(f, cs) ==
  [f EXCEPT !.loop = [l \in Loop |->
              CASE Over(f, cs, l) -> IdleLoop
                [] f.loop[l].conn \in cs /\ ~Over(f, cs, l) ->
                     [f.loop[l] EXCEPT !.pc = "dial", !.conn = None]
                [] OTHER -> f.loop[l]],
            !.entry = [e \in Entry |->
              IF \E l \in Loop : l[1] = e /\ Over(f, cs, l)
              THEN RejectedRecord(f, e, CHOOSE l \in Loop : /\ l[1] = e
                                                            /\ Over(f, cs, l))
              ELSE f.entry[e]]]

LEMMA ToldIs ==
  ASSUME NEW f, NEW cs
  PROVE  Told(f, cs) = IF \E l \in Loop : Over(f, cs, l) /\ f.loop[l].window
                       THEN AfterUpdate(ToldOnly(f, cs), FALSE)
                       ELSE ToldOnly(f, cs)
  BY DEF Told, ToldOnly, Over, RejectedRecord

\* What becomes of f when those who await an answer on G are told.
Rejections(f, G, g) ==
  /\ g \in Fleets
  /\ g.made = f.made /\ g.listed = f.listed /\ g.wired = f.wired
  /\ \A l \in Loop :
       /\ Over(f, G, l) => g.loop[l] = IdleLoop
       /\ f.loop[l].conn \in G /\ f.loop[l].pc = "hello" =>
            /\ g.loop[l].pc = "dial" /\ g.loop[l].conn = None
            /\ g.loop[l].window = f.loop[l].window
            /\ g.loop[l].held = f.loop[l].held
       /\ f.loop[l].conn \notin G => g.loop[l] = f.loop[l]
  /\ \A e \in Entry : (\A l \in Loop : l[1] = e => ~Over(f, G, l)) =>
                        g.entry[e] = f.entry[e]
  /\ \A l \in Loop : Over(f, G, l) =>
       /\ IsDelivery(f.entry[l[1]], f.loop[l].held, g.entry[l[1]])
       /\ g.entry[l[1]].broken = (f.entry[l[1]].broken
                                    \/ f.loop[l].pc = "catchUp")
       /\ g.entry[l[1]].holding = IF f.entry[l[1]].holding = l THEN None
                                  ELSE f.entry[l[1]].holding

LEMMA ToldOnlyDoes ==
  ASSUME NEW f \in Fleets, NEW G,
         \A l \in Loop : Bounded(f.loop[l].held),
         \A l, m \in Loop : /\ Over(f, G, l) /\ Over(f, G, m)
                            /\ l[1] = m[1]
                            => l = m,
         NEW g, g = ToldOnly(f, G)
  PROVE  Rejections(f, G, g)
<1>0. /\ f.listed \in [Workspaces -> Entry \cup {None}]
      /\ f.made \in [Workspaces -> Nat]
      /\ f.entry \in [Entry -> EntryRecords]
      /\ f.wired \in SUBSET Conns
      /\ f.loop \in [Loop -> LoopRecords]
  BY FleetParts
<1>. DEFINE lp == [l \in Loop |->
                     CASE Over(f, G, l) -> IdleLoop
                       [] f.loop[l].conn \in G /\ ~Over(f, G, l) ->
                            [f.loop[l] EXCEPT !.pc = "dial", !.conn = None]
                       [] OTHER -> f.loop[l]]
            one(e) == CHOOSE l \in Loop : l[1] = e /\ Over(f, G, l)
            en == [e \in Entry |->
                     IF \E l \in Loop : l[1] = e /\ Over(f, G, l)
                     THEN RejectedRecord(f, e, one(e)) ELSE f.entry[e]]
<1>1. g = [f EXCEPT !.loop = lp, !.entry = en]
  BY DEF ToldOnly
<1>2. ASSUME NEW l \in Loop
      PROVE  /\ lp[l] \in LoopRecords
             /\ Over(f, G, l) => lp[l] = IdleLoop
             /\ f.loop[l].conn \in G /\ f.loop[l].pc = "hello" =>
                  /\ lp[l].pc = "dial" /\ lp[l].conn = None
                  /\ lp[l].window = f.loop[l].window
                  /\ lp[l].held = f.loop[l].held
             /\ f.loop[l].conn \notin G => lp[l] = f.loop[l]
  <2>0. f.loop[l] \in LoopRecords
    BY <1>0
  <2>1. CASE Over(f, G, l)
    <3>1. lp[l] = IdleLoop
      BY <2>1
    <3>. HIDE DEF lp
    <3>. QED
      BY <2>1, <3>1, FreshRecords DEF Over
  <2>2. CASE f.loop[l].conn \in G /\ ~Over(f, G, l)
    <3>1. lp[l] = [f.loop[l] EXCEPT !.pc = "dial", !.conn = None]
      BY <2>2
    <3>. DEFINE r == f.loop[l]
                d == lp[l]
    <3>2. r \in LoopRecords /\ d = [r EXCEPT !.pc = "dial", !.conn = None]
      BY <2>0, <3>1
    <3>. HIDE DEF r, d
    <3>3. /\ d \in LoopRecords /\ d.pc = "dial" /\ d.conn = None
          /\ d.window = r.window /\ d.held = r.held
      BY <3>2 DEF LoopRecords
    <3>4. lp[l] \in LoopRecords /\ lp[l].pc = "dial" /\ lp[l].conn = None
          /\ lp[l].window = f.loop[l].window /\ lp[l].held = f.loop[l].held
      BY <3>3 DEF d, r
    <3>. HIDE DEF lp
    <3>. QED
      BY <2>2, <3>4
  <2>3. CASE f.loop[l].conn \notin G
    <3>1. lp[l] = f.loop[l]
      BY <2>3 DEF Over
    <3>. HIDE DEF lp
    <3>. QED
      BY <2>0, <2>3, <3>1 DEF Over
  <2>. QED
    BY <2>1, <2>2, <2>3
<1>3. ASSUME NEW l \in Loop, Over(f, G, l)
      PROVE  /\ IsDelivery(f.entry[l[1]], f.loop[l].held, en[l[1]])
             /\ en[l[1]].broken = (f.entry[l[1]].broken
                                    \/ f.loop[l].pc = "catchUp")
             /\ en[l[1]].holding = IF f.entry[l[1]].holding = l THEN None
                                   ELSE f.entry[l[1]].holding
             /\ en[l[1]] \in EntryRecords
  <2>. DEFINE e == l[1]
              b == f.entry[e].broken \/ f.loop[l].pc = "catchUp"
  <2>1. e \in Entry
    BY LoopParts
  <2>2. one(e) = l
    BY <1>3
  <2>3. en[e] = RejectedRecord(f, e, l)
    BY <1>3, <2>1, <2>2
  <2>4. f.entry[e] \in EntryRecords
    BY <1>0, <2>1
  <2>. HIDE DEF one, en
  <2>5. en[e] = CaughtUp([f.entry[e] EXCEPT !.broken = b], l, f.loop[l].held)
    BY <2>3 DEF RejectedRecord
  <2>6. b \in BOOLEAN
    BY <2>4, EntryTypes
  <2>. HIDE DEF b
  <2>7. /\ IsDelivery(f.entry[e], f.loop[l].held, en[e]) /\ en[e].broken = b
        /\ en[e].holding = IF f.entry[e].holding = l THEN None
                           ELSE f.entry[e].holding
    BY <2>4, <2>5, <2>6, RejectedDoes
  <2>. QED
    BY <2>7 DEF b, IsDelivery
<1>4. ASSUME NEW e \in Entry, \A l \in Loop : l[1] = e => ~Over(f, G, l)
      PROVE  en[e] = f.entry[e]
  BY <1>4
<1>5. en \in [Entry -> EntryRecords]
  <2>1. ASSUME NEW e \in Entry PROVE en[e] \in EntryRecords
    <3>1. CASE \E l \in Loop : l[1] = e /\ Over(f, G, l)
      <4>. HIDE DEF en
      <4>. QED
        BY <1>3, <3>1
    <3>2. CASE ~ \E l \in Loop : l[1] = e /\ Over(f, G, l)
      BY <1>0, <3>2
    <3>. QED
      BY <3>1, <3>2
  <2>2. en = [e \in Entry |-> en[e]]
    OBVIOUS
  <2>. HIDE DEF en
  <2>. QED
    BY <2>1, <2>2
<1>6. lp \in [Loop -> LoopRecords]
  <2>1. \A l \in Loop : lp[l] \in LoopRecords
    BY <1>2, Zenon
  <2>2. lp = [l \in Loop |-> lp[l]]
    OBVIOUS
  <2>. HIDE DEF lp
  <2>. QED
    BY <2>1, <2>2
<1>. HIDE DEF en, lp, one
<1>7. /\ g \in Fleets /\ g.made = f.made /\ g.listed = f.listed
      /\ g.wired = f.wired /\ g.entry = en /\ g.loop = lp
  BY <1>0, <1>1, <1>5, <1>6 DEF Fleets
<1>8. \A l \in Loop :
        /\ Over(f, G, l) => g.loop[l] = IdleLoop
        /\ f.loop[l].conn \in G /\ f.loop[l].pc = "hello" =>
             /\ g.loop[l].pc = "dial" /\ g.loop[l].conn = None
             /\ g.loop[l].window = f.loop[l].window
             /\ g.loop[l].held = f.loop[l].held
        /\ f.loop[l].conn \notin G => g.loop[l] = f.loop[l]
  BY <1>2, <1>7
<1>. QED
  BY <1>3, <1>4, <1>7, <1>8 DEF Rejections

\* Of one entry, one loop at most has its connection in G.
LEMMA OneOver ==
  ASSUME NEW f \in Fleets, NEW cs, Owned(f, cs), NEW G, G \subseteq Conns,
         \A c, d \in G : c[1] = d[1] => c = d,
         NEW l \in Loop, NEW m \in Loop, l[1] = m[1],
         f.loop[l].conn \in G, f.loop[m].conn \in G
  PROVE  l = m
<1>1. /\ f.loop[l].conn # None /\ f.loop[m].conn # None
  BY ConnParts
<1>2. LoopOwns(f, cs, l) /\ LoopOwns(f, cs, m)
  BY DEF Owned
<1>3. f.loop[l].conn = f.loop[m].conn
  BY <1>1, <1>2 DEF LoopOwns
<1>. QED
  BY <1>1, <1>3 DEF Owned

LEMMA ToldOnlyInv ==
  ASSUME NEW f, NEW cs, NEW u, NEW n \in Nat, NEW G, FleetInv(f, cs, u, n, G),
         NEW H, H \subseteq Conns, \A c, d \in H : c[1] = d[1] => c = d,
         \A l \in Loop : Bounded(f.loop[l].held),
         NEW g, g = ToldOnly(f, H)
  PROVE  /\ FleetInv(g, cs, u, n, G) /\ Rejections(f, H, g)
         /\ \A l \in Loop : g.loop[l].conn \notin H
         /\ \A l \in Loop : g.loop[l].window =>
              f.loop[l].window /\ ~Over(f, H, l)
<1>1. f \in Fleets /\ Owned(f, cs)
  BY DEF FleetInv
<1>2. \A l, m \in Loop : Over(f, H, l) /\ Over(f, H, m) /\ l[1] = m[1]
                           => l = m
  BY <1>1, OneOver DEF Over
<1>3. Rejections(f, H, g)
  BY <1>1, <1>2, ToldOnlyDoes
<1>4. None \notin H
  BY ConnParts
<1>5. ASSUME NEW l \in Loop
      PROVE  \/ Over(f, H, l) /\ g.loop[l] = IdleLoop
             \/ /\ f.loop[l].conn \in H /\ f.loop[l].pc = "hello"
                /\ g.loop[l].pc = "dial"
                /\ g.loop[l].conn = None /\ g.loop[l].held = {}
                /\ g.loop[l].window = f.loop[l].window
             \/ f.loop[l].conn \notin H /\ g.loop[l] = f.loop[l]
  <2>1. LoopOwns(f, cs, l)
    BY <1>1 DEF Owned
  <2>2. f.loop[l].pc = "hello" => f.loop[l].held = {}
    BY <2>1 DEF LoopOwns
  <2>. QED
    BY <1>3, <2>2 DEF Over, Rejections
<1>6. Rested(f, g)
  <2>1. ASSUME NEW e \in Entry
        PROVE  /\ g.entry[e].link = f.entry[e].link
               /\ g.entry[e].updating = f.entry[e].updating
               /\ g.entry[e].conn = f.entry[e].conn
               /\ g.entry[e].deaf = f.entry[e].deaf
               /\ g.entry[e].twice = f.entry[e].twice
               /\ ~Used(f, e) => g.entry[e] = f.entry[e]
               /\ g.entry[e].holding # None =>
                    /\ g.entry[e].holding = f.entry[e].holding
                    /\ g.loop[g.entry[e].holding] = f.loop[g.entry[e].holding]
    <3>0. EntryOwns(f, cs, e) /\ f.entry[e].holding \in Loop \cup {None}
      BY <1>1, FleetParts, EntryTypes DEF Owned
    <3>1. CASE \E l \in Loop : l[1] = e /\ Over(f, H, l)
      <4>1. PICK l \in Loop : l[1] = e /\ Over(f, H, l)
        BY <3>1
      <4>2. /\ IsDelivery(f.entry[e], f.loop[l].held, g.entry[e])
            /\ g.entry[e].holding = IF f.entry[e].holding = l THEN None
                                    ELSE f.entry[e].holding
        BY <1>3, <4>1 DEF Rejections
      <4>3. Used(f, e)
        <5>1. f.loop[l].conn # None
          BY <1>4, <4>1 DEF Over
        <5>2. LoopOwns(f, cs, l)
          BY <1>1 DEF Owned
        <5>3. f.loop[l].pc # "off"
          BY <5>1, <5>2 DEF LoopOwns
        <5>. QED
          BY <1>1, <4>1, <5>3, UsedWhen
      <4>4. ASSUME g.entry[e].holding # None
            PROVE  /\ g.entry[e].holding = f.entry[e].holding
                   /\ g.loop[g.entry[e].holding] = f.loop[g.entry[e].holding]
        <5>. DEFINE m == g.entry[e].holding
        <5>1. /\ m = f.entry[e].holding /\ m # l /\ m \in Loop
              /\ f.entry[e].holding # None
          BY <3>0, <4>2, <4>4
        <5>2. m[1] = e /\ Reading(f, m)
          BY <3>0, <5>1 DEF EntryOwns
        <5>3. f.loop[m].conn \notin H
          BY <1>1, <4>1, <5>1, <5>2, OneOver DEF Over
        <5>. QED
          BY <1>3, <5>1, <5>3 DEF Rejections
      <4>. QED
        BY <4>2, <4>3, <4>4 DEF IsDelivery
    <3>2. CASE \A l \in Loop : l[1] = e => ~Over(f, H, l)
      <4>1. g.entry[e] = f.entry[e]
        BY <1>3, <3>2 DEF Rejections
      <4>2. ASSUME f.entry[e].holding # None
            PROVE  g.loop[f.entry[e].holding] = f.loop[f.entry[e].holding]
        <5>. DEFINE m == f.entry[e].holding
        <5>1. m \in Loop /\ m[1] = e /\ Reading(f, m)
          BY <3>0, <4>2 DEF EntryOwns
        <5>. HIDE DEF m
        <5>2. ~Over(f, H, m) /\ f.loop[m].pc # "hello"
          BY <3>2, <5>1 DEF Reading
        <5>3. g.loop[m] = f.loop[m]
          BY <1>5, <5>1, <5>2
        <5>. QED
          BY <5>3 DEF m
      <4>. QED
        BY <4>1, <4>2
    <3>. QED
      BY <3>1, <3>2
  <2>2. ASSUME NEW l \in Loop, Reading(f, l), f.entry[l[1]].holding = l,
               g.loop[l] = f.loop[l], f.loop[l].conn \notin H
        PROVE  g.entry[l[1]].holding = l
    <3>. DEFINE e == l[1]
    <3>0. e \in Entry
      BY LoopParts
    <3>1. CASE \E m \in Loop : m[1] = e /\ Over(f, H, m)
      <4>1. PICK m \in Loop : m[1] = e /\ Over(f, H, m)
        BY <3>1
      <4>2. m # l
        BY <2>2, <4>1 DEF Over
      <4>3. g.entry[e].holding = IF f.entry[e].holding = m THEN None
                                 ELSE f.entry[e].holding
        BY <1>3, <4>1 DEF Rejections
      <4>. QED
        BY <2>2, <4>2, <4>3
    <3>2. CASE \A m \in Loop : m[1] = e => ~Over(f, H, m)
      BY <1>3, <2>2, <3>0, <3>2 DEF Rejections
    <3>. QED
      BY <3>1, <3>2
  <2>3. ASSUME NEW l \in Loop
        PROVE  \/ /\ g.loop[l] = f.loop[l]
                  /\ Reading(f, l) /\ f.entry[l[1]].holding = l =>
                       g.entry[l[1]].holding = l
               \/ g.loop[l] = IdleLoop
               \/ /\ f.loop[l].pc = "hello" /\ g.loop[l].pc = "dial"
                  /\ g.loop[l].conn = None /\ g.loop[l].held = {}
                  /\ g.loop[l].window = f.loop[l].window
    BY <1>5, <2>2
  <2>4. g \in Fleets /\ g.made = f.made /\ g.listed = f.listed
        /\ g.wired = f.wired
    BY <1>3 DEF Rejections
  <2>. QED
    BY <2>1, <2>3, <2>4 DEF Rested
<1>7. ASSUME NEW l \in Loop
      PROVE  /\ g.loop[l].conn \notin H
             /\ g.loop[l].window => f.loop[l].window /\ ~Over(f, H, l)
  BY <1>4, <1>5, FreshRecords DEF Over
<1>. QED
  BY <1>3, <1>6, <1>7, RestedInv

----------------------------------------------------------------------------
(* Steps that deliver nothing                                              *)

\* From f to g nothing is delivered or held, whoever has a connection keeps it,
\* and nothing is wired.
Kept(f, g) ==
  /\ g.wired \subseteq f.wired
  /\ \A e \in Entry : /\ g.entry[e].seen = f.entry[e].seen
                      /\ g.entry[e].missed = f.entry[e].missed
                      /\ g.entry[e].broken = f.entry[e].broken
                      /\ g.entry[e].conn = f.entry[e].conn
                      /\ g.entry[e].holding = f.entry[e].holding
                      /\ f.entry[e].twice => g.entry[e].twice
  /\ \A l \in Loop : /\ g.loop[l].conn = f.loop[l].conn
                     /\ f.loop[l].conn # None =>
                          /\ g.loop[l].pc = f.loop[l].pc
                          /\ g.loop[l].window = f.loop[l].window
                     /\ g.loop[l].held = f.loop[l].held

LEMMA KeptSame ==
  \A f : Kept(f, f)
  BY DEF Kept

LEMMA KeptTrans ==
  ASSUME NEW f, NEW g, NEW h, Kept(f, g), Kept(g, h)
  PROVE  Kept(f, h)
<1>1. h.wired \subseteq f.wired
  BY DEF Kept
<1>2. ASSUME NEW e \in Entry
      PROVE  /\ h.entry[e].seen = f.entry[e].seen
             /\ h.entry[e].missed = f.entry[e].missed
             /\ h.entry[e].broken = f.entry[e].broken
             /\ h.entry[e].conn = f.entry[e].conn
             /\ h.entry[e].holding = f.entry[e].holding
             /\ f.entry[e].twice => h.entry[e].twice
  BY DEF Kept
<1>3. ASSUME NEW l \in Loop
      PROVE  /\ h.loop[l].conn = f.loop[l].conn
             /\ f.loop[l].conn # None =>
                  /\ h.loop[l].pc = f.loop[l].pc
                  /\ h.loop[l].window = f.loop[l].window
             /\ h.loop[l].held = f.loop[l].held
  BY DEF Kept
<1>. QED
  BY <1>1, <1>2, <1>3 DEF Kept

LEMMA ForgetKeeps ==
  ASSUME NEW f \in Fleets, NEW w \in Workspaces, NEW g, g = Forget(f, w)
  PROVE  Kept(f, g)
<1>1. Forgotten(f, w, g)
  BY ForgetDoes
<1>2. g.wired \subseteq f.wired
  BY <1>1 DEF Forgotten
<1>. QED
  BY <1>1, <1>2 DEF Kept, Forgotten

LEMMA LostKeeps ==
  ASSUME NEW f \in Fleets, NEW es \in SUBSET Entry, NEW g, AllLost(f, es, g)
  PROVE  Kept(f, g)
<1>1. g.wired \subseteq f.wired
  BY DEF AllLost
<1>. QED
  BY <1>1 DEF Kept, AllLost

LEMMA MarksKeep ==
  ASSUME NEW f \in Fleets, NEW es, NEW yes \in BOOLEAN,
         NEW g, g = SetUpdating(f, es, yes)
  PROVE  Kept(f, g)
<1>1. MarksSet(f, es, yes, g)
  BY SetUpdatingDoes
<1>. QED
  BY <1>1 DEF Kept, MarksSet

LEMMA StartKeeps ==
  ASSUME NEW f \in Fleets, NEW cs, Owned(f, cs), NEW es \in SUBSET Entry,
         NEW window \in BOOLEAN, NEW g, Started(f, es, window, g),
         Spares(f, es)
  PROVE  Kept(f, g)
<1>1. ASSUME NEW l \in Loop
      PROVE  /\ g.loop[l].conn = f.loop[l].conn
             /\ f.loop[l].conn # None =>
                  /\ g.loop[l].pc = f.loop[l].pc
                  /\ g.loop[l].window = f.loop[l].window
             /\ g.loop[l].held = f.loop[l].held
  <2>1. CASE l[1] \in es /\ l = Spare(f, l[1])
    <3>1. f.loop[l].pc = "off" /\ LoopOwns(f, cs, l)
      BY <2>1 DEF Owned, Spares
    <3>2. f.loop[l].conn = None /\ f.loop[l].held = {}
      BY <3>1 DEF LoopOwns
    <3>3. g.loop[l].conn = None /\ g.loop[l].held = {}
      BY <2>1 DEF Started
    <3>. QED
      BY <3>2, <3>3
  <2>2. CASE ~(l[1] \in es /\ l = Spare(f, l[1]))
    <3>1. g.loop[l] = f.loop[l]
      BY <2>2 DEF Started
    <3>. QED
      BY <3>1
  <2>. QED
    BY <2>1, <2>2
<1>2. /\ g.wired = f.wired
      /\ \A e \in Entry : /\ g.entry[e].seen = f.entry[e].seen
                          /\ g.entry[e].missed = f.entry[e].missed
                          /\ g.entry[e].broken = f.entry[e].broken
                          /\ g.entry[e].conn = f.entry[e].conn
                          /\ g.entry[e].holding = f.entry[e].holding
                          /\ g.entry[e].twice = f.entry[e].twice
  BY DEF Started
<1>. QED
  BY <1>1, <1>2 DEF Kept

----------------------------------------------------------------------------
(* reconnect, onClosed and updateHost                                      *)

\* reconnect of an entry whose connection, if it has one, is closing.
LEMMA ReconnectInv ==
  ASSUME NEW f, NEW cs, NEW u, NEW n \in Nat, NEW G, NEW H, n <= MaxFaults,
         FleetInv(f, cs, u, n, G),
         NEW e \in Entry, Used(f, e),
         G \subseteq H, \A c \in H \ G : c[1] = e,
         u.pc = "asking" /\ u.entry = e => f.entry[e].twice,
         ~f.entry[e].twice /\ f.entry[e].link = "connected" =>
            f.entry[e].conn \in H \cup {None},
         NEW g, g = Reconnect(f, e)
  PROVE  FleetInv(g, cs, u, n, H) /\ Kept(f, g)
<1>1. f \in Fleets /\ Owned(f, cs)
  BY DEF FleetInv
<1>2. CASE f.entry[e].link = "reconnecting"
  <2>1. g = f
    BY <1>2 DEF Reconnect
  <2>2. Watched(f, u, H)
    <3>. SUFFICES ASSUME NEW d \in Entry PROVE EntryWatched(f, u, H, d)
      BY DEF Watched
    <3>1. EntryWatched(f, u, G, d)
      BY DEF FleetInv, Watched
    <3>2. d # e /\ f.entry[d].conn # None => f.entry[d].conn \notin H \ G
      BY <1>1, OwnConn
    <3>. QED
      BY <1>2, <3>1, <3>2 DEF EntryWatched
  <2>. QED
    BY <2>1, <2>2, Widen, KeptSame
<1>3. CASE f.entry[e].link # "reconnecting"
  <2>. DEFINE h == Lost(f, {e})
  <2>0. {e} \in SUBSET Entry /\ FALSE \in BOOLEAN
    OBVIOUS
  <2>1. g = StartRedial(h, {e}, FALSE)
    BY <1>3 DEF Reconnect
  <2>2. f.entry[e].link = "connected"
    BY <1>1, <1>3, FleetParts, EntryTypes
  <2>3. Calm(f, h) /\ FleetInv(h, cs, u, n, H)
    <3>. HIDE DEF h
    <3>1. h = Lost(f, {e})
      BY DEF h
    <3>2. \A d \in {e} : Used(f, d)
      OBVIOUS
    <3>3. \A c \in H \ G : c[1] \in {e}
      OBVIOUS
    <3>4. u.pc = "asking" /\ u.entry \in {e} => f.entry[u.entry].twice
      OBVIOUS
    <3>5. \A d \in {e} : ~f.entry[d].twice /\ f.entry[d].link = "connected" =>
                           f.entry[d].conn \in H \cup {None}
      OBVIOUS
    <3>. QED
      BY <2>0, <3>1, <3>2, <3>3, <3>4, <3>5, LostInv
  <2>4. AllLost(f, {e}, h)
    BY <1>1, LostDoes
  <2>5. h \in Fleets /\ Kept(f, h)
    <3>1. h \in Fleets
      BY <2>4 DEF AllLost
    <3>. QED
      BY <1>1, <2>0, <2>4, <3>1, LostKeeps
  <2>. HIDE DEF h
  <2>6. DialsOf(h, e) = DialsOf(f, e)
    BY <2>3, CalmDials
  <2>7. /\ h.entry[e].link = "reconnecting"
        /\ h.entry[e].twice = f.entry[e].twice
        /\ Used(h, e)
    BY <2>4 DEF AllLost, Used
  <2>8. Cardinality(DialsOf(h, e)) + One(h.entry[e].link = "connected")
          + One(Due(u, e)) <= n
    <3>. DEFINE d == Cardinality(DialsOf(f, e))
                q == One(Due(u, e))
    <3>1. d + One(f.entry[e].link = "connected") + q <= 1 + n
      BY DEF FleetInv, Counted, EntryCounted
    <3>2. d \in Nat /\ q \in {0, 1}
      BY DialsFinite, OneIs
    <3>3. One(f.entry[e].link = "connected") = 1
          /\ One(h.entry[e].link = "connected") = 0
      BY <2>2, <2>7, OneIs
    <3>. HIDE DEF d, q
    <3>4. d + 0 + q <= n
      BY <3>1, <3>2, <3>3
    <3>. QED
      BY <2>6, <3>3, <3>4 DEF d, q
  <2>9. ~h.entry[e].twice => \A l \in Loop : l[1] = e => ~Dialling(h, l)
    <3>1. ~f.entry[e].twice => Single(f, u, G, e)
      BY DEF FleetInv, Singles
    <3>. QED
      BY <2>2, <2>3, <2>7, <3>1, CalmPhases DEF Single
  <2>10. /\ FleetInv(g, cs, u, n, H) /\ Started(h, {e}, FALSE, g)
         /\ Spares(h, {e})
    <3>1. MayStart(h, u, n, {e}, FALSE)
      BY <2>7, <2>8, <2>9 DEF MayStart
    <3>. QED
      BY <2>0, <2>1, <2>3, <3>1, StartRedialInv
  <2>11. Kept(h, g)
    <3>1. Owned(h, cs)
      BY <2>3 DEF FleetInv
    <3>. QED
      BY <2>0, <2>5, <2>10, <3>1, StartKeeps
  <2>. QED
    BY <2>5, <2>10, <2>11, KeptTrans
<1>. QED
  BY <1>2, <1>3

\* onClosed of the entry of c.
LEMMA OnClosedInv ==
  ASSUME NEW f, NEW cs, NEW n \in Nat, n <= MaxFaults,
         update \in Updates, FleetInv(f, cs, update, n, {}), NEW c \in Conns,
         NEW g, g = IF c \in f.wired THEN OnClosed(f, c[1]) ELSE f
  PROVE  FleetInv(g, cs, update, n, {c}) /\ Kept(f, g)
<1>. DEFINE e == c[1]
            r == f.entry[e]
<1>0. e \in Entry
  BY ConnParts
<1>1. f \in Fleets /\ Owned(f, cs) /\ r \in EntryRecords
  BY <1>0, FleetParts DEF FleetInv
<1>2. \A d \in Entry : d # e /\ f.entry[d].conn # None => f.entry[d].conn # c
  BY <1>1, OwnConn
\* Nobody else watches c.
<1>3. ASSUME NEW d \in Entry, d # e PROVE EntryWatched(f, update, {c}, d)
  <2>1. EntryWatched(f, update, {}, d)
    BY DEF FleetInv, Watched
  <2>. QED
    BY <1>2, <1>3, <2>1 DEF EntryWatched
<1>4. CASE c \notin f.wired
  <2>1. EntryWatched(f, update, {}, e)
    BY <1>0 DEF FleetInv, Watched
  <2>2. EntryWatched(f, update, {c}, e)
    BY <1>4, <2>1 DEF EntryWatched
  <2>3. Watched(f, update, {c})
    BY <1>3, <2>2 DEF Watched
  <2>. QED
    BY <1>4, <2>3, Widen, KeptSame
<1>5. CASE c \in f.wired /\ r.updating
  <2>. DEFINE b == update.pc = "asking" /\ r.link = "connected"
              s == [r EXCEPT !.deaf = b]
  <2>1. g = WithEntry(f, e, s)
    <3>1. g = [f EXCEPT !.entry[e].deaf = b]
      BY <1>5 DEF OnClosed
    <3>2. f.entry \in [Entry -> EntryRecords] /\ f \in Fleets
      BY <1>1, FleetParts
    <3>. QED
      BY <1>0, <3>1, <3>2 DEF Fleets, WithEntry
  <2>. HIDE DEF b
  <2>2. b \in BOOLEAN
    BY DEF b
  <2>3. /\ s \in EntryRecords /\ s.link = r.link /\ s.seen = r.seen
        /\ s.missed = r.missed /\ s.updating = r.updating
        /\ s.holding = r.holding /\ s.conn = r.conn /\ s.stop = r.stop
        /\ s.broken = r.broken /\ s.deaf = b /\ s.twice = r.twice
    BY <1>1, <2>2 DEF EntryRecords
  <2>. HIDE DEF s
  <2>4. /\ g \in Fleets /\ g.made = f.made /\ g.listed = f.listed
        /\ g.wired = f.wired /\ g.loop = f.loop /\ g.entry[e] = s
        /\ \A d \in Entry : d # e => g.entry[d] = f.entry[d]
    BY <1>0, <1>1, <2>1, <2>3, PutEntry
  <2>5. \A d \in Entry : g.entry[d] = IF d = e THEN s ELSE f.entry[d]
    BY <2>4
  <2>6. EntryWatched(f, update, {}, e)
    BY <1>0 DEF FleetInv, Watched
  <2>7. Used(f, e)
    <3>1. Alive(cs, c)
      BY <1>1, <1>5 DEF Owned
    <3>. QED
      BY <1>0, <1>1, <3>1, UsedWhen
  <2>8. Calm(f, g)
    <3>1. f.listed \in [Workspaces -> Entry \cup {None}]
      BY <1>1, FleetParts
    <3>2. \A d \in Entry : /\ g.entry[d].conn = f.entry[d].conn
                           /\ g.entry[d].holding = f.entry[d].holding
                           /\ ~Used(f, d) => g.entry[d] = f.entry[d]
      BY <2>3, <2>5, <2>7
    <3>. QED
      BY <2>4, <3>1, <3>2 DEF Calm
  <2>9. Watched(g, update, {c})
    <3>. SUFFICES ASSUME NEW d \in Entry PROVE EntryWatched(g, update, {c}, d)
      BY DEF Watched
    <3>1. CASE d # e
      BY <1>3, <2>4, <2>5, <3>1 DEF EntryWatched
    <3>2. CASE d = e
      <4>1. update.pc # "off"
            /\ (update.pc = "redialling" => r.link = "reconnecting")
        BY <1>5, <2>6 DEF EntryWatched
      <4>2. ~b => r.link # "connected" \/ update.pc # "asking"
        BY DEF b
      <4>3. update.pc # "asking" => r.link = "reconnecting"
        <5>1. update.pc \in {"off", "asking", "redialling"}
          BY OffTypes DEF Updates
        <5>. QED
          BY <4>1, <5>1
      <4>4. s.deaf \/ s.link = "reconnecting"
        BY <1>1, <2>3, <4>2, <4>3, EntryTypes
      <4>. QED
        BY <2>3, <2>4, <2>5, <2>6, <3>2, <4>4 DEF EntryWatched
    <3>. QED
      BY <3>1, <3>2
  <2>10. FleetInv(g, cs, update, n, {c})
    <3>1. \A d \in Entry : /\ g.entry[d].link = f.entry[d].link
                           /\ g.entry[d].updating = f.entry[d].updating
                           /\ f.entry[d].twice => g.entry[d].twice
      BY <2>3, <2>5
    <3>2. {} \subseteq {c}
      OBVIOUS
    <3>. QED
      BY <2>8, <2>9, <3>1, <3>2, CalmButWatched
  <2>11. Kept(f, g)
    <3>1. \A d \in Entry : /\ g.entry[d].seen = f.entry[d].seen
                           /\ g.entry[d].missed = f.entry[d].missed
                           /\ g.entry[d].broken = f.entry[d].broken
                           /\ g.entry[d].conn = f.entry[d].conn
                           /\ g.entry[d].holding = f.entry[d].holding
                           /\ f.entry[d].twice => g.entry[d].twice
      BY <2>3, <2>5
    <3>. QED
      BY <2>4, <3>1 DEF Kept
  <2>. QED
    BY <2>10, <2>11
<1>6. CASE c \in f.wired /\ ~r.updating /\ f.listed[Of(e)] = None
  <2>1. g = f
    BY <1>6 DEF OnClosed
  <2>2. EntryWatched(f, update, {}, e)
    BY <1>0 DEF FleetInv, Watched
  <2>3. EntryWatched(f, update, {c}, e)
    BY <1>0, <1>6, <2>2, EntryParts DEF EntryWatched
  <2>4. Watched(f, update, {c})
    BY <1>3, <2>3 DEF Watched
  <2>. QED
    BY <2>1, <2>4, Widen, KeptSame
<1>7. CASE c \in f.wired /\ ~r.updating /\ f.listed[Of(e)] # None
  <2>1. g = Reconnect(f, e)
    BY <1>7 DEF OnClosed
  <2>2. Used(f, e)
    <3>1. Alive(cs, c)
      BY <1>1, <1>7 DEF Owned
    <3>. QED
      BY <1>0, <1>1, <3>1, UsedWhen
  <2>3. ~r.twice => Single(f, update, {}, e)
    BY <1>0 DEF FleetInv, Singles
  <2>4. update.pc = "asking" /\ update.entry = e => r.twice
    BY <1>7, <2>3 DEF Single
  <2>5. ~r.twice => r.conn = c
    BY <1>7, <2>3 DEF Single
  <2>. QED
    BY <1>0, <2>1, <2>2, <2>4, <2>5, ReconnectInv
<1>. QED
  BY <1>4, <1>5, <1>6, <1>7

\* Some entries are dialled twice.
MarkTwice(f, es) ==
  [f EXCEPT !.entry = [p \in Entry |->
     IF p \in es THEN [f.entry[p] EXCEPT !.twice = TRUE] ELSE f.entry[p]]]

LEMMA MarkTwiceDoes ==
  ASSUME NEW f, NEW cs, NEW u, NEW n, NEW G, FleetInv(f, cs, u, n, G),
         NEW es, \A e \in es : Used(f, e),
         NEW g, g = MarkTwice(f, es)
  PROVE  /\ FleetInv(g, cs, u, n, G) /\ Calm(f, g) /\ Kept(f, g)
         /\ g \in Fleets /\ g.loop = f.loop /\ g.made = f.made
         /\ g.listed = f.listed
         /\ \A e \in Entry : /\ g.entry[e].link = f.entry[e].link
                             /\ e \in es => g.entry[e].twice
<1>0. /\ f \in Fleets
      /\ f.listed \in [Workspaces -> Entry \cup {None}]
      /\ f.made \in [Workspaces -> Nat]
      /\ f.entry \in [Entry -> EntryRecords]
      /\ f.wired \in SUBSET Conns
      /\ f.loop \in [Loop -> LoopRecords]
  BY FleetParts DEF FleetInv
<1>. DEFINE en == [p \in Entry |->
                     IF p \in es THEN [f.entry[p] EXCEPT !.twice = TRUE]
                     ELSE f.entry[p]]
<1>1. g = [f EXCEPT !.entry = en]
  BY DEF MarkTwice
<1>2. \A e \in Entry : /\ en[e] \in EntryRecords
                       /\ en[e].updating = f.entry[e].updating
                       /\ en[e].link = f.entry[e].link
                       /\ en[e].seen = f.entry[e].seen
                       /\ en[e].missed = f.entry[e].missed
                       /\ en[e].holding = f.entry[e].holding
                       /\ en[e].conn = f.entry[e].conn
                       /\ en[e].broken = f.entry[e].broken
                       /\ en[e].deaf = f.entry[e].deaf
                       /\ f.entry[e].twice => en[e].twice
                       /\ e \in es => en[e].twice
                       /\ e \notin es => en[e] = f.entry[e]
  <2>. TAKE e \in Entry
  <2>1. CASE e \notin es
    BY <2>1, <1>0
  <2>2. CASE e \in es
    <3>. DEFINE r == f.entry[e]
    <3>1. r \in EntryRecords
      BY <1>0
    <3>2. en[e] = [r EXCEPT !.twice = TRUE]
      BY <2>2
    <3>. HIDE DEF r, en
    <3>3. /\ en[e] \in EntryRecords
          /\ en[e].link = r.link /\ en[e].seen = r.seen
          /\ en[e].missed = r.missed /\ en[e].updating = r.updating
          /\ en[e].holding = r.holding /\ en[e].conn = r.conn
          /\ en[e].broken = r.broken /\ en[e].deaf = r.deaf
          /\ en[e].twice
      BY <3>1, <3>2 DEF EntryRecords
    <3>. QED
      BY <3>3, <2>2 DEF r
  <2>. QED
    BY <2>1, <2>2
<1>3. en \in [Entry -> EntryRecords]
  BY <1>2
<1>. HIDE DEF en
<1>4. /\ g \in Fleets /\ g.made = f.made /\ g.listed = f.listed
      /\ g.loop = f.loop /\ g.wired = f.wired /\ g.entry = en
  BY <1>0, <1>1, <1>3 DEF Fleets
<1>5. Calm(f, g) /\ FleetInv(g, cs, u, n, G)
  <2>1. \A e \in Entry :
           /\ g.entry[e].link = f.entry[e].link
           /\ g.entry[e].updating = f.entry[e].updating
           /\ g.entry[e].conn = f.entry[e].conn
           /\ g.entry[e].holding = f.entry[e].holding
           /\ f.entry[e].deaf => g.entry[e].deaf
           /\ f.entry[e].twice => g.entry[e].twice
           /\ Used(f, e) \/ g.entry[e] = f.entry[e]
    BY <1>2, <1>4
  <2>. QED
    BY <1>4, <2>1, Ghosts
<1>6. Kept(f, g)
  BY <1>2, <1>4 DEF Kept
<1>. QED
  BY <1>2, <1>4, <1>5, <1>6

\* The update is over, and its peers are dialled.
LEMMA AfterUpdateInv ==
  ASSUME NEW f, NEW cs, NEW n \in Nat, NEW G, n <= MaxFaults,
         update \in Updates, update.pc = "redialling",
         FleetInv(f, cs, update, n, G),
         \A l \in Loop : ~f.loop[l].window,
         NEW failed \in BOOLEAN,
         failed => Cardinality(DialsOf(f, update.entry))
                     + One(f.entry[update.entry].link = "connected") <= n,
         NEW g, g = AfterUpdate(f, failed)
  PROVE  FleetInv(g, cs, NoUpdate, n, G) /\ Kept(f, g)
<1>. DEFINE Again == {p \in update.peers
                             \cup (IF failed THEN {update.entry} ELSE {}) :
                        f.listed[Of(p)] # None}
            Dialled(p) == \/ f.entry[p].link = "connected"
                          \/ \E l \in Loop : l[1] = p /\ f.loop[l].pc # "off"
            twice == {p \in Again : Dialled(p)}
            m == SetUpdating(f, MarkedBy(update), FALSE)
            h == MarkTwice(m, twice)
            no == FALSE
<1>0. /\ f \in Fleets /\ Owned(f, cs) /\ update.pc # "off"
      /\ update.entry \in Entry /\ update.peers \subseteq Entry
  BY OffTypes DEF FleetInv, Updates
<1>1. g = StartRedial(h, Again, no)
  <2>1. h = [m EXCEPT !.entry = [p \in Entry |->
              IF p \in Again /\ Dialled(p)
              THEN [m.entry[p] EXCEPT !.twice = TRUE] ELSE m.entry[p]]]
    BY DEF MarkTwice
  <2>2. m = SetUpdating(f, Marked, FALSE)
    BY DEF MarkedBy, Marked
  <2>. HIDE DEF m, h
  <2>. QED
    BY <2>1, <2>2 DEF AfterUpdate
<1>2. Again \in SUBSET Entry /\ Again \subseteq MarkedBy(update)
  BY <1>0 DEF MarkedBy
<1>3. \A p \in MarkedBy(update) : Used(f, p)
  BY <1>0 DEF FleetInv, Updated
<1>4. twice \subseteq Again
  OBVIOUS
<1>5. \A p \in Again : p \in update.peers \/ (failed /\ p = update.entry)
  OBVIOUS
<1>6. \A p \in Again : p \notin twice => ~Dialled(p)
  OBVIOUS
<1>7. no \in BOOLEAN /\ ~no
  OBVIOUS
<1>. HIDE DEF Again, twice, h, no
<1>8. Calm(f, m) /\ FleetInv(m, cs, NoUpdate, n, G) /\ Kept(f, m)
  <2>1. m = SetUpdating(f, MarkedBy(update), FALSE)
    OBVIOUS
  <2>. HIDE DEF m
  <2>. QED
    BY <1>0, <2>1, ClearMarksInv, MarksKeep
<1>9. MarksSet(f, MarkedBy(update), FALSE, m)
  BY <1>0, SetUpdatingDoes
<1>. HIDE DEF m
<1>10. /\ FleetInv(h, cs, NoUpdate, n, G) /\ Calm(m, h) /\ Kept(m, h)
       /\ h \in Fleets /\ h.loop = m.loop /\ h.made = m.made
       /\ h.listed = m.listed
       /\ \A e \in Entry : /\ h.entry[e].link = m.entry[e].link
                           /\ e \in twice => h.entry[e].twice
  <2>1. \A e \in twice : Used(m, e)
    BY <1>2, <1>3, <1>4, <1>9 DEF MarksSet, Used
  <2>2. h = MarkTwice(m, twice)
    BY DEF h
  <2>. QED
    BY <1>8, <2>1, <2>2, MarkTwiceDoes
<1>11. h.loop = f.loop /\ h.made = f.made
       /\ \A e \in Entry : h.entry[e].link = f.entry[e].link
  BY <1>9, <1>10 DEF MarksSet
<1>12. ASSUME NEW p \in Again
       PROVE  /\ Used(h, p)
              /\ Cardinality(DialsOf(h, p)) + One(h.entry[p].link = "connected")
                   + One(Due(NoUpdate, p)) <= n
              /\ ~h.entry[p].twice =>
                   /\ h.entry[p].link = "reconnecting"
                   /\ \A l \in Loop : l[1] = p => ~Dialling(h, l)
  <2>0. p \in Entry
    BY <1>2
  <2>1. Used(h, p)
    BY <1>2, <1>3, <1>11 DEF Used
  <2>2. DialsOf(h, p) = DialsOf(f, p)
    BY <1>11 DEF DialsOf, Dialling
  <2>. DEFINE d == Cardinality(DialsOf(f, p))
              k == One(f.entry[p].link = "connected")
  <2>3. d + k <= n /\ d \in Nat /\ k \in {0, 1}
    <3>1. d \in Nat /\ k \in {0, 1}
      BY <2>0, DialsFinite, OneIs
    <3>2. CASE p \in update.peers
      <4>1. One(Due(update, p)) = 1
        BY <3>2, OneIs DEF Due
      <4>2. d + k + One(Due(update, p)) <= 1 + n
        BY <2>0 DEF FleetInv, Counted, EntryCounted
      <4>. HIDE DEF d, k
      <4>. QED
        BY <3>1, <4>1, <4>2
    <3>3. CASE failed /\ p = update.entry
      BY <3>1, <3>3
    <3>. QED
      BY <1>5, <3>2, <3>3
  <2>4. One(Due(NoUpdate, p)) = 0
    BY OffTypes, OneIs DEF Due
  <2>5. Cardinality(DialsOf(h, p)) + One(h.entry[p].link = "connected")
          + One(Due(NoUpdate, p)) <= n
    <3>1. h.entry[p].link = f.entry[p].link
      BY <1>11, <2>0
    <3>2. d + k + 0 <= n
      <4>. HIDE DEF d, k
      <4>. QED
        BY <2>3
    <3>. QED
      BY <2>2, <2>4, <3>1, <3>2
  <2>6. ASSUME ~h.entry[p].twice
        PROVE  /\ h.entry[p].link = "reconnecting"
               /\ \A l \in Loop : l[1] = p => ~Dialling(h, l)
    <3>1. p \notin twice
      BY <1>10, <2>0, <2>6
    <3>2. ~Dialled(p)
      BY <1>6, <3>1
    <3>3. f.entry[p].link \in {"connected", "reconnecting"}
      BY <1>0, <2>0, FleetParts, EntryTypes
    <3>. QED
      BY <1>11, <2>0, <3>2, <3>3 DEF Dialling
  <2>. QED
    BY <2>1, <2>5, <2>6
<1>13. /\ FleetInv(g, cs, NoUpdate, n, G) /\ Started(h, Again, no, g)
       /\ Spares(h, Again)
  <2>1. MayStart(h, NoUpdate, n, Again, no)
    <3>. HIDE DEF Dialled
    <3>. QED
      BY <1>7, <1>12 DEF MayStart
  <2>2. FleetInv(h, cs, NoUpdate, n, G)
    BY <1>10
  <2>3. Again \in SUBSET Entry /\ no \in BOOLEAN
    BY <1>2, <1>7
  <2>. QED
    BY <1>1, <2>1, <2>2, <2>3, StartRedialInv
<1>14. Kept(h, g)
  <2>1. Owned(h, cs)
    BY <1>10 DEF FleetInv
  <2>. QED
    BY <1>2, <1>7, <1>10, <1>13, <2>1, StartKeeps
<1>. QED
  BY <1>8, <1>10, <1>13, <1>14, KeptTrans

----------------------------------------------------------------------------
(* Connections that are closed                                             *)

\* From f to g those who await an answer on G are told, and G is taken away.
Went(f, G, g) ==
  \E h, k : Rejections(f, G, h) /\ Kept(h, k) /\ Dropped(k, G, g)

LEMMA GoneInv ==
  ASSUME NEW f, NEW cs, NEW u, NEW n \in Nat, n <= MaxFaults, NEW G,
         FleetInv(f, cs, u, n, G),
         G \subseteq Conns, \A c, d \in G : c[1] = d[1] => c = d,
         \A l \in Loop : Bounded(f.loop[l].held),
         u.pc = "asking" => u.conn \in Conns /\ u.conn \notin G,
         update \in Updates,
         \A l \in Loop : Over(f, G, l) /\ f.loop[l].window => u = update,
         NEW ds, \A c \in Conns : Alive(ds, c) <=> Alive(cs, c) /\ c \notin G,
         NEW v, v = IF \E l \in Loop : Over(f, G, l) /\ f.loop[l].window
                    THEN NoUpdate ELSE u,
         NEW g, g = Gone(f, G)
  PROVE  FleetInv(g, ds, v, n, {}) /\ Went(f, G, g)
<1>. DEFINE h == ToldOnly(f, G)
            k == Told(f, G)
<1>1. /\ FleetInv(h, cs, u, n, G) /\ Rejections(f, G, h)
      /\ \A l \in Loop : h.loop[l].conn \notin G
      /\ \A l \in Loop : h.loop[l].window =>
           f.loop[l].window /\ ~Over(f, G, l)
  <2>1. h = ToldOnly(f, G)
    OBVIOUS
  <2>. HIDE DEF h
  <2>. QED
    BY <2>1, ToldOnlyInv
<1>2. FleetInv(k, cs, v, n, G) /\ Kept(h, k)
  <2>1. CASE \E l \in Loop : Over(f, G, l) /\ f.loop[l].window
    <3>1. PICK l \in Loop : Over(f, G, l) /\ f.loop[l].window
      BY <2>1
    <3>2. u = update /\ v = NoUpdate /\ update.pc = "redialling"
      BY <3>1 DEF FleetInv, Updated
    <3>3. \A m \in Loop : ~h.loop[m].window
      BY <1>1, <3>1 DEF FleetInv, Updated
    <3>4. k = AfterUpdate(h, FALSE)
      BY <2>1, ToldIs
    <3>5. FALSE \in BOOLEAN
      OBVIOUS
    <3>. HIDE DEF h, k
    <3>. QED
      BY <1>1, <3>2, <3>3, <3>4, <3>5, AfterUpdateInv
  <2>2. CASE ~ \E l \in Loop : Over(f, G, l) /\ f.loop[l].window
    <3>1. k = h /\ v = u
      BY <2>2, ToldIs
    <3>. HIDE DEF h, k
    <3>. QED
      BY <1>1, <3>1, KeptSame
  <2>. QED
    BY <2>1, <2>2
<1>3. g = Unwired(k, G)
  BY DEF Gone
<1>. HIDE DEF h, k
<1>4. \A l \in Loop : k.loop[l].conn \notin G
  BY <1>1, <1>2 DEF Kept
<1>5. v.pc = "asking" => v.conn \in Conns /\ v.conn \notin G
  BY OffTypes
<1>6. Dropped(k, G, g)
  BY <1>2, <1>3, DropDoes DEF FleetInv
<1>7. FleetInv(g, ds, v, n, {})
  BY <1>2, <1>3, <1>4, <1>5, DropInv
<1>. QED
  BY <1>1, <1>2, <1>6, <1>7 DEF Went

LEMMA WentConn ==
  ASSUME NEW f, NEW G, NEW g, Went(f, G, g), NEW e \in Entry
  PROVE  /\ f.entry[e].twice => g.entry[e].twice
         /\ g.entry[e].conn = IF f.entry[e].conn \in G THEN None
                              ELSE f.entry[e].conn
<1>1. PICK h, k : Rejections(f, G, h) /\ Kept(h, k) /\ Dropped(k, G, g)
  BY DEF Went
<1>2. h.entry[e].conn = f.entry[e].conn /\ h.entry[e].twice = f.entry[e].twice
  BY <1>1 DEF Rejections, IsDelivery
<1>. QED
  BY <1>1, <1>2 DEF Kept, Dropped

\* What becomes of the client when c is closed.
Closes(f, c, g) ==
  \E h, k : Kept(f, h) /\ Went(h, {c}, k) /\ Kept(k, g)

LEMMA ClosingInv ==
  ASSUME NEW n \in Nat, n <= MaxFaults,
         FleetInv(fleet, conn, update, n, {}),
         update \in Updates, conn \in [Conns -> ConnRecords],
         \A l \in Loop : Bounded(fleet.loop[l].held),
         NEW c \in Conns, NEW detached \in BOOLEAN, Closing(c, detached)
  PROVE  FleetInv(fleet', conn', update', n, {}) /\ Closes(fleet, c, fleet')
<1>. DEFINE Asking == update.pc = "asking" /\ update.conn = c
            Redialled == \E l \in Loop : /\ fleet.loop[l].conn = c
                                         /\ fleet.loop[l].window
                                         /\ fleet.loop[l].pc # "hello"
            f == IF c \in fleet.wired THEN OnClosed(fleet, c[1]) ELSE fleet
            g == IF detached THEN Forget(f, To(c)) ELSE f
            h == Gone(g, {c})
            ds == [conn EXCEPT ![c] = Unused]
            u == IF Asking THEN ToldOf(update) ELSE update
            v == IF Redialled THEN NoUpdate ELSE u
<1>1. /\ update' = IF Asking \/ Redialled THEN NoUpdate ELSE update
      /\ conn' = ds
      /\ fleet' = IF Asking THEN Reconnect(Unmarked(h), update.entry) ELSE h
  BY DEF Closing
<1>0. {c} \subseteq Conns /\ To(c) \in Workspaces
  BY ConnParts
<1>2. \A d \in Conns : Alive(ds, d) <=> Alive(conn, d) /\ d \notin {c}
  BY DEF Alive, Unused
<1>3. FleetInv(f, conn, update, n, {c}) /\ Kept(fleet, f)
  <2>1. f = IF c \in fleet.wired THEN OnClosed(fleet, c[1]) ELSE fleet
    OBVIOUS
  <2>. HIDE DEF f
  <2>. QED
    BY <2>1, OnClosedInv
<1>. HIDE DEF f
<1>4. FleetInv(g, conn, update, n, {c}) /\ Kept(f, g)
  <2>1. CASE detached
    <3>1. g = Forget(f, To(c))
      BY <2>1
    <3>. HIDE DEF g
    <3>2. f \in Fleets
      BY <1>3 DEF FleetInv
    <3>. QED
      BY <1>0, <1>3, <3>1, <3>2, ForgetInv, ForgetKeeps
  <2>2. CASE ~detached
    BY <1>3, <2>2, KeptSame
  <2>. QED
    BY <2>1, <2>2
<1>. HIDE DEF g
<1>5. Kept(fleet, g)
  BY <1>3, <1>4, KeptTrans
<1>6. FleetInv(g, conn, u, n, {c})
  <2>1. CASE Asking
    BY <1>4, <2>1, ToldInv
  <2>2. CASE ~Asking
    BY <1>4, <2>2
  <2>. QED
    BY <2>1, <2>2
<1>7. Asking => /\ u.pc = "told" /\ u.entry = update.entry
                /\ MarkedBy(u) = Marked
  <2>1. Marked = MarkedBy(update)
    BY DEF Marked, MarkedBy
  <2>. QED
    BY <1>4, <2>1, ToldInv
<1>8. Redialled <=> \E l \in Loop : Over(g, {c}, l) /\ g.loop[l].window
  <2>1. \A l \in Loop : /\ g.loop[l].conn = fleet.loop[l].conn
                        /\ fleet.loop[l].conn # None =>
                             /\ g.loop[l].pc = fleet.loop[l].pc
                             /\ g.loop[l].window = fleet.loop[l].window
    BY <1>5 DEF Kept
  <2>2. c # None
    BY ConnParts
  <2>. QED
    BY <2>1, <2>2 DEF Over
<1>9. Redialled => ~Asking
  BY DEF FleetInv, Updated
<1>10. FleetInv(h, ds, v, n, {}) /\ Went(g, {c}, h)
  <2>1. \A l \in Loop : Bounded(g.loop[l].held)
    BY <1>5 DEF Kept
  <2>2. u.pc = "asking" => u.conn \in Conns /\ u.conn \notin {c}
    <3>1. u.pc = "asking" => u = update /\ ~Asking
      BY <1>7
    <3>2. update.pc = "asking" => update.conn \in Conns
      BY OffTypes DEF Updates
    <3>. QED
      BY <3>1, <3>2
  <2>3. \A l \in Loop : Over(g, {c}, l) /\ g.loop[l].window => u = update
    BY <1>8, <1>9
  <2>4. v = IF \E l \in Loop : Over(g, {c}, l) /\ g.loop[l].window
            THEN NoUpdate ELSE u
    BY <1>8
  <2>5. h = Gone(g, {c})
    OBVIOUS
  <2>6. \A d, e \in {c} : d[1] = e[1] => d = e
    OBVIOUS
  <2>. HIDE DEF h, v, u, ds
  <2>. QED
    BY <1>0, <1>2, <1>6, <2>1, <2>2, <2>3, <2>4, <2>5, <2>6, GoneInv
<1>. HIDE DEF h, ds
<1>11. CASE ~Asking
  <2>1. fleet' = h /\ update' = v /\ conn' = ds
    BY <1>1, <1>11
  <2>2. Kept(h, h)
    BY KeptSame
  <2>. QED
    BY <1>5, <1>10, <2>1, <2>2 DEF Closes
<1>12. CASE Asking
  <2>. DEFINE m == SetUpdating(h, MarkedBy(u), FALSE)
              e == update.entry
  <2>0. e \in Entry /\ Used(fleet, e)
    BY <1>12, OffTypes DEF Updates, FleetInv, Updated, MarkedBy
  <2>1. v = u /\ u.pc # "off" /\ update' = NoUpdate /\ conn' = ds
    BY <1>1, <1>7, <1>9, <1>12
  <2>2. fleet' = Reconnect(m, e)
    BY <1>1, <1>7, <1>12 DEF Unmarked
  <2>3. \A l \in Loop : ~h.loop[l].window
    BY <1>7, <1>10, <1>12, <2>1 DEF FleetInv, Updated
  <2>4. FleetInv(m, ds, NoUpdate, n, {}) /\ Kept(h, m)
    <3>1. m = SetUpdating(h, MarkedBy(u), FALSE)
      OBVIOUS
    <3>2. h \in Fleets
      BY <1>10 DEF FleetInv
    <3>. HIDE DEF m, u
    <3>. QED
      BY <1>10, <2>1, <2>3, <3>1, <3>2, ClearMarksInv, MarksKeep
  <2>9. MarksSet(h, MarkedBy(u), FALSE, m)
    BY <1>10, SetUpdatingDoes DEF FleetInv
  <2>. HIDE DEF m
  <2>5. Used(m, e)
    <3>2. v.pc # "off" /\ v.entry = e
      BY <1>7, <1>12, <2>1
    <3>3. Used(h, e)
      BY <1>10, <3>2 DEF FleetInv, Updated, MarkedBy
    <3>. QED
      BY <2>9, <3>3 DEF Used, MarksSet
  <2>6. m.entry[e].twice \/ m.entry[e].conn = None
    <3>1. fleet.entry[e].twice \/ fleet.entry[e].conn = c
      BY <1>12, <2>0 DEF FleetInv, Singles, Single
    <3>2. g.entry[e].twice \/ g.entry[e].conn = c
      BY <1>5, <2>0, <3>1 DEF Kept
    <3>3. h.entry[e].twice \/ h.entry[e].conn = None
      BY <1>10, <2>0, <3>2, WentConn
    <3>. QED
      BY <2>0, <2>4, <3>3 DEF Kept
  <2>7. FleetInv(fleet', ds, NoUpdate, n, {}) /\ Kept(m, fleet')
    BY <2>0, <2>2, <2>4, <2>5, <2>6, OffTypes, ReconnectInv
  <2>8. Kept(h, fleet')
    BY <2>4, <2>7, KeptTrans
  <2>. QED
    BY <1>5, <1>10, <2>1, <2>7, <2>8 DEF Closes
<1>. QED
  BY <1>11, <1>12

----------------------------------------------------------------------------
(* Redials that return                                                     *)

\* From f to x the loop l, still there, has done what it does before it ends.
Ending(f, l, x) ==
  /\ x \in Fleets /\ f.loop[l].pc # "off"
  /\ x.made = f.made /\ x.listed = f.listed /\ x.wired = f.wired
  /\ x.loop = f.loop
  /\ \A e \in Entry : /\ x.entry[e].link = f.entry[e].link
                      /\ x.entry[e].updating = f.entry[e].updating
                      /\ x.entry[e].conn = f.entry[e].conn
                      /\ x.entry[e].deaf = f.entry[e].deaf
                      /\ x.entry[e].twice = f.entry[e].twice
                      /\ e # l[1] => x.entry[e] = f.entry[e]
  /\ x.entry[l[1]].holding = IF f.entry[l[1]].holding = l THEN None
                             ELSE f.entry[l[1]].holding

\* From x to k the loop l ends.
Ended(x, l, k) ==
  /\ k \in Fleets
  /\ k.made = x.made /\ k.listed = x.listed /\ k.wired = x.wired
  /\ k.entry = x.entry /\ k.loop = [x.loop EXCEPT ![l] = IdleLoop]

LEMMA EndingSame ==
  ASSUME NEW f \in Fleets, NEW cs, Owned(f, cs), NEW l \in Loop,
         f.loop[l].pc = "dial"
  PROVE  Ending(f, l, f)
<1>1. l[1] \in Entry /\ l # None
  BY LoopParts
<1>2. EntryOwns(f, cs, l[1])
  BY <1>1 DEF Owned
<1>3. f.entry[l[1]].holding # l
  BY <1>1, <1>2 DEF EntryOwns, Reading
<1>. QED
  BY <1>3 DEF Ending

LEMMA EndedInv ==
  ASSUME NEW f, NEW cs, NEW u, NEW n \in Nat, NEW G, FleetInv(f, cs, u, n, G),
         NEW l \in Loop, NEW x, Ending(f, l, x), NEW k, Ended(x, l, k)
  PROVE  /\ FleetInv(k, cs, u, n, G) /\ ~k.loop[l].window
         /\ \A m \in Loop : m # l => k.loop[m] = f.loop[m]
         /\ f.loop[l].pc = "dial" =>
              Cardinality(DialsOf(k, l[1])) + 1 <= Cardinality(DialsOf(f, l[1]))
<1>0. f \in Fleets /\ Owned(f, cs) /\ l[1] \in Entry /\ l # None
  BY LoopParts DEF FleetInv
<1>1. /\ k \in Fleets /\ k.entry = x.entry
      /\ k.made = f.made /\ k.listed = f.listed /\ k.wired = f.wired
  BY DEF Ending, Ended
<1>2. k.loop[l] = IdleLoop /\ \A m \in Loop : m # l => k.loop[m] = f.loop[m]
  <2>1. f.loop \in [Loop -> LoopRecords]
    BY <1>0, FleetParts
  <2>. QED
    BY <2>1 DEF Ending, Ended
<1>3. Used(f, l[1])
  BY <1>0, UsedWhen DEF Ending
<1>4. ASSUME NEW e \in Entry, k.entry[e].holding # None
      PROVE  /\ k.entry[e].holding = f.entry[e].holding
             /\ k.loop[k.entry[e].holding] = f.loop[k.entry[e].holding]
  <2>1. f.entry[e].holding \in Loop \cup {None} /\ EntryOwns(f, cs, e)
    BY <1>0, FleetParts, EntryTypes DEF Owned
  <2>2. CASE e = l[1]
    BY <1>0, <1>1, <1>2, <1>4, <2>1, <2>2 DEF Ending
  <2>3. CASE e # l[1]
    <3>1. k.entry[e] = f.entry[e]
      BY <1>1, <2>3 DEF Ending
    <3>2. k.entry[e].holding # l
      BY <1>4, <2>1, <2>3, <3>1 DEF EntryOwns
    <3>. QED
      BY <1>2, <1>4, <2>1, <3>1, <3>2
  <2>. QED
    BY <2>2, <2>3
<1>5. Rested(f, k)
  <2>1. \A e \in Entry :
       /\ k.entry[e].link = f.entry[e].link
       /\ k.entry[e].updating = f.entry[e].updating
       /\ k.entry[e].conn = f.entry[e].conn
       /\ k.entry[e].deaf = f.entry[e].deaf
       /\ k.entry[e].twice = f.entry[e].twice
       /\ ~Used(f, e) => k.entry[e] = f.entry[e]
    BY <1>1, <1>3 DEF Ending
  <2>2. ASSUME NEW m \in Loop, m # l, Reading(f, m), f.entry[m[1]].holding = m
        PROVE  k.entry[m[1]].holding = m
    <3>1. m[1] \in Entry
      BY LoopParts
    <3>. QED
      BY <1>1, <2>2, <3>1 DEF Ending
  <2>. QED
    BY <1>1, <1>2, <1>4, <2>1, <2>2 DEF Rested
<1>6. FleetInv(k, cs, u, n, G)
  BY <1>5, RestedInv
<1>7. ASSUME f.loop[l].pc = "dial"
      PROVE  Cardinality(DialsOf(k, l[1])) + 1 <= Cardinality(DialsOf(f, l[1]))
  <2>. DEFINE D == DialsOf(f, l[1])
              E == DialsOf(k, l[1])
  <2>0. l[2] \in 1..MaxLoops /\ l = <<l[1], l[2]>>
    BY LoopParts
  <2>1. l[2] \in D
    BY <1>7, <2>0 DEF DialsOf, Dialling
  <2>2. E \subseteq D \ {l[2]}
    <3>1. ASSUME NEW i \in E PROVE i \in D /\ i # l[2]
      <4>1. <<l[1], i>> \in Loop /\ Dialling(k, <<l[1], i>>)
            /\ i \in 1..MaxLoops
        BY <1>0, LoopIs DEF DialsOf
      <4>2. ~Dialling(k, l)
        BY <1>2, FreshRecords DEF Dialling
      <4>3. <<l[1], i>> # l
        BY <4>1, <4>2
      <4>4. Dialling(f, <<l[1], i>>)
        BY <1>2, <4>1, <4>3 DEF Dialling
      <4>. QED
        BY <2>0, <4>1, <4>3, <4>4 DEF DialsOf
    <3>. QED
      BY <3>1
  <2>3. IsFiniteSet(D) /\ Cardinality(D) \in Nat /\ Cardinality(E) \in Nat
    BY <1>0, DialsFinite
  <2>. HIDE DEF D, E
  <2>4. IsFiniteSet(D \ {l[2]}) /\ Cardinality(D \ {l[2]}) = Cardinality(D) - 1
    BY <2>1, <2>3, FS_RemoveElement
  <2>5. Cardinality(E) <= Cardinality(D \ {l[2]})
    BY <2>2, <2>4, FS_Subset
  <2>6. Cardinality(E) + 1 <= Cardinality(D)
    BY <2>3, <2>4, <2>5
  <2>. QED
    BY <2>6 DEF D, E
<1>8. ~k.loop[l].window
  BY <1>2, FreshRecords
<1>. QED
  BY <1>2, <1>6, <1>7, <1>8

LEMMA ReturnInv ==
  ASSUME NEW f, NEW cs, NEW n \in Nat, n <= MaxFaults, update \in Updates,
         FleetInv(f, cs, update, n, {}),
         NEW l \in Loop, NEW x, Ending(f, l, x),
         NEW failed \in BOOLEAN, failed => f.loop[l].pc = "dial",
         NEW g, g = Return(x, l, failed),
         NEW v, v = IF f.loop[l].window THEN NoUpdate ELSE update
  PROVE  /\ FleetInv(g, cs, v, n, {})
         /\ \E k : Ended(x, l, k) /\ Kept(k, g)
<1>. DEFINE k == [x EXCEPT !.loop[l] = IdleLoop]
<1>1. Ended(x, l, k)
  <2>1. k = [x EXCEPT !.loop[l] = IdleLoop]
    OBVIOUS
  <2>2. x \in Fleets
    BY DEF Ending
  <2>3. IdleLoop \in LoopRecords
    BY FreshRecords
  <2>. DEFINE lp == [x.loop EXCEPT ![l] = IdleLoop]
  <2>5. lp \in [Loop -> LoopRecords]
    BY <2>2, <2>3, FleetParts
  <2>6. k = [x EXCEPT !.loop = lp]
    BY <2>1
  <2>. HIDE DEF k, lp
  <2>7. /\ k \in Fleets /\ k.made = x.made /\ k.listed = x.listed
        /\ k.wired = x.wired /\ k.entry = x.entry
        /\ k.loop = lp
    BY <2>2, <2>5, <2>6 DEF Fleets
  <2>4. /\ k \in Fleets /\ k.made = x.made /\ k.listed = x.listed
        /\ k.wired = x.wired /\ k.entry = x.entry
        /\ k.loop = [x.loop EXCEPT ![l] = IdleLoop]
    BY <2>7 DEF lp
  <2>. QED
    BY <2>4 DEF Ended
<1>2. x.loop = f.loop
  BY DEF Ending
<1>3. g = IF f.loop[l].window THEN AfterUpdate(k, failed) ELSE k
  BY <1>2 DEF Return
<1>. HIDE DEF k
<1>4. /\ FleetInv(k, cs, update, n, {}) /\ ~k.loop[l].window
      /\ \A m \in Loop : m # l => k.loop[m] = f.loop[m]
      /\ f.loop[l].pc = "dial" =>
           Cardinality(DialsOf(k, l[1])) + 1 <= Cardinality(DialsOf(f, l[1]))
  BY <1>1, EndedInv
<1>5. CASE ~f.loop[l].window
  BY <1>1, <1>3, <1>4, <1>5, KeptSame
<1>6. CASE f.loop[l].window
  <2>1. update.pc = "redialling" /\ l[1] = update.entry
    BY <1>6 DEF FleetInv, Updated
  <2>2. \A m \in Loop : ~k.loop[m].window
    BY <1>4, <1>6 DEF FleetInv, Updated
  <2>3. failed => Cardinality(DialsOf(k, update.entry))
                    + One(k.entry[update.entry].link = "connected") <= n
    <3>. SUFFICES ASSUME failed
                  PROVE Cardinality(DialsOf(k, update.entry))
                    + One(k.entry[update.entry].link = "connected") <= n
      OBVIOUS
    <3>0. l[1] \in Entry
      BY LoopParts
    <3>. DEFINE e == l[1]
                d == Cardinality(DialsOf(f, e))
                d2 == Cardinality(DialsOf(k, e))
                p == One(f.entry[e].link = "connected")
                q == One(Due(update, e))
    <3>1. d + p + q <= 1 + n
      BY <3>0 DEF FleetInv, Counted, EntryCounted
    <3>2. d \in Nat /\ d2 \in Nat /\ p \in {0, 1} /\ q \in {0, 1}
      BY <3>0, DialsFinite, OneIs
    <3>3. d2 + 1 <= d
      BY <1>4
    <3>4. k.entry[e].link = f.entry[e].link
      BY <1>1, <3>0 DEF Ending, Ended
    <3>. HIDE DEF d, d2, p, q
    <3>5. d2 + p <= n
      BY <3>1, <3>2, <3>3
    <3>. QED
      BY <2>1, <3>4, <3>5 DEF d2, p
  <2>4. g = AfterUpdate(k, failed) /\ v = NoUpdate
    BY <1>3, <1>6
  <2>5. FleetInv(g, cs, NoUpdate, n, {}) /\ Kept(k, g)
    BY <1>4, <2>1, <2>2, <2>3, <2>4, AfterUpdateInv
  <2>. QED
    BY <1>1, <2>4, <2>5
<1>. QED
  BY <1>5, <1>6

----------------------------------------------------------------------------
(* The restart that is agreed to                                           *)

LEMMA RestartInv ==
  ASSUME NEW f, NEW cs, NEW n \in Nat, n <= MaxFaults,
         FleetInv(f, cs, update, n, {}), update \in Updates,
         update.pc = "asking",
         \A l \in Loop : Bounded(f.loop[l].held),
         RestartAgreed(f, cs)
  PROVE  /\ FleetInv(fleet', conn', update', n, {})
         /\ \E G, g : /\ Kept(f, g) /\ Went(g, G, fleet')
                      /\ G = {f.entry[e].conn : e \in Marked} \ {None}
                      /\ conn' = [c \in Conns |-> IF c \in G THEN Unused
                                                  ELSE cs[c]]
                      /\ \A c, d \in G : c[1] = d[1] => c = d
<1>. DEFINE es == Marked
            e0 == update.entry
            G == {f.entry[e].conn : e \in es} \ {None}
            u == ToldOf(update)
            v == [update EXCEPT !.pc = "redialling"]
            k == Lost(f, es)
            g == StartRedial(k, {e0}, TRUE)
            ds == [c \in Conns |-> IF c \in G THEN Unused ELSE cs[c]]
<1>1. update' = v /\ conn' = ds /\ fleet' = Gone(g, G)
  BY DEF RestartAgreed
<1>2. /\ f \in Fleets /\ Owned(f, cs) /\ es = MarkedBy(update)
      /\ e0 \in Entry /\ e0 \in es /\ es \in SUBSET Entry /\ update # NoUpdate
      /\ e0 \notin update.peers /\ \A e \in es : Used(f, e)
  BY OffTypes DEF FleetInv, Updated, Updates, Marked, MarkedBy
<1>3. /\ v \in Updates /\ v.pc = "redialling" /\ v.entry = e0
      /\ v.peers = update.peers /\ v.conn = update.conn
      /\ MarkedBy(v) = es
  BY <1>2 DEF Updates, Marked, MarkedBy
<1>. HIDE DEF v
<1>4. FleetInv(f, cs, u, n, {}) /\ u.pc = "told"
  BY ToldInv
<1>. HIDE DEF u
\* The connections that are cut off: one of an entry at most, and marked.
<1>5. /\ G \subseteq Conns
      /\ \A c \in G : c[1] \in es
      /\ \A e \in es : f.entry[e].conn \in G \cup {None}
      /\ \A c, d \in G : c[1] = d[1] => c = d
  <2>1. \A e \in es : f.entry[e].conn # None =>
          f.entry[e].conn \in Conns /\ f.entry[e].conn[1] = e
    BY <1>2, OwnConn
  <2>. QED
    BY <2>1
<1>. HIDE DEF G, es
<1>6. Calm(f, k) /\ FleetInv(k, cs, u, n, G)
  <2>1. k = Lost(f, es)
    OBVIOUS
  <2>. HIDE DEF k
  <2>2. {} \subseteq G
    OBVIOUS
  <2>. QED
    BY <1>2, <1>4, <1>5, <2>1, <2>2, LostInv
<1>7. AllLost(f, es, k) /\ Kept(f, k)
  <2>1. AllLost(f, es, k)
    BY <1>2, LostDoes
  <2>. HIDE DEF k
  <2>. QED
    BY <1>2, <2>1, LostKeeps
<1>. HIDE DEF k
<1>8. \A e \in Entry : DialsOf(k, e) = DialsOf(f, e)
  BY <1>6, CalmDials
<1>9. FleetInv(k, cs, v, n, G)
  <2>1. Updated(k, cs, v)
    <3>1. \A l \in Loop : ~k.loop[l].window
      BY <1>4, <1>6 DEF FleetInv, Updated
    <3>2. \A e \in es : Used(k, e)
      BY <1>2, <1>7 DEF AllLost, Used
    <3>. QED
      BY <1>2, <1>3, <3>1, <3>2 DEF Updated
  <2>2. Watched(k, v, G)
    <3>. SUFFICES ASSUME NEW e \in Entry PROVE EntryWatched(k, v, G, e)
      BY DEF Watched
    <3>1. EntryWatched(k, u, G, e)
      BY <1>6 DEF FleetInv, Watched
    <3>2. k.entry[e].updating => e \in es
      <4>1. f.entry[e].updating => e \in es
        BY <1>2 DEF FleetInv, Watched, EntryWatched
      <4>. QED
        BY <1>7, <4>1 DEF AllLost
    <3>3. e \in es => k.entry[e].link = "reconnecting"
      BY <1>7 DEF AllLost
    <3>. QED
      BY <1>3, <3>1, <3>2, <3>3 DEF EntryWatched
  <2>3. Counted(k, v, n)
    <3>. SUFFICES ASSUME NEW e \in Entry PROVE EntryCounted(k, v, n, e)
      BY DEF Counted
    <3>1. EntryCounted(f, update, n, e)
      BY DEF FleetInv, Counted
    <3>2. k.entry[e].link = "connected" => f.entry[e].link = "connected"
      BY <1>7 DEF AllLost
    <3>3. Due(v, e) => Due(update, e)
      BY <1>3 DEF Due, MarkedBy
    <3>. DEFINE d == Cardinality(DialsOf(f, e))
                p == One(f.entry[e].link = "connected")
                p2 == One(k.entry[e].link = "connected")
                q == One(Due(update, e))
                q2 == One(Due(v, e))
    <3>4. d + p + q <= 1 + n
      BY <3>1 DEF EntryCounted
    <3>5. d \in Nat /\ p \in {0, 1} /\ q \in {0, 1} /\ p2 \in {0, 1}
          /\ q2 \in {0, 1} /\ p2 <= p /\ q2 <= q
      <4>1. p2 <= p
        BY <3>2 DEF One
      <4>2. q2 <= q
        BY <3>3 DEF One
      <4>. QED
        BY <4>1, <4>2, DialsFinite, OneIs
    <3>6. d + p2 + q2 <= 1 + n
      <4>. HIDE DEF d, p, p2, q, q2
      <4>. QED
        BY <3>4, <3>5
    <3>. QED
      BY <1>8, <3>6 DEF EntryCounted
  <2>4. Singles(k, v, G)
    <3>. SUFFICES ASSUME NEW e \in Entry, ~k.entry[e].twice
                  PROVE  Single(k, v, G, e)
      BY DEF Singles
    <3>1. Single(k, u, G, e)
      BY <1>6 DEF FleetInv, Singles
    <3>. QED
      BY <1>3, <3>1 DEF Single
  <2>. QED
    BY <1>6, <2>1, <2>2, <2>3, <2>4 DEF FleetInv
<1>10. MayStart(k, v, n, {e0}, TRUE)
  <2>1. Used(k, e0)
    BY <1>2, <1>7 DEF AllLost, Used
  <2>2. k.entry[e0].link = "reconnecting"
        /\ k.entry[e0].twice = f.entry[e0].twice /\ k.loop = f.loop
    BY <1>2, <1>7 DEF AllLost
  <2>3. Cardinality(DialsOf(k, e0)) + One(k.entry[e0].link = "connected")
          + One(Due(v, e0)) <= n
    <3>. DEFINE d == Cardinality(DialsOf(f, e0))
                p == One(f.entry[e0].link = "connected")
    <3>1. EntryCounted(f, update, n, e0)
      BY <1>2 DEF FleetInv, Counted
    <3>2. One(Due(update, e0)) = 1
      BY <1>2, OneIs DEF Due
    <3>3. d + p + 1 <= 1 + n
      BY <3>1, <3>2 DEF EntryCounted
    <3>4. d \in Nat /\ p \in {0, 1}
      BY <1>2, DialsFinite, OneIs
    <3>5. One(k.entry[e0].link = "connected") = 0 /\ One(Due(v, e0)) = 0
      BY <1>2, <1>3, <2>2, OneIs DEF Due
    <3>6. d + 0 + 0 <= n
      <4>. HIDE DEF d, p
      <4>. QED
        BY <3>3, <3>4
    <3>. QED
      BY <1>2, <1>8, <3>5, <3>6
  <2>4. ~k.entry[e0].twice => \A l \in Loop : l[1] = e0 => ~Dialling(k, l)
    <3>1. ~f.entry[e0].twice => Single(f, update, {}, e0)
      BY <1>2 DEF FleetInv, Singles
    <3>. QED
      BY <2>2, <3>1 DEF Single, Dialling
  <2>5. \A l \in Loop : ~k.loop[l].window
    BY <1>4, <1>6 DEF FleetInv, Updated
  <2>. QED
    BY <1>3, <2>1, <2>2, <2>3, <2>4, <2>5 DEF MayStart
<1>11. /\ FleetInv(g, cs, v, n, G) /\ Started(k, {e0}, TRUE, g)
       /\ Spares(k, {e0})
  <2>1. g = StartRedial(k, {e0}, TRUE) /\ TRUE \in BOOLEAN
        /\ {e0} \in SUBSET Entry
    BY <1>2
  <2>. HIDE DEF g
  <2>. QED
    BY <1>9, <1>10, <2>1, StartRedialInv
<1>. HIDE DEF g
<1>12. Kept(f, g)
  <2>1. /\ k \in Fleets /\ Owned(k, cs)
        /\ {e0} \in SUBSET Entry /\ TRUE \in BOOLEAN
    BY <1>2, <1>9 DEF FleetInv
  <2>2. Kept(k, g)
    BY <1>11, <2>1, StartKeeps
  <2>. QED
    BY <1>7, <2>2, KeptTrans
\* The redial that the update waits for has no connection yet.
<1>13. \A l \in Loop : ~(Over(g, G, l) /\ g.loop[l].window)
  <2>. TAKE l \in Loop
  <2>1. CASE l[1] \in {e0} /\ l = Spare(k, l[1])
    <3>1. g.loop[l].conn = None
      BY <1>11, <2>1 DEF Started
    <3>2. None \notin G
      BY DEF G
    <3>. QED
      BY <3>1, <3>2 DEF Over
  <2>2. CASE ~(l[1] \in {e0} /\ l = Spare(k, l[1]))
    <3>1. g.loop[l] = k.loop[l]
      BY <1>11, <2>2 DEF Started
    <3>2. ~k.loop[l].window
      BY <1>4, <1>6 DEF FleetInv, Updated
    <3>. QED
      BY <3>1, <3>2
  <2>. QED
    BY <2>1, <2>2
<1>14. FleetInv(fleet', ds, v, n, {}) /\ Went(g, G, fleet')
  <2>1. \A l \in Loop : Bounded(g.loop[l].held)
    BY <1>12 DEF Kept
  <2>2. \A c \in Conns : Alive(ds, c) <=> Alive(cs, c) /\ c \notin G
    BY DEF Alive, Unused
  <2>3. v.pc # "asking" /\ fleet' = Gone(g, G)
    BY <1>1, <1>3
  <2>4. v = IF \E l \in Loop : Over(g, G, l) /\ g.loop[l].window
            THEN NoUpdate ELSE v
    BY <1>13
  <2>. HIDE DEF ds
  <2>. QED
    BY <1>5, <1>11, <1>13, <2>1, <2>2, <2>3, <2>4, GoneInv
<1>15. FleetInv(fleet', conn', update', n, {})
  BY <1>1, <1>14
<1>. QED
  <2>1. /\ Kept(f, g) /\ Went(g, G, fleet')
        /\ conn' = [c \in Conns |-> IF c \in G THEN Unused ELSE cs[c]]
        /\ G = {f.entry[e].conn : e \in Marked} \ {None}
        /\ \A c, d \in G : c[1] = d[1] => c = d
    BY <1>1, <1>5, <1>12, <1>14 DEF G, es
  <2>. HIDE DEF ds
  <2>. QED
    BY <1>15, <2>1

----------------------------------------------------------------------------
(* What is heard                                                           *)

\* The invariants of the client ask of a connection only if it is alive.
LEMMA SameAlive ==
  ASSUME NEW f, NEW cs, NEW u, NEW n, NEW G, FleetInv(f, cs, u, n, G),
         u \in Updates, NEW ds, \A c \in Conns : Alive(ds, c) <=> Alive(cs, c)
  PROVE  FleetInv(f, ds, u, n, G)
<1>1. f \in Fleets /\ Owned(f, cs) /\ f.wired \in SUBSET Conns
  BY FleetParts DEF FleetInv
<1>2. Owned(f, ds)
  <2>1. \A e \in Entry : EntryOwns(f, ds, e)
    <3>. TAKE e \in Entry
    <3>1. EntryOwns(f, cs, e) /\ f.entry[e].conn \in Conns \cup {None}
      BY <1>1, FleetParts, EntryTypes DEF Owned
    <3>. QED
      BY <3>1 DEF EntryOwns
  <2>2. \A l \in Loop : LoopOwns(f, ds, l)
    <3>. TAKE l \in Loop
    <3>1. LoopOwns(f, cs, l) /\ f.loop[l].conn \in Conns \cup {None}
      BY <1>1, FleetParts, LoopTypes DEF Owned
    <3>. QED
      BY <3>1 DEF LoopOwns
  <2>3. \A e \in Entry : ~Used(f, e) => Untouched(f, ds, e)
    BY <1>1 DEF Owned, Untouched
  <2>4. \A c \in f.wired : Alive(ds, c)
    BY <1>1 DEF Owned
  <2>. QED
    BY <1>1, <2>1, <2>2, <2>3, <2>4 DEF Owned
<1>3. Updated(f, ds, u)
  <2>1. u.pc = "asking" => u.conn \in Conns
    BY OffTypes DEF Updates
  <2>. QED
    BY <2>1 DEF FleetInv, Updated
<1>. QED
  BY <1>2, <1>3 DEF FleetInv

\* From f to g the only thing that changes is the record of e.
Rewritten(f, e, g) ==
  /\ g \in Fleets
  /\ g.made = f.made /\ g.listed = f.listed /\ g.wired = f.wired
  /\ \A d \in Entry : d # e => g.entry[d] = f.entry[d]

\* From f to g the event n of c is delivered ...
HeardLive(f, c, n, g) ==
  /\ c \in f.wired /\ f.entry[c[1]].holding = None
  /\ Rewritten(f, c[1], g) /\ g.loop = f.loop
  /\ IsDelivery(f.entry[c[1]], {n}, g.entry[c[1]])
  /\ g.entry[c[1]].holding = f.entry[c[1]].holding
  /\ g.entry[c[1]].broken = f.entry[c[1]].broken

\* ... or held back by the loop l ...
HeardBack(f, c, n, l, g) ==
  /\ c \in f.wired /\ f.entry[c[1]].holding = l /\ l \in Loop
  /\ Rewritten(f, c[1], g) /\ g.entry = f.entry
  /\ \A m \in Loop : m # l => g.loop[m] = f.loop[m]
  /\ g.loop[l].pc = f.loop[l].pc /\ g.loop[l].conn = f.loop[l].conn
  /\ g.loop[l].window = f.loop[l].window
  /\ g.loop[l].held = f.loop[l].held \cup {n}

\* ... or the loop l has what it asked for.
HeardRead(f, c, l, g) ==
  /\ l \in Loop /\ f.loop[l].conn = c /\ f.loop[l].pc = "catchUp"
  /\ l[1] = c[1] /\ Rewritten(f, c[1], g)
  /\ \A m \in Loop : m # l => g.loop[m] = f.loop[m]
  /\ g.loop[l].pc = "finish" /\ g.loop[l].conn = f.loop[l].conn
  /\ g.loop[l].window = f.loop[l].window
  /\ g.loop[l].held = f.loop[l].held

HeardFound(f, c, from, upto, l, g) ==
  /\ HeardRead(f, c, l, g)
  /\ IsDelivery(f.entry[c[1]], (from + 1)..upto, g.entry[c[1]])
  /\ g.entry[c[1]].holding = f.entry[c[1]].holding
  /\ g.entry[c[1]].broken = f.entry[c[1]].broken

HeardUnknown(f, c, l, g) ==
  /\ HeardRead(f, c, l, g)
  /\ LET r == f.entry[c[1]]
         d == g.entry[c[1]]
     IN  /\ d.link = r.link /\ d.updating = r.updating /\ d.conn = r.conn
         /\ d.deaf = r.deaf /\ d.twice = r.twice /\ d.holding = r.holding
         /\ d.seen = r.seen /\ d.missed = r.missed /\ d.broken

\* The record that is rewritten keeps what the client's invariants are about.
SameHands(r, d) ==
  /\ d.link = r.link /\ d.updating = r.updating /\ d.conn = r.conn
  /\ d.deaf = r.deaf /\ d.twice = r.twice /\ d.holding = r.holding

LEMMA RewrittenInv ==
  ASSUME NEW f, NEW cs, NEW u, NEW n, NEW G, FleetInv(f, cs, u, n, G),
         NEW e \in Entry, NEW g, Rewritten(f, e, g), Used(f, e),
         SameHands(f.entry[e], g.entry[e]),
         \A l \in Loop : /\ g.loop[l].conn = f.loop[l].conn
                         /\ g.loop[l].window = f.loop[l].window
                         /\ \/ g.loop[l].pc = f.loop[l].pc
                            \/ Reading(f, l) /\ Reading(g, l)
                         /\ \/ g.loop[l].held = f.loop[l].held
                            \/ Reading(f, l)
  PROVE  FleetInv(g, cs, u, n, G)
<1>1. \A d \in Entry : SameHands(f.entry[d], g.entry[d])
                       /\ (~Used(f, d) => g.entry[d] = f.entry[d])
  BY DEF Rewritten, SameHands
<1>2. f.listed \in [Workspaces -> Entry \cup {None}]
  BY FleetParts DEF FleetInv
<1>3. Calm(f, g)
  BY <1>1, <1>2 DEF Calm, SameHands, Rewritten
<1>4. \A d \in Entry :
        /\ g.entry[d].link = f.entry[d].link
        /\ g.entry[d].updating = f.entry[d].updating
        /\ f.entry[d].deaf => g.entry[d].deaf
        /\ f.entry[d].twice => g.entry[d].twice
        /\ g.listed[Of(d)] = d /\ f.entry[d].conn \in f.wired
             => f.entry[d].conn \in g.wired
  BY <1>1 DEF SameHands, Rewritten
<1>. QED
  BY <1>3, <1>4, CalmInv

\* The record of an entry to which events are delivered.
LEMMA DeliverDoes ==
  ASSUME NEW f \in Fleets, NEW e \in Entry, NEW ns, Bounded(ns),
         NEW g, g = Deliver(f, e, ns)
  PROVE  /\ Rewritten(f, e, g) /\ g.loop = f.loop
         /\ IsDelivery(f.entry[e], ns, g.entry[e])
         /\ g.entry[e].holding = f.entry[e].holding
         /\ g.entry[e].broken = f.entry[e].broken
<1>. DEFINE r == f.entry[e]
            d == Delivered(r, ns)
<1>0. f.entry \in [Entry -> EntryRecords] /\ r \in EntryRecords
  BY FleetParts
<1>1. IsDelivery(r, ns, d) /\ d.holding = r.holding /\ d.broken = r.broken
  <2>1. d = Delivered(r, ns)
    OBVIOUS
  <2>. HIDE DEF d, r
  <2>. QED
    BY <1>0, <2>1, DeliveredDoes
<1>2. d \in EntryRecords
  BY <1>1 DEF IsDelivery
<1>3. g = WithEntry(f, e, d)
  <2>1. g = [f EXCEPT !.entry[e] = Delivered(@, ns)]
    BY DEF Deliver
  <2>2. f = [listed |-> f.listed, made |-> f.made, entry |-> f.entry,
             wired |-> f.wired, loop |-> f.loop]
    BY DEF Fleets
  <2>. QED
    BY <2>1, <2>2 DEF WithEntry
<1>. HIDE DEF d
<1>4. /\ g \in Fleets /\ g.made = f.made /\ g.listed = f.listed
      /\ g.wired = f.wired /\ g.loop = f.loop /\ g.entry[e] = d
      /\ \A x \in Entry : x # e => g.entry[x] = f.entry[x]
  BY <1>2, <1>3, PutEntry
<1>. QED
  BY <1>1, <1>4 DEF Rewritten

LEMMA OnEventDoes ==
  ASSUME NEW f \in Fleets, NEW cs, Owned(f, cs), NEW c \in Conns, c \in f.wired,
         NEW n \in Nat, NEW g, g = OnEvent(f, c[1], n)
  PROVE  HeardLive(f, c, n, g) \/ \E l \in Loop : HeardBack(f, c, n, l, g)
<1>. DEFINE e == c[1]
            l == f.entry[e].holding
<1>0. e \in Entry /\ f.entry \in [Entry -> EntryRecords]
      /\ f.loop \in [Loop -> LoopRecords] /\ l \in Loop \cup {None}
  BY ConnParts, FleetParts, EntryTypes
<1>1. CASE l = None
  <2>1. g = Deliver(f, e, {n})
    BY <1>1 DEF OnEvent, MustHold
  <2>2. Bounded({n})
    BY DEF Bounded
  <2>. QED
    BY <1>0, <1>1, <2>1, <2>2, DeliverDoes DEF HeardLive
<1>2. CASE l # None
  <2>0. l \in Loop
    BY <1>0, <1>2
  <2>. DEFINE r == f.loop[l]
              s == [r EXCEPT !.held = r.held \cup {n}]
  <2>1. g = [f EXCEPT !.loop[l].held = @ \cup {n}]
    BY <1>2 DEF OnEvent, MustHold
  <2>2. g = WithLoop(f, l, s)
    BY <1>0, <2>0, <2>1 DEF Fleets, WithLoop
  <2>3. r \in LoopRecords
    BY <1>0, <2>0
  <2>. HIDE DEF r
  <2>4. /\ s \in LoopRecords /\ s.held = r.held \cup {n} /\ s.pc = r.pc
        /\ s.conn = r.conn /\ s.window = r.window
    BY <2>3 DEF LoopRecords
  <2>. HIDE DEF s
  <2>5. /\ g \in Fleets /\ g.made = f.made /\ g.listed = f.listed
        /\ g.wired = f.wired /\ g.entry = f.entry /\ g.loop[l] = s
        /\ \A m \in Loop : m # l => g.loop[m] = f.loop[m]
    BY <2>0, <2>2, <2>4, PutLoop
  <2>. QED
    BY <2>0, <2>4, <2>5, Zenon DEF HeardBack, Rewritten, r
<1>. QED
  BY <1>1, <1>2

LEMMA CatchUpReadDoes ==
  ASSUME NEW f \in Fleets, NEW cs, Owned(f, cs), NEW c \in Conns,
         \E l \in Loop : f.loop[l].conn = c /\ f.loop[l].pc = "catchUp",
         NEW m \in Messages, m.t \in {"found", "unknown"},
         NEW g, g = CatchUpRead(f, c, m)
  PROVE  \E l \in Loop :
           \/ m.t = "unknown" /\ HeardUnknown(f, c, l, g)
           \/ m.t = "found" /\ HeardFound(f, c, m.from, m.upto, l, g)
<1>. DEFINE l == CHOOSE x \in Loop : f.loop[x].conn = c
                                     /\ f.loop[x].pc = "catchUp"
            e == l[1]
            r == f.loop[l]
            s == [r EXCEPT !.pc = "finish"]
            h == [f EXCEPT !.loop[l].pc = "finish"]
<1>0. f.loop \in [Loop -> LoopRecords] /\ f.entry \in [Entry -> EntryRecords]
  BY FleetParts
<1>1. l \in Loop /\ r.conn = c /\ r.pc = "catchUp"
  OBVIOUS
<1>2. g = IF m.t = "unknown" THEN [h EXCEPT !.entry[e].broken = TRUE]
          ELSE Deliver(h, e, (m.from + 1)..m.upto)
  BY DEF CatchUpRead
<1>. HIDE DEF l
<1>3. e = c[1] /\ e \in Entry
  <2>1. LoopOwns(f, cs, l) /\ c # None
    BY <1>1, ConnParts DEF Owned
  <2>. QED
    BY <1>1, <2>1, LoopParts DEF LoopOwns
<1>4. r \in LoopRecords
  BY <1>0, <1>1
<1>5. h = WithLoop(f, l, s)
  BY <1>0, <1>1 DEF Fleets, WithLoop
<1>. HIDE DEF r
<1>6. /\ s \in LoopRecords /\ s.held = r.held /\ s.pc = "finish"
      /\ s.conn = r.conn /\ s.window = r.window
  BY <1>4 DEF LoopRecords
<1>. HIDE DEF s, h
<1>7. /\ h \in Fleets /\ h.made = f.made /\ h.listed = f.listed
      /\ h.wired = f.wired /\ h.entry = f.entry
      /\ h.loop[l] = s
      /\ \A x \in Loop : x # l => h.loop[x] = f.loop[x]
  BY <1>1, <1>5, <1>6, PutLoop
<1>9. ASSUME Rewritten(h, e, g), g.loop = h.loop PROVE HeardRead(f, c, l, g)
  <2>1. Rewritten(f, c[1], g)
    BY <1>3, <1>7, <1>9 DEF Rewritten
  <2>2. /\ g.loop[l].pc = "finish" /\ g.loop[l].conn = f.loop[l].conn
        /\ g.loop[l].window = f.loop[l].window
        /\ g.loop[l].held = f.loop[l].held
        /\ \A x \in Loop : x # l => g.loop[x] = f.loop[x]
    BY <1>6, <1>7, <1>9 DEF r
  <2>3. f.loop[l].conn = c /\ f.loop[l].pc = "catchUp" /\ l[1] = c[1]
    BY <1>1, <1>3 DEF r
  <2>. QED
    BY <1>1, <2>1, <2>2, <2>3 DEF HeardRead
<1>10. CASE m.t = "unknown"
  <2>. DEFINE a == h.entry[e]
              d == [a EXCEPT !.broken = TRUE]
  <2>1. g = WithEntry(h, e, d)
    <3>1. g = [h EXCEPT !.entry[e].broken = TRUE]
      BY <1>2, <1>10
    <3>2. h.entry \in [Entry -> EntryRecords] /\ h \in Fleets
      BY <1>0, <1>7
    <3>. QED
      BY <1>3, <3>1, <3>2 DEF Fleets, WithEntry
  <2>2. a \in EntryRecords
    BY <1>0, <1>3, <1>7
  <2>3. a = f.entry[c[1]]
    BY <1>3, <1>7
  <2>. HIDE DEF a
  <2>4. /\ d \in EntryRecords /\ d.link = a.link /\ d.updating = a.updating
        /\ d.conn = a.conn /\ d.deaf = a.deaf /\ d.twice = a.twice
        /\ d.holding = a.holding /\ d.seen = a.seen /\ d.missed = a.missed
        /\ d.broken
    BY <2>2 DEF EntryRecords
  <2>. HIDE DEF d
  <2>5. /\ g \in Fleets /\ g.made = h.made /\ g.listed = h.listed
        /\ g.wired = h.wired /\ g.loop = h.loop /\ g.entry[e] = d
        /\ \A x \in Entry : x # e => g.entry[x] = h.entry[x]
    BY <1>3, <1>7, <2>1, <2>4, PutEntry
  <2>7. HeardRead(f, c, l, g)
    BY <1>9, <2>5 DEF Rewritten
  <2>8. HeardUnknown(f, c, l, g)
    BY <1>3, <2>3, <2>4, <2>5, <2>7 DEF HeardUnknown
  <2>. QED
    BY <1>1, <1>10, <2>8
<1>11. CASE m.t = "found"
  <2>0. m.from \in Nat /\ m.upto \in Nat
    BY <1>11 DEF Messages
  <2>. DEFINE ns == (m.from + 1)..m.upto
  <2>1. Bounded(ns)
    <3>1. ns \subseteq Nat /\ \A x \in ns : x <= m.upto
      BY <2>0
    <3>. QED
      BY <2>0, <3>1 DEF Bounded
  <2>2. g = Deliver(h, e, ns)
    BY <1>2, <1>11
  <2>. HIDE DEF ns
  <2>3. /\ Rewritten(h, e, g) /\ g.loop = h.loop
        /\ IsDelivery(h.entry[e], ns, g.entry[e])
        /\ g.entry[e].holding = h.entry[e].holding
        /\ g.entry[e].broken = h.entry[e].broken
    BY <1>3, <1>7, <2>1, <2>2, DeliverDoes
  <2>4. HeardRead(f, c, l, g)
    BY <1>9, <2>3
  <2>5. HeardFound(f, c, m.from, m.upto, l, g)
    BY <1>3, <1>7, <2>3, <2>4 DEF HeardFound, ns
  <2>. QED
    BY <1>1, <1>11, <2>5
<1>. QED
  BY <1>10, <1>11

\* What c hears, other than a welcome and the answer to a shutdown.
Hearing(f, c, m, g) ==
  \/ m.t = "closing" /\ Kept(f, g)
  \/ m.t = "event" /\ c \notin f.wired /\ g = f
  \/ m.t = "event" /\ HeardLive(f, c, m.n, g)
  \/ m.t = "event" /\ \E l \in Loop : HeardBack(f, c, m.n, l, g)
  \/ m.t = "unknown" /\ \E l \in Loop : HeardUnknown(f, c, l, g)
  \/ m.t = "found" /\ \E l \in Loop : HeardFound(f, c, m.from, m.upto, l, g)

LEMMA HeardInv ==
  ASSUME NEW f, NEW cs, NEW u, NEW n, NEW G, FleetInv(f, cs, u, n, G),
         NEW c \in Conns, Alive(cs, c),
         NEW m \in Messages, m.t \notin {"welcome", "stopping"},
         m.t \in {"found", "unknown"} =>
           \E l \in Loop : f.loop[l].conn = c /\ f.loop[l].pc = "catchUp",
         NEW g, g = Heard(f, c, m)
  PROVE  FleetInv(g, cs, u, n, G) /\ Hearing(f, c, m, g)
<1>. DEFINE e == c[1]
<1>1. f \in Fleets /\ Owned(f, cs) /\ e \in Entry /\ Used(f, e)
  BY ConnParts, UsedWhen DEF FleetInv
<1>2. m.t \in {"event", "found", "unknown", "closing"}
  BY DEF Messages
<1>3. CASE m.t = "event"
  <2>1. CASE c \notin f.wired
    BY <1>3, <2>1 DEF Heard, Hearing
  <2>2. CASE c \in f.wired
    <3>1. m.n \in Nat
      BY <1>3 DEF Messages
    <3>2. g = OnEvent(f, e, m.n)
      BY <1>3, <2>2 DEF Heard
    <3>3. CASE HeardLive(f, c, m.n, g)
      <4>1. SameHands(f.entry[e], g.entry[e])
        BY <3>3 DEF HeardLive, SameHands, IsDelivery
      <4>2. Rewritten(f, e, g) /\ g.loop = f.loop
        BY <3>3 DEF HeardLive
      <4>. QED
        BY <1>1, <1>3, <3>3, <4>1, <4>2, RewrittenInv DEF Hearing
    <3>4. CASE \E l \in Loop : HeardBack(f, c, m.n, l, g)
      <4>1. PICK l \in Loop : HeardBack(f, c, m.n, l, g)
        BY <3>4
      <4>2. Rewritten(f, e, g) /\ g.entry = f.entry
        BY <4>1 DEF HeardBack
      <4>3. SameHands(f.entry[e], g.entry[e])
        BY <4>2 DEF SameHands
      <4>4. Reading(f, l)
        <5>1. EntryOwns(f, cs, e) /\ l # None /\ f.entry[e].holding = l
          BY <1>1, <4>1, LoopParts DEF Owned, HeardBack
        <5>. QED
          BY <5>1 DEF EntryOwns
      <4>5. \A x \in Loop : /\ g.loop[x].conn = f.loop[x].conn
                            /\ g.loop[x].window = f.loop[x].window
                            /\ g.loop[x].pc = f.loop[x].pc
                            /\ \/ g.loop[x].held = f.loop[x].held
                               \/ Reading(f, x)
        BY <4>1, <4>4 DEF HeardBack
      <4>. QED
        BY <1>1, <1>3, <3>4, <4>2, <4>3, <4>5, RewrittenInv DEF Hearing
    <3>. QED
      BY <1>1, <2>2, <3>1, <3>2, <3>3, <3>4, OnEventDoes
  <2>. QED
    BY <2>1, <2>2
<1>4. CASE m.t \in {"found", "unknown"}
  <2>1. g = CatchUpRead(f, c, m)
    BY <1>4 DEF Heard
  <2>2. PICK l \in Loop :
           \/ m.t = "unknown" /\ HeardUnknown(f, c, l, g)
           \/ m.t = "found" /\ HeardFound(f, c, m.from, m.upto, l, g)
    BY <1>1, <1>4, <2>1, CatchUpReadDoes
  <2>3. HeardRead(f, c, l, g) /\ SameHands(f.entry[e], g.entry[e])
    BY <2>2 DEF HeardUnknown, HeardFound, SameHands, IsDelivery
  <2>4. Rewritten(f, e, g) /\ Reading(f, l) /\ Reading(g, l)
    BY <2>3 DEF HeardRead, Reading
  <2>5. \A x \in Loop : /\ g.loop[x].conn = f.loop[x].conn
                        /\ g.loop[x].window = f.loop[x].window
                        /\ \/ g.loop[x].pc = f.loop[x].pc
                           \/ Reading(f, x) /\ Reading(g, x)
                        /\ g.loop[x].held = f.loop[x].held
    BY <2>3, <2>4 DEF HeardRead
  <2>6. FleetInv(g, cs, u, n, G)
    BY <1>1, <2>3, <2>4, <2>5, RewrittenInv
  <2>7. Hearing(f, c, m, g)
    BY <2>2 DEF Hearing
  <2>. QED
    BY <2>6, <2>7
<1>5. CASE m.t = "closing"
  <2>1. Of(e) \in Workspaces
    BY <1>1, EntryParts
  <2>2. g = f \/ g = Forget(f, Of(e))
    BY <1>5 DEF Heard
  <2>3. FleetInv(g, cs, u, n, G) /\ Kept(f, g)
    BY <1>1, <2>1, <2>2, ForgetInv, ForgetKeeps, KeptSame
  <2>. QED
    BY <1>5, <2>3 DEF Hearing
<1>. QED
  BY <1>2, <1>3, <1>4, <1>5

----------------------------------------------------------------------------
(* Connections that are made                                               *)

LEMMA FreshIs ==
  ASSUME NEW e \in Entry, Free(e) # {}
  PROVE  Fresh(e) \in Conns /\ Fresh(e)[1] = e /\ ~Alive(conn, Fresh(e))
<1>. DEFINE i == CHOOSE j \in Free(e) : TRUE
<1>1. i \in Free(e) /\ Fresh(e) = <<e, i>>
  BY DEF Fresh
<1>. HIDE DEF i
<1>2. i \in 1..MaxConns /\ conn[<<e, i>>].at = "unused"
  BY <1>1 DEF Free
<1>. QED
  BY <1>1, <1>2, ConnIs DEF Alive

\* From f to g the entry e is made for w, over the connection c.
Attached(f, w, e, c, g) ==
  /\ g \in Fleets /\ g.loop = f.loop
  /\ e \in Entry /\ Of(e) = w /\ e[2] = f.made[w] + 1
  /\ g.made[w] = f.made[w] + 1 /\ g.listed[w] = e
  /\ \A v \in Workspaces : v # w => /\ g.made[v] = f.made[v]
                                    /\ g.listed[v] = f.listed[v]
  /\ \A d \in Entry : d # e => g.entry[d] = f.entry[d]
  /\ LET r == f.entry[e]
         s == g.entry[e]
     IN  /\ s.link = r.link /\ s.seen = r.seen /\ s.missed = r.missed
         /\ s.updating = r.updating /\ s.holding = r.holding
         /\ s.broken = r.broken /\ s.deaf = r.deaf /\ s.twice = r.twice
         /\ s.conn = c
  /\ \A x : x \in g.wired <=> x \in f.wired \/ x = c

LEMMA AttachDoes ==
  ASSUME fleet \in Fleets, NEW w \in Workspaces, Attach(w)
  PROVE  \E e, c : /\ Attached(fleet, w, e, c, fleet')
                   /\ c \in Conns /\ c[1] = e /\ ~Alive(conn, c)
                   /\ conn' = [conn EXCEPT ![c] = [Unused EXCEPT !.at = "open"]]
<1>. DEFINE f == fleet
            k == fleet.made[w] + 1
            e == <<w, k>>
            c == Fresh(e)
            r == f.entry[e]
            s == [r EXCEPT !.conn = c]
            en == [f.entry EXCEPT ![e] = s]
            ls == [f.listed EXCEPT ![w] = e]
            ma == [f.made EXCEPT ![w] = k]
            wi == f.wired \cup {c}
<1>0. /\ f.listed \in [Workspaces -> Entry \cup {None}]
      /\ f.made \in [Workspaces -> Nat]
      /\ f.entry \in [Entry -> EntryRecords]
      /\ f.wired \in SUBSET Conns
      /\ f.loop \in [Loop -> LoopRecords]
  BY FleetParts
<1>1. /\ k \in Nat /\ k > 0 /\ k <= MaxAttaches[w]
      /\ Free(e) # {}
      /\ conn' = [conn EXCEPT ![c] = [Unused EXCEPT !.at = "open"]]
      /\ fleet' = [fleet EXCEPT !.listed[w] = e, !.made[w] = @ + 1,
                                !.entry[e].conn = c, !.wired = @ \cup {c}]
  <2>1. f.made[w] \in Nat /\ MaxAttaches[w] \in Nat
    BY <1>0, FleetAssumption
  <2>. QED
    BY <2>1 DEF Attach
<1>2. fleet' = [fleet EXCEPT !.listed = ls, !.made = ma, !.entry = en,
                             !.wired = wi]
  BY <1>0, <1>1 DEF Fleets
<1>3. e \in Entry /\ Of(e) = w /\ e[2] = k
  BY <1>1, EntryIs
<1>. HIDE DEF k
<1>. HIDE DEF e
<1>4. c \in Conns /\ c[1] = e /\ ~Alive(conn, c)
  BY <1>1, <1>3, FreshIs
<1>. HIDE DEF c
<1>5. r \in EntryRecords
  BY <1>0, <1>3
<1>. HIDE DEF r
<1>6. /\ s \in EntryRecords /\ s.conn = c
      /\ s.link = r.link /\ s.seen = r.seen /\ s.missed = r.missed
      /\ s.updating = r.updating /\ s.holding = r.holding
      /\ s.broken = r.broken /\ s.deaf = r.deaf /\ s.twice = r.twice
  BY <1>4, <1>5 DEF EntryRecords
<1>. HIDE DEF s
<1>7. /\ en \in [Entry -> EntryRecords] /\ en[e] = s
      /\ \A d \in Entry : d # e => en[d] = f.entry[d]
  BY <1>0, <1>3, <1>6
<1>8. /\ ls \in [Workspaces -> Entry \cup {None}] /\ ls[w] = e
      /\ ma \in [Workspaces -> Nat] /\ ma[w] = k
      /\ \A v \in Workspaces : v # w => ma[v] = f.made[v] /\ ls[v] = f.listed[v]
      /\ wi \in SUBSET Conns /\ \A x : x \in wi <=> x \in f.wired \/ x = c
  BY <1>0, <1>1, <1>3, <1>4
<1>. HIDE DEF en, ls, ma, wi
<1>9. /\ fleet' \in Fleets /\ fleet'.listed = ls /\ fleet'.made = ma
      /\ fleet'.entry = en /\ fleet'.wired = wi /\ fleet'.loop = f.loop
  BY <1>2, <1>7, <1>8 DEF Fleets
<1>10. Attached(fleet, w, e, c, fleet')
  BY <1>3, <1>6, <1>7, <1>8, <1>9 DEF Attached, k, r
<1>. QED
  BY <1>1, <1>4, <1>10

\* From cs to ds the connection c is made.
Joined(cs, c, ds) ==
  \A x \in Conns : Alive(ds, x) <=> Alive(cs, x) \/ x = c

LEMMA AttachedInv ==
  ASSUME NEW f, NEW cs, NEW u \in Updates, NEW n \in Nat,
         FleetInv(f, cs, u, n, {}), NEW w \in Workspaces, NEW e,
         NEW c \in Conns,
         NEW g, Attached(f, w, e, c, g), c[1] = e, ~Alive(cs, c),
         NEW ds, Joined(cs, c, ds)
  PROVE  /\ FleetInv(g, ds, u, n, {})
         /\ ~Used(f, e) /\ Untouched(f, cs, e)
<1>. \A x \in Conns : Alive(ds, x) <=> Alive(cs, x) \/ x = c
  BY DEF Joined
<1>1. f \in Fleets /\ Owned(f, cs) /\ g \in Fleets /\ e \in Entry /\ c # None
  BY ConnParts DEF FleetInv, Attached
<1>2. /\ f.listed \in [Workspaces -> Entry \cup {None}]
      /\ f.made \in [Workspaces -> Nat]
      /\ f.wired \in SUBSET Conns
  BY <1>1, FleetParts
<1>3. ~Used(f, e) /\ Untouched(f, cs, e)
  <2>1. Of(e) = w /\ e[2] = f.made[w] + 1 /\ f.made[w] \in Nat
    BY <1>2 DEF Attached
  <2>2. ~Used(f, e)
    BY <2>1 DEF Used
  <2>. QED
    BY <1>1, <2>2 DEF Owned
<1>4. \A d \in Entry : Used(g, d) => Used(f, d) \/ d = e
  <2>. TAKE d \in Entry
  <2>1. Of(d) \in Workspaces /\ d[2] \in Nat /\ d = <<Of(d), d[2]>>
        /\ e = <<Of(e), e[2]>> /\ f.made[w] \in Nat
    BY <1>1, <1>2, EntryParts
  <2>. QED
    BY <2>1 DEF Used, Attached
<1>5. \A d \in Entry : Used(f, d) \/ d = e => Used(g, d)
  <2>. TAKE d \in Entry
  <2>1. Of(d) \in Workspaces /\ d[2] \in Nat /\ f.made[w] \in Nat
    BY <1>2, EntryParts
  <2>. QED
    BY <2>1 DEF Used, Attached
<1>6. g.loop = f.loop /\ \A d \in Entry : d # e => g.entry[d] = f.entry[d]
  BY DEF Attached
<1>7. /\ g.entry[e].link = "connected" /\ ~g.entry[e].updating
      /\ g.entry[e].holding = None /\ g.entry[e].conn = c
      /\ \A l \in Loop : l[1] = e => f.loop[l].pc = "off"
  BY <1>3, FreshRecords DEF Attached, Untouched
<1>8. \A x \in f.wired : Alive(cs, x) /\ x # c
  BY <1>1 DEF Owned
<1>9. Owned(g, ds)
  <2>1. \A v \in Workspaces : g.listed[v] # None =>
          Of(g.listed[v]) = v /\ Used(g, g.listed[v])
    <3>. SUFFICES ASSUME NEW v \in Workspaces, g.listed[v] # None
                  PROVE  Of(g.listed[v]) = v /\ Used(g, g.listed[v])
      OBVIOUS
    <3>1. CASE v = w
      BY <1>1, <1>5, <3>1 DEF Attached
    <3>2. CASE v # w
      <4>1. g.listed[v] = f.listed[v] /\ f.listed[v] \in Entry
        BY <1>2, <3>2 DEF Attached
      <4>. QED
        BY <1>1, <1>5, <4>1 DEF Owned
    <3>. QED
      BY <3>1, <3>2
  <2>2. \A d \in Entry : ~Used(g, d) => Untouched(g, ds, d)
    <3>. SUFFICES ASSUME NEW d \in Entry, ~Used(g, d) PROVE Untouched(g, ds, d)
      OBVIOUS
    <3>1. ~Used(f, d) /\ d # e
      BY <1>5
    <3>2. Untouched(f, cs, d)
      BY <1>1, <3>1 DEF Owned
    <3>. QED
      BY <1>6, <3>1, <3>2 DEF Untouched
  <2>3. \A x \in g.wired : Alive(ds, x)
    BY <1>2, <1>8 DEF Attached
  <2>4. \A d \in Entry : EntryOwns(g, ds, d)
    <3>. TAKE d \in Entry
    <3>1. CASE d = e
      BY <1>7, <3>1 DEF EntryOwns
    <3>2. CASE d # e
      <4>1. EntryOwns(f, cs, d) /\ f.entry[d].conn \in Conns \cup {None}
        BY <1>1, FleetParts, EntryTypes DEF Owned
      <4>. QED
        BY <1>6, <3>2, <4>1 DEF EntryOwns, Reading
    <3>. QED
      BY <3>1, <3>2
  <2>5. \A l \in Loop : LoopOwns(g, ds, l)
    <3>. TAKE l \in Loop
    <3>1. LoopOwns(f, cs, l) /\ f.loop[l].conn \in Conns \cup {None}
      BY <1>1, FleetParts, LoopTypes DEF Owned
    <3>2. l[1] = e => f.loop[l].pc = "off"
      BY <1>7
    <3>3. f.loop[l].conn # None => f.loop[l].conn # c
      BY <3>1 DEF LoopOwns
    <3>4. f.loop[l].conn # None /\ f.loop[l].conn \notin f.wired =>
            f.loop[l].conn \notin g.wired
      BY <3>3 DEF Attached
    <3>5. l[1] # e => g.entry[l[1]] = f.entry[l[1]]
      BY <1>6, LoopParts
    <3>. QED
      BY <1>6, <3>1, <3>2, <3>4, <3>5 DEF LoopOwns
  <2>6. \A l, m \in Loop :
          g.loop[l].conn = g.loop[m].conn /\ g.loop[l].conn # None => l = m
    BY <1>1, <1>6 DEF Owned
  <2>. QED
    BY <2>1, <2>2, <2>3, <2>4, <2>5, <2>6 DEF Owned
<1>10. u.pc # "off" => \A d \in MarkedBy(u) : Used(f, d) /\ d # e
  BY <1>3 DEF FleetInv, Updated
<1>11. Updated(g, ds, u)
  <2>1. u.pc = "asking" => u.conn \in Conns
    BY OffTypes DEF Updates
  <2>2. u.pc # "off" => \A d \in MarkedBy(u) : d \in Entry
    BY OffTypes DEF Updates, MarkedBy
  <2>. QED
    BY <1>5, <1>6, <1>10, <2>1, <2>2 DEF FleetInv, Updated
<1>12. Watched(g, u, {})
  <2>. SUFFICES ASSUME NEW d \in Entry PROVE EntryWatched(g, u, {}, d)
    BY DEF Watched
  <2>1. c \in g.wired /\ f.wired \subseteq g.wired
    BY DEF Attached
  <2>2. CASE d = e
    BY <1>1, <1>7, <2>1, <2>2 DEF EntryWatched
  <2>3. CASE d # e
    <3>1. EntryWatched(f, u, {}, d)
      BY DEF FleetInv, Watched
    <3>2. g.listed[Of(d)] = d => f.listed[Of(d)] = d
      BY <2>3, EntryParts DEF Attached
    <3>. QED
      BY <1>6, <2>1, <2>3, <3>1, <3>2 DEF EntryWatched
  <2>. QED
    BY <2>2, <2>3
<1>13. Counted(g, u, n)
  <2>. SUFFICES ASSUME NEW d \in Entry PROVE EntryCounted(g, u, n, d)
    BY DEF Counted
  <2>1. DialsOf(g, d) = DialsOf(f, d)
    BY <1>6 DEF DialsOf, Dialling
  <2>2. CASE d # e
    BY <1>6, <2>1, <2>2 DEF FleetInv, Counted, EntryCounted
  <2>3. CASE d = e
    <3>1. DialsOf(g, d) = {}
      <4>1. \A i \in 1..MaxLoops : ~Dialling(g, <<d, i>>)
        BY <1>6, <1>7, <2>3, LoopIs DEF Dialling
      <4>. QED
        BY <4>1 DEF DialsOf
    <3>2. Cardinality(DialsOf(g, d)) = 0
      BY <3>1, FS_EmptySet
    <3>3. ~Due(u, d)
      BY <1>10, <2>3 DEF Due, MarkedBy
    <3>4. One(Due(u, d)) = 0 /\ One(g.entry[d].link = "connected") = 1
      BY <1>7, <2>3, <3>3, OneIs
    <3>. QED
      BY <3>2, <3>4 DEF EntryCounted
  <2>. QED
    BY <2>2, <2>3
<1>14. Singles(g, u, {})
  <2>. SUFFICES ASSUME NEW d \in Entry, ~g.entry[d].twice
                PROVE  Single(g, u, {}, d)
    BY DEF Singles
  <2>1. CASE d # e
    <3>1. Single(f, u, {}, d)
      BY <1>6, <2>1 DEF FleetInv, Singles
    <3>2. \A x \in g.wired : x[1] = d => x = g.entry[d].conn
      BY <1>6, <2>1, <3>1 DEF Single, Attached
    <3>. QED
      BY <1>6, <2>1, <3>1, <3>2 DEF Single, Dialling, Reading
  <2>2. CASE d = e
    <3>1. \A l \in Loop : l[1] = d => ~Dialling(g, l) /\ ~Reading(g, l)
      BY <1>6, <1>7, <2>2 DEF Dialling, Reading
    <3>2. \A x \in g.wired : x[1] = d => x = g.entry[d].conn
      <4>1. \A x \in f.wired : x[1] # e
        BY <1>2, <1>3, <1>8 DEF Untouched
      <4>. QED
        BY <1>7, <2>2, <4>1 DEF Attached
    <3>3. ~(u.pc = "asking" /\ d = u.entry)
      BY <1>10, <2>2 DEF MarkedBy
    <3>. QED
      BY <1>7, <2>2, <3>1, <3>2, <3>3 DEF Single
  <2>. QED
    BY <2>1, <2>2
<1>. QED
  BY <1>1, <1>3, <1>9, <1>11, <1>12, <1>13, <1>14 DEF FleetInv

----------------------------------------------------------------------------
(* Dials and adoptions                                                     *)

\* From f to g the loop l waits for a welcome on c.
Greeting(f, l, c, g) ==
  /\ g \in Fleets
  /\ g.made = f.made /\ g.listed = f.listed /\ g.wired = f.wired
  /\ g.entry = f.entry
  /\ \A m \in Loop : m # l => g.loop[m] = f.loop[m]
  /\ f.loop[l].pc = "dial" /\ g.loop[l].pc = "hello" /\ g.loop[l].conn = c
  /\ g.loop[l].window = f.loop[l].window /\ g.loop[l].held = f.loop[l].held

LEMMA DialDoes ==
  ASSUME fleet \in Fleets, NEW l \in Loop, Dials(l)
  PROVE  \E c \in Conns :
           /\ Greeting(fleet, l, c, fleet') /\ c[1] = l[1] /\ ~Alive(conn, c)
           /\ conn' = [conn EXCEPT ![c] =
                         [Unused EXCEPT !.at = "open",
                                        !.inbox = <<[t |-> "welcome"]>>]]
<1>. DEFINE c == Fresh(l[1])
            r == fleet.loop[l]
            s == [r EXCEPT !.pc = "hello", !.conn = c]
<1>1. /\ fleet.loop[l].pc = "dial" /\ Free(l[1]) # {}
      /\ fleet' = [fleet EXCEPT !.loop[l].pc = "hello", !.loop[l].conn = c]
      /\ conn' = [conn EXCEPT ![c] =
                    [Unused EXCEPT !.at = "open",
                                   !.inbox = <<[t |-> "welcome"]>>]]
  BY DEF Dials
<1>2. c \in Conns /\ c[1] = l[1] /\ ~Alive(conn, c)
  BY <1>1, LoopParts, FreshIs
<1>. HIDE DEF c
<1>3. fleet.loop \in [Loop -> LoopRecords] /\ r \in LoopRecords
  BY FleetParts
<1>4. fleet' = WithLoop(fleet, l, s)
  BY <1>1, <1>3 DEF Fleets, WithLoop
<1>. HIDE DEF r
<1>5. /\ s \in LoopRecords /\ s.pc = "hello" /\ s.conn = c
      /\ s.window = r.window /\ s.held = r.held
  BY <1>2, <1>3 DEF LoopRecords
<1>. HIDE DEF s
<1>6. /\ fleet' \in Fleets /\ fleet'.made = fleet.made
      /\ fleet'.listed = fleet.listed /\ fleet'.wired = fleet.wired
      /\ fleet'.entry = fleet.entry /\ fleet'.loop[l] = s
      /\ \A m \in Loop : m # l => fleet'.loop[m] = fleet.loop[m]
  BY <1>4, <1>5, PutLoop
<1>7. Greeting(fleet, l, c, fleet')
  BY <1>1, <1>5, <1>6 DEF Greeting, r
<1>. QED
  BY <1>1, <1>2, <1>7

LEMMA GreetingInv ==
  ASSUME NEW f, NEW cs, NEW u \in Updates, NEW n \in Nat,
         FleetInv(f, cs, u, n, {}), NEW l \in Loop, NEW c \in Conns,
         NEW g, Greeting(f, l, c, g), c[1] = l[1], ~Alive(cs, c),
         NEW ds, Joined(cs, c, ds)
  PROVE  FleetInv(g, ds, u, n, {})
<1>. \A x \in Conns : Alive(ds, x) <=> Alive(cs, x) \/ x = c
  BY DEF Joined
<1>1. f \in Fleets /\ Owned(f, cs) /\ g \in Fleets /\ c # None
      /\ f.wired \in SUBSET Conns /\ l[1] \in Entry
  BY ConnParts, LoopParts, FleetParts DEF FleetInv, Greeting
<1>2. /\ g.made = f.made /\ g.listed = f.listed /\ g.wired = f.wired
      /\ g.entry = f.entry
      /\ \A m \in Loop : m # l => g.loop[m] = f.loop[m]
      /\ f.loop[l].pc = "dial" /\ g.loop[l].pc = "hello" /\ g.loop[l].conn = c
      /\ g.loop[l].window = f.loop[l].window /\ g.loop[l].held = f.loop[l].held
  BY DEF Greeting
<1>3. \A m \in Loop : /\ Dialling(g, m) <=> Dialling(f, m)
                      /\ Reading(g, m) <=> Reading(f, m)
                      /\ Reading(f, m) => m # l /\ g.loop[m] = f.loop[m]
                      /\ g.loop[m].window = f.loop[m].window
  BY <1>2 DEF Dialling, Reading
\* Nobody refers to c yet.
<1>4. /\ \A x \in f.wired : x # c
      /\ \A e \in Entry : f.entry[e].conn # c
      /\ \A m \in Loop : f.loop[m].conn # c
  <2>1. \A x \in f.wired : x # c
    BY <1>1 DEF Owned
  <2>2. \A e \in Entry : f.entry[e].conn # c
    BY <1>1 DEF Owned, EntryOwns
  <2>3. \A m \in Loop : f.loop[m].conn # c
    BY <1>1 DEF Owned, LoopOwns
  <2>. QED
    BY <2>1, <2>2, <2>3
<1>5. Owned(g, ds)
  <2>1. \A w \in Workspaces : g.listed[w] # None =>
          Of(g.listed[w]) = w /\ Used(g, g.listed[w])
    BY <1>1, <1>2 DEF Owned, Used
  <2>2. \A e \in Entry : ~Used(g, e) => Untouched(g, ds, e)
    <3>. SUFFICES ASSUME NEW e \in Entry, ~Used(g, e) PROVE Untouched(g, ds, e)
      OBVIOUS
    <3>1. ~Used(f, e)
      BY <1>2 DEF Used
    <3>2. Untouched(f, cs, e)
      BY <1>1, <3>1 DEF Owned
    <3>3. e # l[1]
      BY <1>2, <3>2 DEF Untouched
    <3>. QED
      BY <1>2, <3>2, <3>3 DEF Untouched
  <2>3. \A x \in g.wired : Alive(ds, x)
    BY <1>1, <1>2 DEF Owned
  <2>4. \A e \in Entry : EntryOwns(g, ds, e)
    <3>. TAKE e \in Entry
    <3>1. EntryOwns(f, cs, e) /\ f.entry[e].conn \in Conns \cup {None}
          /\ f.entry[e].holding \in Loop \cup {None}
      BY <1>1, FleetParts, EntryTypes DEF Owned
    <3>. QED
      BY <1>2, <1>3, <3>1 DEF EntryOwns
  <2>5. \A m \in Loop : LoopOwns(g, ds, m)
    <3>. TAKE m \in Loop
    <3>1. LoopOwns(f, cs, m) /\ f.loop[m].conn \in Conns \cup {None}
      BY <1>1, FleetParts, LoopTypes DEF Owned
    <3>2. CASE m = l
      <4>1. g.loop[l].conn \notin g.wired /\ g.entry[l[1]].conn # c
        BY <1>1, <1>2, <1>4
      <4>2. g.loop[l].held = {}
        BY <1>2, <3>1, <3>2 DEF LoopOwns
      <4>. QED
        BY <1>1, <1>2, <3>2, <4>1, <4>2 DEF LoopOwns
    <3>3. CASE m # l
      <4>1. g.loop[m] = f.loop[m]
        BY <1>2, <3>3
      <4>. QED
        BY <1>2, <3>1, <4>1 DEF LoopOwns
    <3>. QED
      BY <3>2, <3>3
  <2>6. \A k, m \in Loop :
          g.loop[k].conn = g.loop[m].conn /\ g.loop[k].conn # None => k = m
    BY <1>1, <1>2, <1>4 DEF Owned
  <2>. QED
    BY <2>1, <2>2, <2>3, <2>4, <2>5, <2>6 DEF Owned
<1>6. Updated(g, ds, u)
  <2>1. u.pc = "asking" => u.conn \in Conns
    BY OffTypes DEF Updates
  <2>. QED
    BY <1>2, <1>3, <2>1 DEF FleetInv, Updated, Used
<1>7. Watched(g, u, {})
  BY <1>2 DEF FleetInv, Watched, EntryWatched
<1>8. Counted(g, u, n)
  <2>1. \A e \in Entry : DialsOf(g, e) = DialsOf(f, e)
    BY <1>3, LoopIs DEF DialsOf
  <2>. QED
    BY <1>2, <2>1 DEF FleetInv, Counted, EntryCounted
<1>9. Singles(g, u, {})
  <2>. SUFFICES ASSUME NEW e \in Entry, ~g.entry[e].twice
                PROVE  Single(g, u, {}, e)
    BY DEF Singles
  <2>1. Single(f, u, {}, e)
    BY <1>2 DEF FleetInv, Singles
  <2>. QED
    BY <1>2, <1>3, <2>1 DEF Single
<1>. QED
  BY <1>1, <1>5, <1>6, <1>7, <1>8, <1>9 DEF FleetInv

\* From f to g the loop l is wired, over its connection c.
Adopted(f, l, c, g) ==
  /\ g \in Fleets /\ g.made = f.made /\ g.listed = f.listed
  /\ f.loop[l].pc = "hello" /\ f.loop[l].conn = c
  /\ \A m \in Loop : m # l => g.loop[m] = f.loop[m]
  /\ g.loop[l].pc = IF f.entry[l[1]].seen = 0 THEN "finish" ELSE "catchUp"
  /\ g.loop[l].conn = c /\ g.loop[l].held = f.loop[l].held
  /\ g.loop[l].window = f.loop[l].window
  /\ \A d \in Entry : d # l[1] => g.entry[d] = f.entry[d]
  /\ LET r == f.entry[l[1]]
         s == g.entry[l[1]]
     IN  /\ s.link = "connected" /\ s.seen = r.seen /\ s.missed = r.missed
         /\ ~s.updating /\ s.holding = l /\ s.conn = c
         /\ s.broken = r.broken /\ s.twice = r.twice
  /\ \A x : x \in g.wired <=> x \in f.wired \/ x = c

LEMMA AdoptDoes ==
  ASSUME fleet \in Fleets, NEW l \in Loop, Adopts(l),
         fleet.loop[l].conn \in Conns
  PROVE  Adopted(fleet, l, fleet.loop[l].conn, fleet')
<1>. DEFINE f == fleet
            e == l[1]
            c == f.loop[l].conn
            p == IF f.entry[e].seen = 0 THEN "finish" ELSE "catchUp"
            r == f.entry[e]
            s == [r EXCEPT !.updating = FALSE, !.holding = l, !.conn = c,
                           !.link = "connected", !.stop = None, !.deaf = FALSE]
            q == f.loop[l]
            t == [q EXCEPT !.pc = p]
            wi == f.wired \cup {c}
            en == [f.entry EXCEPT ![e] = s]
            lp == [f.loop EXCEPT ![l] = t]
<1>0. /\ f.entry \in [Entry -> EntryRecords] /\ f.wired \in SUBSET Conns
      /\ f.loop \in [Loop -> LoopRecords] /\ e \in Entry
      /\ r \in EntryRecords /\ q \in LoopRecords
  BY FleetParts, LoopParts
<1>1. /\ q.pc = "hello"
      /\ fleet' = [fleet EXCEPT !.entry[e] = s, !.wired = @ \cup {c},
                                !.loop[l].pc = p]
  BY DEF Adopts, UpdatingOnceWired
<1>2. fleet' = [fleet EXCEPT !.entry = en, !.wired = wi, !.loop = lp]
  BY <1>0, <1>1 DEF Fleets
<1>3. p \in {"finish", "catchUp"}
  OBVIOUS
<1>. HIDE DEF r, q, p
<1>4. /\ s \in EntryRecords /\ s.link = "connected" /\ s.seen = r.seen
      /\ s.missed = r.missed /\ ~s.updating /\ s.holding = l /\ s.conn = c
      /\ s.broken = r.broken /\ s.twice = r.twice
  BY <1>0 DEF EntryRecords
<1>5. /\ t \in LoopRecords /\ t.pc = p /\ t.conn = q.conn /\ t.held = q.held
      /\ t.window = q.window
  BY <1>0, <1>3 DEF LoopRecords
<1>. HIDE DEF s, t
<1>6. /\ en \in [Entry -> EntryRecords] /\ en[e] = s
      /\ \A d \in Entry : d # e => en[d] = f.entry[d]
      /\ lp \in [Loop -> LoopRecords] /\ lp[l] = t
      /\ \A m \in Loop : m # l => lp[m] = f.loop[m]
  BY <1>0, <1>4, <1>5
<1>7. wi \in SUBSET Conns /\ \A x : x \in wi <=> x \in f.wired \/ x = c
  BY <1>0
<1>. HIDE DEF en, lp, wi
<1>8. /\ fleet' \in Fleets /\ fleet'.made = f.made /\ fleet'.listed = f.listed
      /\ fleet'.entry = en /\ fleet'.wired = wi /\ fleet'.loop = lp
  BY <1>2, <1>6, <1>7 DEF Fleets
<1>9. /\ en[e].link = "connected" /\ en[e].seen = f.entry[e].seen
      /\ en[e].missed = f.entry[e].missed /\ ~en[e].updating
      /\ en[e].holding = l /\ en[e].conn = c
      /\ en[e].broken = f.entry[e].broken /\ en[e].twice = f.entry[e].twice
  BY <1>4, <1>6 DEF r
<1>10. /\ lp[l].pc = p /\ lp[l].conn = c /\ lp[l].held = f.loop[l].held
       /\ lp[l].window = f.loop[l].window /\ f.loop[l].pc = "hello"
  BY <1>1, <1>5, <1>6 DEF q
<1>. QED
  BY <1>6, <1>7, <1>8, <1>9, <1>10 DEF Adopted, p

LEMMA AdoptedInv ==
  ASSUME NEW f, NEW cs, NEW u \in Updates, NEW n \in Nat,
         FleetInv(f, cs, u, n, {}), NEW l \in Loop, NEW c,
         NEW g, Adopted(f, l, c, g)
  PROVE  /\ FleetInv(g, cs, u, n, {})
         /\ c \in Conns /\ c \notin f.wired /\ c[1] = l[1] /\ Used(f, l[1])
         /\ ~f.entry[l[1]].twice =>
              /\ \A m \in Loop : m[1] = l[1] => ~Reading(f, m)
              /\ \A x \in f.wired : x[1] # l[1]
<1>. DEFINE e == l[1]
<1>1. f \in Fleets /\ Owned(f, cs) /\ g \in Fleets
      /\ f.wired \in SUBSET Conns /\ e \in Entry /\ l # None
  BY LoopParts, FleetParts DEF FleetInv, Adopted
<1>2. /\ g.made = f.made /\ g.listed = f.listed
      /\ f.loop[l].pc = "hello" /\ f.loop[l].conn = c
      /\ \A m \in Loop : m # l => g.loop[m] = f.loop[m]
      /\ Reading(g, l) /\ g.loop[l].conn = c
      /\ g.loop[l].held = f.loop[l].held /\ g.loop[l].window = f.loop[l].window
      /\ \A d \in Entry : d # e => g.entry[d] = f.entry[d]
      /\ \A x : x \in g.wired <=> x \in f.wired \/ x = c
  BY DEF Adopted, Reading
<1>3. /\ g.entry[e].link = "connected" /\ ~g.entry[e].updating
      /\ g.entry[e].holding = l /\ g.entry[e].conn = c
      /\ g.entry[e].twice = f.entry[e].twice
  BY DEF Adopted
<1>4. /\ c # None /\ c \in Conns /\ c[1] = e /\ Alive(cs, c)
      /\ c \notin f.wired /\ f.entry[e].conn # c
  <2>1. LoopOwns(f, cs, l) /\ f.loop[l].conn \in Conns \cup {None}
    BY <1>1, FleetParts, LoopTypes DEF Owned
  <2>. QED
    BY <1>2, <2>1 DEF LoopOwns
<1>5. Used(f, e)
  BY <1>1, <1>2, UsedWhen
<1>6. \A m \in Loop : m # l => f.loop[m].conn # c
  BY <1>1, <1>2, <1>4 DEF Owned
<1>7. Owned(g, cs)
  <2>1. \A w \in Workspaces : g.listed[w] # None =>
          Of(g.listed[w]) = w /\ Used(g, g.listed[w])
    BY <1>1, <1>2 DEF Owned, Used
  <2>2. \A d \in Entry : ~Used(g, d) => Untouched(g, cs, d)
    <3>. SUFFICES ASSUME NEW d \in Entry, ~Used(g, d) PROVE Untouched(g, cs, d)
      OBVIOUS
    <3>1. ~Used(f, d) /\ d # e
      BY <1>2, <1>5 DEF Used
    <3>2. Untouched(f, cs, d)
      BY <1>1, <3>1 DEF Owned
    <3>. QED
      BY <1>2, <3>1, <3>2 DEF Untouched
  <2>3. \A x \in g.wired : Alive(cs, x)
    BY <1>1, <1>2, <1>4 DEF Owned
  <2>4. \A d \in Entry : EntryOwns(g, cs, d)
    <3>. TAKE d \in Entry
    <3>1. CASE d = e
      BY <1>2, <1>3, <1>4, <3>1 DEF EntryOwns
    <3>2. CASE d # e
      <4>1. EntryOwns(f, cs, d) /\ f.entry[d].holding \in Loop \cup {None}
        BY <1>1, FleetParts, EntryTypes DEF Owned
      <4>2. f.entry[d].holding # None =>
              f.entry[d].holding # l /\ f.entry[d].holding \in Loop
        BY <3>2, <4>1 DEF EntryOwns
      <4>. QED
        BY <1>2, <3>2, <4>1, <4>2 DEF EntryOwns, Reading
    <3>. QED
      BY <3>1, <3>2
  <2>5. \A m \in Loop : LoopOwns(g, cs, m)
    <3>. TAKE m \in Loop
    <3>1. LoopOwns(f, cs, m)
      BY <1>1 DEF Owned
    <3>2. CASE m = l
      BY <1>2, <1>4, <3>2 DEF LoopOwns, Reading
    <3>3. CASE m # l
      <4>1. g.loop[m] = f.loop[m] /\ f.loop[m].conn # c
        BY <1>2, <1>6, <3>3
      <4>2. f.loop[m].conn \notin f.wired => g.loop[m].conn \notin g.wired
        BY <1>2, <4>1
      <4>3. m[1] = e => g.entry[m[1]].conn = c
        BY <1>3
      <4>4. m[1] # e => g.entry[m[1]] = f.entry[m[1]]
        BY <1>2, LoopParts
      <4>. QED
        BY <3>1, <4>1, <4>2, <4>3, <4>4 DEF LoopOwns
    <3>. QED
      BY <3>2, <3>3
  <2>6. \A k, m \in Loop :
          g.loop[k].conn = g.loop[m].conn /\ g.loop[k].conn # None => k = m
    BY <1>1, <1>2, <1>6 DEF Owned
  <2>. QED
    BY <2>1, <2>2, <2>3, <2>4, <2>5, <2>6 DEF Owned
<1>8. Updated(g, cs, u)
  <2>1. \A m \in Loop : g.loop[m].window = f.loop[m].window
    BY <1>2
  <2>. QED
    BY <1>2, <2>1 DEF FleetInv, Updated, Used
<1>9. Watched(g, u, {})
  <2>. SUFFICES ASSUME NEW d \in Entry PROVE EntryWatched(g, u, {}, d)
    BY DEF Watched
  <2>1. CASE d = e
    BY <1>2, <1>3, <1>4, <2>1 DEF EntryWatched
  <2>2. CASE d # e
    <3>1. EntryWatched(f, u, {}, d)
      BY DEF FleetInv, Watched
    <3>. QED
      BY <1>2, <2>2, <3>1 DEF EntryWatched
  <2>. QED
    BY <2>1, <2>2
<1>10. \A m \in Loop : m # l => /\ Dialling(g, m) <=> Dialling(f, m)
                                /\ Reading(g, m) <=> Reading(f, m)
  BY <1>2 DEF Dialling, Reading
<1>11. Dialling(f, l) /\ ~Dialling(g, l)
  BY <1>2 DEF Dialling, Reading
<1>12. Counted(g, u, n)
  <2>. SUFFICES ASSUME NEW d \in Entry PROVE EntryCounted(g, u, n, d)
    BY DEF Counted
  <2>0. EntryCounted(f, u, n, d)
    BY DEF FleetInv, Counted
  <2>1. CASE d # e
    <3>1. DialsOf(g, d) = DialsOf(f, d)
      <4>1. \A i \in 1..MaxLoops : <<d, i>> \in Loop /\ <<d, i>> # l
        BY <2>1, LoopIs
      <4>. QED
        BY <1>10, <4>1 DEF DialsOf
    <3>. QED
      BY <1>2, <2>0, <2>1, <3>1 DEF EntryCounted
  <2>2. CASE d = e
    <3>. DEFINE D == DialsOf(f, e)
                E == DialsOf(g, e)
                p == One(f.entry[e].link = "connected")
                q == One(Due(u, e))
    <3>1. l[2] \in 1..MaxLoops /\ l = <<e, l[2]>>
      BY LoopParts
    <3>2. l[2] \in D
      BY <1>11, <3>1 DEF DialsOf
    <3>3. E = D \ {l[2]}
      <4>1. \A i \in 1..MaxLoops : <<e, i>> \in Loop
                                   /\ (<<e, i>> = l <=> i = l[2])
        BY <1>1, <3>1, LoopIs
      <4>. QED
        BY <1>10, <1>11, <4>1 DEF DialsOf
    <3>4. IsFiniteSet(D) /\ Cardinality(D) \in Nat
          /\ p \in {0, 1} /\ q \in {0, 1}
      BY <1>1, DialsFinite, OneIs
    <3>5. Cardinality(D) + p + q <= 1 + n
      BY <2>0, <2>2 DEF EntryCounted
    <3>. HIDE DEF D, E, p, q
    <3>6. Cardinality(E) = Cardinality(D) - 1
      BY <3>2, <3>3, <3>4, FS_RemoveElement
    <3>7. Cardinality(E) + 1 + q <= 1 + n
      BY <3>4, <3>5, <3>6
    <3>8. One(g.entry[e].link = "connected") = 1
      BY <1>3, OneIs
    <3>. QED
      BY <2>2, <3>7, <3>8 DEF EntryCounted, E, q
  <2>. QED
    BY <2>1, <2>2
\* An entry that is adopted was not connected, unless it is dialled twice.
<1>13. ASSUME ~f.entry[e].twice
       PROVE  /\ f.entry[e].link # "connected" /\ f.entry[e].conn = None
              /\ \A m \in Loop : m[1] = e => ~Reading(f, m)
              /\ \A m \in Loop : m[1] = e /\ Dialling(f, m) => m = l
              /\ \A x \in f.wired : x[1] # e
              /\ ~(u.pc = "asking" /\ e = u.entry)
  <2>1. Single(f, u, {}, e)
    BY <1>1, <1>13 DEF FleetInv, Singles
  <2>2. f.entry[e].link # "connected"
    BY <1>11, <2>1 DEF Single
  <2>3. f.entry[e].conn = None
    <3>1. f.entry[e].link \in {"connected", "reconnecting"}
      BY <1>1, FleetParts, EntryTypes
    <3>. QED
      BY <2>1, <2>2, <3>1 DEF Single
  <2>4. ASSUME NEW m \in Loop, m[1] = e PROVE ~Reading(f, m)
    <3>1. LoopOwns(f, cs, m)
      BY <1>1 DEF Owned
    <3>2. Reading(f, m) => f.loop[m].conn # None
      BY <3>1 DEF LoopOwns, Reading
    <3>. QED
      BY <2>1, <2>3, <2>4, <3>2 DEF Single
  <2>5. \A x \in f.wired : x[1] # e
    BY <1>1, <2>1, <2>3, ConnParts DEF Single
  <2>. QED
    BY <1>11, <2>1, <2>2, <2>3, <2>4, <2>5 DEF Single
<1>14. Singles(g, u, {})
  <2>. SUFFICES ASSUME NEW d \in Entry, ~g.entry[d].twice
                PROVE  Single(g, u, {}, d)
    BY DEF Singles
  <2>1. CASE d # e
    <3>0. g.entry[d] = f.entry[d] /\ ~f.entry[d].twice
      BY <1>2, <2>1
    <3>1. Single(f, u, {}, d)
      BY <3>0 DEF FleetInv, Singles
    <3>2. \A m \in Loop : m[1] = d => m # l
      BY <2>1
    <3>3. \A x \in g.wired : x[1] = d => x \in f.wired
      BY <1>2, <1>4, <2>1
    <3>. QED
      BY <1>2, <1>10, <3>0, <3>1, <3>2, <3>3 DEF Single
  <2>2. CASE d = e
    <3>0. ~f.entry[e].twice
      BY <1>3, <2>2
    <3>1. \A m \in Loop : m[1] = e => ~Dialling(g, m)
      BY <1>10, <1>11, <1>13, <3>0
    <3>2. \A m \in Loop : m[1] = e /\ Reading(g, m) => m = l
      BY <1>10, <1>13, <3>0
    <3>3. \A x \in g.wired : x[1] = e => x = c
      BY <1>2, <1>13, <3>0
    <3>. QED
      BY <1>2, <1>3, <1>13, <2>2, <3>0, <3>1, <3>2, <3>3 DEF Single
  <2>. QED
    BY <2>1, <2>2
<1>15. FleetInv(g, cs, u, n, {})
  BY <1>1, <1>7, <1>8, <1>9, <1>12, <1>14 DEF FleetInv
<1>. QED
  BY <1>4, <1>5, <1>13, <1>15

----------------------------------------------------------------------------
(* What is said and delivered, when nothing is heard                       *)

LEMMA KeptData ==
  ASSUME NEW f, NEW g, NEW cs, NEW lg, Data(f, cs, lg), Kept(f, g)
  PROVE  Data(g, cs, lg)
<1>1. Talk(g, cs)
  <2>1. \A c \in Conns, l \in Loop : f.loop[l].conn = c =>
          g.loop[l].conn = c /\ g.loop[l].pc = f.loop[l].pc
    BY ConnParts DEF Kept
  <2>. QED
    BY <2>1 DEF Data, Talk, Expected
<1>2. Logged(g, cs, lg)
  BY DEF Data, Logged, Kept
<1>3. ASSUME NEW e \in Entry, ~g.entry[e].twice, ~g.entry[e].broken
      PROVE  Whole(g, cs, lg, e)
  <2>1. Whole(f, cs, lg, e)
    BY <1>3 DEF Data, Wholes, Kept
  <2>2. /\ g.entry[e].seen = f.entry[e].seen
        /\ g.entry[e].missed = f.entry[e].missed
        /\ g.entry[e].conn = f.entry[e].conn
        /\ g.entry[e].holding = f.entry[e].holding
        /\ g.wired \subseteq f.wired
    BY DEF Kept
  <2>3. ASSUME NEW l \in Loop, l[1] = e, g.loop[l].conn # None, Reading(g, l)
        PROVE  LoopWhole(g.entry[e], g.loop[l], cs[g.loop[l].conn], lg[Of(e)],
                         g.loop[l].conn \in g.wired)
    <3>1. /\ g.loop[l].conn = f.loop[l].conn /\ g.loop[l].pc = f.loop[l].pc
          /\ g.loop[l].held = f.loop[l].held /\ Reading(f, l)
      BY <2>3 DEF Kept, Reading
    <3>2. LoopWhole(f.entry[e], f.loop[l], cs[f.loop[l].conn], lg[Of(e)],
                    f.loop[l].conn \in f.wired)
      BY <2>1, <2>3, <3>1 DEF Whole
    <3>. QED
      BY <2>2, <3>1, <3>2 DEF LoopWhole, Covers
  <2>. QED
    BY <2>1, <2>2, <2>3 DEF Whole
<1>. QED
  BY <1>1, <1>2, <1>3 DEF Data, Wholes

LEMMA DroppedData ==
  ASSUME NEW f, NEW g, NEW G, NEW cs, NEW lg, Data(f, cs, lg), Dropped(f, G, g),
         G \subseteq Conns
  PROVE  Data(g, cs, lg)
<1>1. Talk(g, cs)
  BY DEF Data, Talk, Expected, Dropped
<1>2. Logged(g, cs, lg)
  BY DEF Data, Logged, Dropped
<1>3. ASSUME NEW e \in Entry, ~g.entry[e].twice, ~g.entry[e].broken
      PROVE  Whole(g, cs, lg, e)
  <2>1. Whole(f, cs, lg, e)
    BY <1>3 DEF Data, Wholes, Dropped
  <2>2. /\ g.entry[e].seen = f.entry[e].seen
        /\ g.entry[e].missed = f.entry[e].missed
        /\ g.entry[e].conn # None => g.entry[e].conn = f.entry[e].conn
        /\ g.entry[e].holding = f.entry[e].holding
        /\ g.loop = f.loop
        /\ \A c : c \in g.wired => c \in f.wired
    BY DEF Dropped
  <2>3. ASSUME NEW l \in Loop, l[1] = e, g.loop[l].conn # None, Reading(g, l)
        PROVE  LoopWhole(g.entry[e], g.loop[l], cs[g.loop[l].conn], lg[Of(e)],
                         g.loop[l].conn \in g.wired)
    <3>1. Reading(f, l)
      BY <2>2, <2>3 DEF Reading
    <3>2. LoopWhole(f.entry[e], f.loop[l], cs[f.loop[l].conn], lg[Of(e)],
                    f.loop[l].conn \in f.wired)
      BY <2>1, <2>2, <2>3, <3>1 DEF Whole
    <3>. QED
      BY <2>2, <3>1, <3>2 DEF LoopWhole, Covers
  <2>. QED
    BY <2>1, <2>2, <2>3 DEF Whole
<1>. QED
  BY <1>1, <1>2, <1>3 DEF Data, Wholes

\* A loop with a connection waits for a welcome or reads; and the one that reads
\* has the connection of its entry.
Hands(f) ==
  /\ \A e \in Entry : f.entry[e].conn \in Conns \cup {None}
  /\ \A l \in Loop :
       /\ f.loop[l].conn \in Conns \cup {None}
       /\ f.loop[l].conn # None =>
            /\ f.loop[l].pc \in {"hello", "catchUp", "finish"}
            /\ Reading(f, l) /\ ~f.entry[l[1]].twice =>
                 f.loop[l].conn = f.entry[l[1]].conn

LEMMA KeptHands ==
  ASSUME NEW f, NEW g, Hands(f), Kept(f, g)
  PROVE  Hands(g)
<1>1. \A e \in Entry : g.entry[e].conn \in Conns \cup {None}
  BY DEF Hands, Kept
<1>2. \A l \in Loop : g.loop[l].conn \in Conns \cup {None}
  BY DEF Hands, Kept
<1>3. ASSUME NEW l \in Loop, g.loop[l].conn # None
      PROVE  /\ g.loop[l].pc \in {"hello", "catchUp", "finish"}
             /\ Reading(g, l) /\ ~g.entry[l[1]].twice =>
                  g.loop[l].conn = g.entry[l[1]].conn
  <2>1. /\ g.loop[l].conn = f.loop[l].conn /\ g.loop[l].pc = f.loop[l].pc
        /\ l[1] \in Entry
    BY <1>3, LoopParts DEF Kept
  <2>. QED
    BY <1>3, <2>1 DEF Kept, Hands, Reading
<1>. QED
  BY <1>1, <1>2, <1>3 DEF Hands

LEMMA InvHands ==
  ASSUME NEW f, NEW cs, NEW u, NEW n, NEW G, FleetInv(f, cs, u, n, G)
  PROVE  Hands(f)
<1>1. \A e \in Entry : f.entry[e].conn \in Conns \cup {None}
  BY FleetParts, EntryTypes DEF FleetInv
<1>2. \A l \in Loop : f.loop[l].conn \in Conns \cup {None}
  BY FleetParts, LoopTypes DEF FleetInv
<1>3. ASSUME NEW l \in Loop, f.loop[l].conn # None
      PROVE  /\ f.loop[l].pc \in {"hello", "catchUp", "finish"}
             /\ Reading(f, l) /\ ~f.entry[l[1]].twice =>
                  f.loop[l].conn = f.entry[l[1]].conn
  <2>1. LoopOwns(f, cs, l) /\ l[1] \in Entry
    BY LoopParts DEF FleetInv, Owned
  <2>. QED
    BY <1>3, <2>1 DEF LoopOwns, FleetInv, Singles, Single
<1>. QED
  BY <1>1, <1>2, <1>3 DEF Hands

\* Connections that are closed carry nothing.
AreClosed(cs, G, ds) ==
  \A c \in Conns : ds[c] = IF c \in G THEN Unused ELSE cs[c]

LEMMA UnusedSays ==
  /\ Tidy(Unused) /\ Welcomes(Unused) = {} /\ Asked(Unused) = {}
  /\ Answered(Unused) = {} /\ ~Restarting(Unused)
  /\ \A top, n : ~IsNext(Unused, top, n)
  /\ \A m : ~IsReading(Unused, m)
  /\ Unused.at = "unused" /\ Unused.inbox = <<>> /\ Unused.asked = {}
<1>1. Unused.at = "unused" /\ Unused.inbox = <<>> /\ Unused.asked = {}
  BY DEF Unused
<1>2. DOMAIN Unused.inbox = {}
  BY <1>1
<1>. HIDE DEF Unused
<1>3. /\ Welcomes(Unused) = {} /\ Asked(Unused) = {} /\ Answered(Unused) = {}
      /\ Shutdowns(Unused) = {} /\ Stoppings(Unused) = {}
  BY <1>1, <1>2 DEF Welcomes, Asked, Answered, Shutdowns, Stoppings
<1>4. Tidy(Unused)
  BY <1>1, <1>3 DEF Tidy
<1>. QED
  BY <1>1, <1>2, <1>3, <1>4 DEF Restarting, IsNext, IsReading

LEMMA RejectionsData ==
  ASSUME NEW f, NEW cs, NEW lg \in [Workspaces -> Nat], NEW G,
         G \subseteq Conns, Hands(f), Data(f, cs, lg),
         NEW ds, AreClosed(cs, G, ds), NEW g, Rejections(f, G, g)
  PROVE  Data(g, ds, lg)
<1>1. ASSUME NEW l \in Loop, Over(f, G, l)
      PROVE  /\ f.loop[l].conn \in G /\ f.loop[l].conn # None
             /\ f.loop[l].pc \in {"catchUp", "finish"} /\ l[1] \in Entry
  BY <1>1, ConnParts, LoopParts DEF Over, Hands
<1>2. ASSUME NEW l \in Loop, g.loop[l].conn # None
      PROVE  g.loop[l] = f.loop[l] /\ f.loop[l].conn \notin G
  BY <1>2 DEF Rejections, Over, IdleLoop
<1>3. Talk(g, ds)
  <2>. SUFFICES ASSUME NEW c \in Conns
                PROVE  Tidy(ds[c]) /\ Expected(g, ds[c], c)
    BY DEF Talk
  <2>1. CASE c \in G
    BY <2>1, UnusedSays DEF AreClosed, Expected
  <2>2. CASE c \notin G
    <3>1. ds[c] = cs[c] /\ Tidy(cs[c]) /\ Expected(f, cs[c], c)
      BY <2>2 DEF AreClosed, Data, Talk
    <3>2. \A l \in Loop : f.loop[l].conn = c => g.loop[l] = f.loop[l]
      BY <2>2 DEF Rejections
    <3>. QED
      BY <3>1, <3>2 DEF Expected
  <2>. QED
    BY <2>1, <2>2
<1>4. Logged(g, ds, lg)
  <2>1. ASSUME NEW e \in Entry PROVE g.entry[e].seen <= lg[Of(e)]
    <3>0. f.entry[e].seen <= lg[Of(e)]
      BY DEF Data, Logged
    <3>1. CASE \A l \in Loop : l[1] = e => ~Over(f, G, l)
      BY <3>0, <3>1 DEF Rejections
    <3>2. CASE \E l \in Loop : l[1] = e /\ Over(f, G, l)
      <4>1. PICK l \in Loop : l[1] = e /\ Over(f, G, l)
        BY <3>2
      <4>2. f.loop[l].held \subseteq 1..lg[Of(e)]
        BY <4>1 DEF Data, Logged
      <4>3. \/ g.entry[e].seen = f.entry[e].seen
            \/ g.entry[e].seen \in f.loop[l].held
        BY <4>1 DEF Rejections, IsDelivery
      <4>4. lg[Of(e)] \in Nat
        BY EntryParts
      <4>. QED
        BY <3>0, <4>2, <4>3, <4>4
    <3>. QED
      BY <3>1, <3>2
  <2>2. ASSUME NEW l \in Loop PROVE g.loop[l].held \subseteq 1..lg[Of(l[1])]
    <3>1. f.loop[l].held \subseteq 1..lg[Of(l[1])]
      BY DEF Data, Logged
    <3>2. \/ g.loop[l] = IdleLoop \/ g.loop[l].held = f.loop[l].held
      BY DEF Rejections, Over
    <3>. QED
      BY <3>1, <3>2 DEF IdleLoop
  <2>3. ASSUME NEW c \in Conns
        PROVE  /\ \A i \in DOMAIN ds[c].inbox : ds[c].inbox[i].t = "found" =>
                    ds[c].inbox[i].upto <= lg[To(c)]
               /\ \A m \in ds[c].asked : m.t = "found" => m.upto <= lg[To(c)]
    <3>1. ds[c] = Unused \/ ds[c] = cs[c]
      BY DEF AreClosed
    <3>. QED
      BY <3>1, UnusedSays DEF Data, Logged
  <2>. QED
    BY <2>1, <2>2, <2>3 DEF Logged
<1>5. ASSUME NEW e \in Entry, ~g.entry[e].twice, ~g.entry[e].broken
      PROVE  Whole(g, ds, lg, e)
  <2>1. CASE \E l \in Loop : l[1] = e /\ Over(f, G, l)
    <3>1. PICK l \in Loop : l[1] = e /\ Over(f, G, l)
      BY <2>1
    <3>2. /\ IsDelivery(f.entry[e], f.loop[l].held, g.entry[e])
          /\ g.entry[e].broken = (f.entry[e].broken \/ f.loop[l].pc = "catchUp")
      BY <3>1 DEF Rejections
    <3>3. /\ ~f.entry[e].twice /\ ~f.entry[e].broken
          /\ f.loop[l].pc = "finish" /\ f.loop[l].conn \in G
          /\ f.loop[l].conn # None
      BY <1>1, <1>5, <3>1, <3>2 DEF IsDelivery
    <3>4. Whole(f, cs, lg, e)
      BY <3>3 DEF Data, Wholes
    <3>5. LoopWhole(f.entry[e], f.loop[l], cs[f.loop[l].conn], lg[Of(e)],
                    f.loop[l].conn \in f.wired)
      BY <3>1, <3>3, <3>4 DEF Whole, Reading
    <3>6. ~g.entry[e].missed
      <4>1. /\ Convex(f.loop[l].held) /\ ~f.entry[e].missed
            /\ \/ f.entry[e].seen = 0 \/ f.loop[l].held = {}
               \/ \E n \in f.loop[l].held : n <= f.entry[e].seen + 1
        BY <3>3, <3>4, <3>5 DEF LoopWhole, Covers, Whole
      <4>. QED
        BY <3>2, <4>1 DEF IsDelivery
    <3>7. f.entry[e].conn = f.loop[l].conn /\ g.entry[e].conn = f.loop[l].conn
      BY <3>1, <3>2, <3>3 DEF Hands, Reading, IsDelivery
    <3>8. \A n, top : ~IsNext(ds[g.entry[e].conn], top, n)
      BY <3>3, <3>7, UnusedSays DEF AreClosed
    <3>9. \A m \in Loop : m[1] = e /\ g.loop[m].conn # None => ~Reading(g, m)
      <4>. SUFFICES ASSUME NEW m \in Loop, m[1] = e, g.loop[m].conn # None,
                           Reading(g, m)
                    PROVE  FALSE
        OBVIOUS
      <4>1. g.loop[m] = f.loop[m] /\ f.loop[m].conn \notin G
        BY <1>2
      <4>2. f.loop[m].conn = f.entry[e].conn
        BY <3>3, <4>1 DEF Hands, Reading
      <4>. QED
        BY <3>3, <3>7, <4>1, <4>2
    <3>. QED
      BY <3>6, <3>8, <3>9 DEF Whole
  <2>2. CASE \A l \in Loop : l[1] = e => ~Over(f, G, l)
    <3>1. g.entry[e] = f.entry[e] /\ g.wired = f.wired
      BY <2>2 DEF Rejections
    <3>2. Whole(f, cs, lg, e)
      BY <1>5, <3>1 DEF Data, Wholes
    <3>3. f.entry[e].conn \in Conns \cup {None}
      BY DEF Hands
    <3>4. \A n : g.entry[e].conn # None
                   /\ IsNext(ds[g.entry[e].conn], lg[Of(e)], n)
                 => IsNext(cs[f.entry[e].conn], lg[Of(e)], n)
      BY <3>1, <3>3, UnusedSays DEF AreClosed
    <3>5. ASSUME NEW l \in Loop, l[1] = e, g.loop[l].conn # None, Reading(g, l)
          PROVE  LoopWhole(g.entry[e], g.loop[l], ds[g.loop[l].conn], lg[Of(e)],
                           g.loop[l].conn \in g.wired)
      <4>1. g.loop[l] = f.loop[l] /\ f.loop[l].conn \notin G
        BY <1>2, <3>5
      <4>2. ds[g.loop[l].conn] = cs[f.loop[l].conn]
        <5>1. f.loop[l].conn \in Conns
          BY <3>5, <4>1 DEF Hands
        <5>. QED
          BY <4>1, <5>1 DEF AreClosed
      <4>3. LoopWhole(f.entry[e], f.loop[l], cs[f.loop[l].conn], lg[Of(e)],
                      f.loop[l].conn \in f.wired)
        BY <3>2, <3>5, <4>1 DEF Whole, Reading
      <4>. QED
        BY <3>1, <4>1, <4>2, <4>3
    <3>. QED
      BY <3>1, <3>2, <3>4, <3>5 DEF Whole
  <2>. QED
    BY <2>1, <2>2
<1>. QED
  BY <1>3, <1>4, <1>5 DEF Data, Wholes

LEMMA WentData ==
  ASSUME NEW f, NEW cs, NEW lg \in [Workspaces -> Nat], NEW G,
         G \subseteq Conns, Hands(f), Data(f, cs, lg),
         NEW ds, AreClosed(cs, G, ds), NEW g, Went(f, G, g)
  PROVE  Data(g, ds, lg)
<1>1. PICK h, k : Rejections(f, G, h) /\ Kept(h, k) /\ Dropped(k, G, g)
  BY DEF Went
<1>2. Data(h, ds, lg)
  BY <1>1, RejectionsData
<1>3. Data(k, ds, lg)
  BY <1>1, <1>2, KeptData
<1>. QED
  BY <1>1, <1>3, DroppedData

LEMMA UnusedIs ==
  Unused \in ConnRecords
<1>1. /\ Unused = [at |-> "unused", inbox |-> <<>>, asked |-> {}]
      /\ <<>> \in Seq(Messages) /\ {} \in SUBSET Asks
  BY DEF Unused
<1>. QED
  BY <1>1 DEF ConnRecords

LEMMA ClosedWires ==
  ASSUME NEW cs, NEW u, NEW lg, Wires(cs, u, lg), NEW G, NEW ds,
         ds = [c \in Conns |-> IF c \in G THEN Unused ELSE cs[c]], NEW v,
         u.pc = "asking" /\ u.conn \notin G =>
           v.pc = "asking" /\ v.conn = u.conn
  PROVE  Wires(ds, v, lg)
<1>1. ds \in [Conns -> ConnRecords]
  BY UnusedIs DEF Wires
<1>2. HostAsked(ds, v)
  <2>. SUFFICES ASSUME NEW c \in Conns, Restarting(ds[c])
                PROVE  v.pc = "asking" /\ v.conn = c
    BY DEF HostAsked
  <2>1. c \notin G /\ ds[c] = cs[c]
    BY UnusedSays
  <2>2. u.pc = "asking" /\ u.conn = c
    BY <2>1 DEF Wires, HostAsked
  <2>. QED
    BY <2>1, <2>2
<1>3. Streamed(ds, lg)
  <2>. SUFFICES ASSUME NEW c \in Conns
                PROVE  /\ InStream(ds[c].inbox, lg[To(c)])
                       /\ ds[c].at = "open" => ToTheEnd(ds[c].inbox, lg[To(c)])
    BY DEF Streamed
  <2>1. CASE c \in G
    <3>1. ds[c].inbox = <<>> /\ ds[c].at = "unused"
      BY <2>1, UnusedSays
    <3>. QED
      BY <3>1 DEF InStream
  <2>2. CASE c \notin G
    BY <2>2 DEF Wires, Streamed
  <2>. QED
    BY <2>1, <2>2
<1>. QED
  BY <1>1, <1>2, <1>3 DEF Wires

LEMMA ClosesData ==
  ASSUME NEW f, NEW cs, NEW lg \in [Workspaces -> Nat],
         NEW c \in Conns, Hands(f), Data(f, cs, lg),
         NEW g, Closes(f, c, g), NEW ds, AreClosed(cs, {c}, ds)
  PROVE  Data(g, ds, lg)
<1>1. PICK h, k : Kept(f, h) /\ Went(h, {c}, k) /\ Kept(k, g)
  BY DEF Closes
<1>2. Data(h, cs, lg) /\ Hands(h)
  BY <1>1, KeptData, KeptHands
<1>3. Data(k, ds, lg)
  BY <1>1, <1>2, WentData
<1>. QED
  BY <1>1, <1>3, KeptData

----------------------------------------------------------------------------
(* What the host sends                                                     *)

\* A connection as the invariants want it, when the log ends at `top`.
Sound(k, top) ==
  /\ k \in ConnRecords /\ Tidy(k) /\ InStream(k.inbox, top)
  /\ k.at = "open" => ToTheEnd(k.inbox, top)
  /\ \A i \in DOMAIN k.inbox : k.inbox[i].t = "found" => k.inbox[i].upto <= top
  /\ \A m \in k.asked : m.t = "found" => m.upto <= top

\* On d nothing is under way that was not on k.
NothingNew(k, d) ==
  /\ Welcomes(d) # {} => Welcomes(k) # {}
  /\ Asked(d) # {} \/ Answered(d) # {} => Asked(k) # {} \/ Answered(k) # {}
  /\ Restarting(d) => Restarting(k)

\* m is found by a read of the log.
ReadNow(k, top, m) == /\ m.t = "found" /\ m.upto = top
                      /\ \E o : IsReading(k, o) /\ o.from = m.from

\* k becomes d, and its next event is the same, if it has one.
Follows(k, top, d, new) ==
  /\ Sound(d, new) /\ NothingNew(k, d)
  /\ \A n : IsNext(d, new, n) => IsNext(k, top, n)
  /\ \A m : IsReading(d, m) => IsReading(k, m) \/ ReadNow(k, top, m)

LEMMA AllSound ==
  ASSUME NEW f, NEW cs, NEW u, NEW lg, Data(f, cs, lg), Wires(cs, u, lg),
         NEW c \in Conns
  PROVE  Sound(cs[c], lg[To(c)])
  BY DEF Data, Talk, Wires, Streamed, Logged, Sound

LEMMA NextIs ==
  ASSUME NEW k, NEW top \in Nat, Sound(k, top), NEW n, IsNext(k, top, n)
  PROVE  n \in Nat /\ n <= top + 1
<1>1. CASE \E i \in DOMAIN k.inbox : IsEvent(k.inbox, i, n)
  <2>1. n \in 1..top
    BY <1>1 DEF Sound, InStream, IsEvent
  <2>. QED
    BY <2>1
<1>2. CASE n = top + 1
  BY <1>2
<1>. QED
  BY <1>1, <1>2 DEF IsNext

LEMMA WholeFollows ==
  ASSUME NEW r, NEW loop, NEW k, NEW top \in Nat, NEW wired,
         LoopWhole(r, loop, k, top, wired), Sound(k, top),
         loop.held \subseteq 1..top,
         NEW d, NEW new, Follows(k, top, d, new)
  PROVE  LoopWhole(r, loop, d, new, wired)
<1>1. ASSUME NEW n \in Nat, Covers(r, loop, k, n), n <= top + 1
      PROVE  Covers(r, loop, d, n)
  BY <1>1 DEF Covers, Follows, ReadNow
<1>2. loop.pc = "catchUp" => \A m : IsReading(d, m) => m.from = r.seen
  BY DEF LoopWhole, Follows, ReadNow
<1>3. loop.held # {} => \E n \in loop.held : Covers(r, loop, d, n)
  <2>. SUFFICES ASSUME loop.held # {}
                PROVE  \E n \in loop.held : Covers(r, loop, d, n)
    OBVIOUS
  <2>1. PICK n \in loop.held : Covers(r, loop, k, n)
    BY DEF LoopWhole
  <2>2. n \in Nat /\ n <= top + 1
    <3>1. n \in 1..top
      OBVIOUS
    <3>. QED
      BY <3>1
  <2>. QED
    BY <1>1, <2>1, <2>2
<1>4. ASSUME wired, NEW n \in Nat, IsNext(d, new, n)
      PROVE  IF loop.held = {} THEN Covers(r, loop, d, n)
             ELSE n - 1 \in loop.held /\ \A h \in loop.held : h < n
  <2>1. IsNext(k, top, n)
    BY <1>4 DEF Follows
  <2>2. n <= top + 1
    BY <2>1, NextIs
  <2>3. IF loop.held = {} THEN Covers(r, loop, k, n)
        ELSE n - 1 \in loop.held /\ \A h \in loop.held : h < n
    BY <1>4, <2>1 DEF LoopWhole
  <2>. QED
    BY <1>1, <2>2, <2>3
<1>. QED
  BY <1>2, <1>3, <1>4 DEF LoopWhole

LEMMA HostStep ==
  ASSUME NEW f, NEW cs, NEW u, NEW lg \in [Workspaces -> Nat],
         NEW n, Core(f, cs, u, n, lg),
         NEW new \in [Workspaces -> Nat],
         \A w \in Workspaces : lg[w] <= new[w],
         NEW ds \in [Conns -> ConnRecords],
         \A c \in Conns : /\ Follows(cs[c], lg[To(c)], ds[c], new[To(c)])
                          /\ Alive(ds, c) <=> Alive(cs, c)
  PROVE  Core(f, ds, u, n, new)
<1>. /\ u \in Updates /\ FleetInv(f, cs, u, n, {})
     /\ Data(f, cs, lg) /\ Wires(cs, u, lg)
  BY DEF Core
<1>0. /\ f \in Fleets /\ Owned(f, cs)
      /\ \A e \in Entry : Of(e) \in Workspaces /\ f.entry[e].seen \in Nat
  BY EntryParts, EntryTypes, FleetParts DEF FleetInv
<1>1. Talk(f, ds)
  BY DEF Data, Talk, Follows, Sound, NothingNew, Expected
<1>2. Streamed(ds, new)
  BY DEF Streamed, Follows, Sound
<1>3. HostAsked(ds, u)
  BY DEF Wires, HostAsked, Follows, NothingNew
<1>4. Logged(f, ds, new)
  <2>1. ASSUME NEW e \in Entry PROVE f.entry[e].seen <= new[Of(e)]
    <3>1. /\ f.entry[e].seen <= lg[Of(e)] /\ lg[Of(e)] <= new[Of(e)]
          /\ f.entry[e].seen \in Nat /\ lg[Of(e)] \in Nat
          /\ new[Of(e)] \in Nat
      BY <1>0 DEF Data, Logged
    <3>. QED
      BY <3>1
  <2>2. ASSUME NEW l \in Loop PROVE f.loop[l].held \subseteq 1..new[Of(l[1])]
    <3>1. /\ f.loop[l].held \subseteq 1..lg[Of(l[1])]
          /\ Of(l[1]) \in Workspaces
      BY <1>0, LoopParts DEF Data, Logged
    <3>2. lg[Of(l[1])] \in Nat /\ new[Of(l[1])] \in Nat
          /\ lg[Of(l[1])] <= new[Of(l[1])]
      BY <3>1
    <3>. QED
      BY <3>1, <3>2
  <2>. QED
    BY <2>1, <2>2 DEF Logged, Follows, Sound
<1>5. ASSUME NEW e \in Entry, ~f.entry[e].twice, ~f.entry[e].broken
      PROVE  Whole(f, ds, new, e)
  <2>1. Whole(f, cs, lg, e)
    BY <1>5 DEF Data, Wholes
  <2>2. ASSUME NEW l \in Loop, l[1] = e, f.loop[l].conn # None, Reading(f, l)
        PROVE  LoopWhole(f.entry[e], f.loop[l], ds[f.loop[l].conn], new[Of(e)],
                         f.loop[l].conn \in f.wired)
    <3>1. LoopWhole(f.entry[e], f.loop[l], cs[f.loop[l].conn], lg[Of(e)],
                    f.loop[l].conn \in f.wired)
      BY <2>1, <2>2 DEF Whole
    <3>2. f.loop[l].conn \in Conns /\ To(f.loop[l].conn) = Of(e)
      <4>1. f.loop[l].conn \in Conns /\ LoopOwns(f, cs, l)
        BY <1>0, <2>2, LoopTypes, FleetParts DEF Owned
      <4>. QED
        BY <4>1, <2>2 DEF LoopOwns, To
    <3>3. Follows(cs[f.loop[l].conn], lg[Of(e)], ds[f.loop[l].conn],
                  new[Of(e)])
      BY <3>2
    <3>4. f.loop[l].held \subseteq 1..lg[Of(e)] /\ lg[Of(e)] \in Nat
      BY <1>0, <2>2 DEF Data, Logged
    <3>5. Sound(cs[f.loop[l].conn], lg[Of(e)])
      BY <3>2, AllSound
    <3>. QED
      BY <3>1, <3>3, <3>4, <3>5, WholeFollows
  <2>3. f.entry[e].conn # None =>
          f.entry[e].conn \in Conns /\ To(f.entry[e].conn) = Of(e)
    BY <1>0, OwnConn DEF To
  <2>. QED
    BY <2>1, <2>2, <2>3 DEF Whole, Follows
<1>. QED
  BY <1>1, <1>2, <1>3, <1>4, <1>5, SameAlive DEF Data, Wires, Wholes, Core

\* From k to d the message m is added at the end.
Added(k, m, d) ==
  /\ k.inbox \in Seq(Messages) /\ d.inbox \in Seq(Messages)
  /\ Len(d.inbox) = Len(k.inbox) + 1
  /\ DOMAIN k.inbox = 1..Len(k.inbox) /\ DOMAIN d.inbox = 1..Len(d.inbox)
  /\ Len(k.inbox) \in Nat
  /\ d.inbox[Len(k.inbox) + 1] = m
  /\ \A i \in 1..Len(k.inbox) : d.inbox[i] = k.inbox[i]

LEMMA AddedIs ==
  ASSUME NEW k, k.inbox \in Seq(Messages), NEW m \in Messages, NEW d,
         d.inbox = Append(k.inbox, m)
  PROVE  Added(k, m, d)
  BY DEF Added

LEMMA AddedKinds ==
  ASSUME NEW k, NEW m, NEW d, Added(k, m, d), NEW T
  PROVE  {i \in DOMAIN d.inbox : d.inbox[i].t \in T} =
           {i \in DOMAIN k.inbox : k.inbox[i].t \in T}
             \cup IF m.t \in T THEN {Len(k.inbox) + 1} ELSE {}
<1>1. 1..(Len(k.inbox) + 1) = 1..Len(k.inbox) \cup {Len(k.inbox) + 1}
  BY DEF Added
<1>2. Len(k.inbox) + 1 \notin 1..Len(k.inbox)
  BY DEF Added
<1>. QED
  BY <1>1, <1>2 DEF Added

\* The end of the log when m has been added.
Top(m, top) == IF m.t = "event" THEN top + 1 ELSE top

LEMMA AddedStream ==
  ASSUME NEW k, NEW m, NEW d, Added(k, m, d), NEW top \in Nat,
         InStream(k.inbox, top),
         m.t = "event" => m.n = top + 1 /\ ToTheEnd(k.inbox, top)
  PROVE  /\ InStream(d.inbox, Top(m, top))
         /\ ToTheEnd(k.inbox, top) => ToTheEnd(d.inbox, Top(m, top))
<1>. DEFINE L == Len(k.inbox)
            s == k.inbox
            t == d.inbox
<1>1. /\ L \in Nat /\ DOMAIN s = 1..L /\ DOMAIN t = 1..(L + 1)
      /\ Len(t) = L + 1 /\ t[L + 1] = m /\ \A i \in 1..L : t[i] = s[i]
  BY DEF Added
<1>2. \A i \in DOMAIN s : s[i].t = "event" => s[i].n \in 1..top
  BY DEF InStream
<1>3. \A i, j \in 1..L : i < j /\ s[i].t = "event" /\ s[j].t = "event" =>
        s[i].n < s[j].n /\ \E x \in (i + 1)..j : IsEvent(s, x, s[i].n + 1)
  BY <1>1 DEF InStream
<1>. HIDE DEF L, s, t
<1>4. ASSUME NEW i \in 1..L, NEW x \in 1..L, NEW n
      PROVE  IsEvent(t, x, n) <=> IsEvent(s, x, n)
  BY <1>1, <1>4 DEF IsEvent
<1>5. ASSUME m.t = "event", NEW i \in 1..L, s[i].t = "event"
      PROVE  /\ s[i].n < m.n
             /\ \E x \in (i + 1)..(L + 1) : IsEvent(t, x, s[i].n + 1)
  <2>1. s[i].n \in 1..top /\ m.n = top + 1
    BY <1>1, <1>2, <1>5
  <2>2. CASE s[i].n = top
    <3>1. IsEvent(t, L + 1, s[i].n + 1)
      BY <1>1, <1>5, <2>1, <2>2 DEF IsEvent
    <3>2. L + 1 \in (i + 1)..(L + 1)
      BY <1>1
    <3>. QED
      BY <2>1, <3>1, <3>2
  <2>3. CASE \E x \in (i + 1)..L : IsEvent(s, x, s[i].n + 1)
    <3>1. PICK x \in (i + 1)..L : IsEvent(s, x, s[i].n + 1)
      BY <2>3
    <3>2. x \in 1..L /\ x \in (i + 1)..(L + 1)
      BY <1>1, <3>1
    <3>. QED
      BY <1>4, <2>1, <3>1, <3>2
  <2>. QED
    BY <1>1, <1>5, <2>2, <2>3 DEF ToTheEnd, L, s
<1>6. InStream(t, Top(m, top))
  <2>1. ASSUME NEW i \in DOMAIN t, t[i].t = "event"
        PROVE  t[i].n \in 1..Top(m, top)
    <3>1. CASE i \in 1..L
      <4>1. t[i].n \in 1..top
        BY <1>1, <1>2, <2>1, <3>1
      <4>. QED
        BY <4>1 DEF Top
    <3>2. CASE i = L + 1
      BY <1>1, <2>1, <3>2 DEF Top
    <3>. QED
      BY <1>1, <3>1, <3>2
  <2>2. ASSUME NEW i \in DOMAIN t, NEW j \in DOMAIN t, i < j,
               t[i].t = "event", t[j].t = "event"
        PROVE  /\ t[i].n < t[j].n
               /\ \E x \in (i + 1)..j : IsEvent(t, x, t[i].n + 1)
    <3>0. i \in 1..L /\ t[i] = s[i]
      BY <1>1, <2>2
    <3>1. CASE j \in 1..L
      <4>1. t[j] = s[j]
        BY <1>1, <3>1
      <4>2. PICK x \in (i + 1)..j : IsEvent(s, x, s[i].n + 1)
        BY <1>3, <2>2, <3>0, <3>1, <4>1
      <4>3. x \in 1..L
        BY <1>1, <3>0, <3>1, <4>2
      <4>. QED
        BY <1>3, <1>4, <2>2, <3>0, <3>1, <4>1, <4>2, <4>3
    <3>2. CASE j = L + 1
      BY <1>1, <1>5, <2>2, <3>0, <3>2
    <3>. QED
      BY <1>1, <3>1, <3>2
  <2>. QED
    BY <2>1, <2>2 DEF InStream
<1>7. ASSUME ToTheEnd(k.inbox, top) PROVE ToTheEnd(t, Top(m, top))
  <2>. SUFFICES ASSUME NEW i \in DOMAIN t, t[i].t = "event"
                PROVE  \/ t[i].n = Top(m, top)
                       \/ \E x \in (i + 1)..Len(t) : IsEvent(t, x, t[i].n + 1)
    BY DEF ToTheEnd
  <2>1. CASE i = L + 1
    BY <1>1, <2>1 DEF Top
  <2>2. CASE i \in 1..L /\ m.t = "event"
    BY <1>1, <1>5, <2>2
  <2>3. CASE i \in 1..L /\ m.t # "event"
    <3>1. \/ s[i].n = top \/ \E x \in (i + 1)..L : IsEvent(s, x, s[i].n + 1)
      BY <1>1, <1>7, <2>3 DEF ToTheEnd, L, s
    <3>2. CASE s[i].n = top
      BY <1>1, <2>3, <3>2 DEF Top
    <3>3. CASE \E x \in (i + 1)..L : IsEvent(s, x, s[i].n + 1)
      <4>1. PICK x \in (i + 1)..L : IsEvent(s, x, s[i].n + 1)
        BY <3>3
      <4>2. x \in 1..L /\ x \in (i + 1)..Len(t)
        BY <1>1, <2>3, <4>1
      <4>. QED
        BY <1>1, <1>4, <2>3, <4>1, <4>2
    <3>. QED
      BY <3>1, <3>2, <3>3
  <2>. QED
    BY <1>1, <2>1, <2>2, <2>3
<1>. QED
  BY <1>6, <1>7 DEF t

LEMMA AddedNext ==
  ASSUME NEW k, NEW m, NEW d, Added(k, m, d), NEW top \in Nat,
         d.at = "open" \/ m.t = "event" => k.at = "open",
         m.t = "event" => m.n = top + 1,
         NEW n, IsNext(d, Top(m, top), n)
  PROVE  IsNext(k, top, n)
<1>. DEFINE L == Len(k.inbox)
            s == k.inbox
            t == d.inbox
<1>1. /\ L \in Nat /\ DOMAIN s = 1..L /\ DOMAIN t = 1..(L + 1)
      /\ Len(t) = L + 1 /\ t[L + 1] = m /\ \A i \in 1..L : t[i] = s[i]
  BY DEF Added
<1>. HIDE DEF L
<1>2. CASE \E i \in DOMAIN t : /\ IsEvent(t, i, n)
                               /\ \A j \in 1..(i - 1) : t[j].t # "event"
  <2>1. PICK i \in DOMAIN t : /\ IsEvent(t, i, n)
                              /\ \A j \in 1..(i - 1) : t[j].t # "event"
    BY <1>2
  <2>2. CASE i \in 1..L
    <3>1. IsEvent(s, i, n)
      BY <1>1, <2>1, <2>2 DEF IsEvent
    <3>2. \A j \in 1..(i - 1) : j \in 1..L
      BY <1>1, <2>2
    <3>. QED
      BY <1>1, <2>1, <2>2, <3>1, <3>2 DEF IsNext
  <2>3. CASE i = L + 1
    <3>1. m.t = "event" /\ m.n = n
      BY <1>1, <2>1, <2>3 DEF IsEvent
    <3>2. \A j \in 1..L : s[j].t # "event"
      <4>1. i - 1 = L
        BY <1>1, <2>3
      <4>. QED
        BY <1>1, <2>1, <4>1
    <3>. QED
      BY <1>1, <3>1, <3>2 DEF IsNext
  <2>. QED
    BY <1>1, <2>1, <2>2, <2>3
<1>3. CASE /\ d.at = "open" /\ \A i \in DOMAIN t : t[i].t # "event"
           /\ n = Top(m, top) + 1
  <2>1. m.t # "event"
    <3>1. L + 1 \in DOMAIN t
      BY <1>1
    <3>. QED
      BY <1>1, <1>3, <3>1
  <2>2. \A i \in DOMAIN s : s[i].t # "event"
    <3>1. \A i \in DOMAIN s : i \in DOMAIN t
      BY <1>1
    <3>. QED
      BY <1>1, <1>3, <3>1
  <2>. QED
    BY <1>3, <2>1, <2>2 DEF IsNext, Top
<1>. QED
  BY <1>2, <1>3 DEF IsNext

LEMMA MessageTypes ==
  ASSUME NEW m \in Messages
  PROVE  /\ m.t \in {"welcome", "event", "found", "unknown", "stopping",
                     "closing"}
         /\ m.t = "event" => m.n \in Nat
         /\ m.t = "found" => m.from \in Nat /\ m.upto \in Nat
         /\ m.t = "stopping" => m.yes \in BOOLEAN
  BY DEF Messages

LEMMA AskTypes ==
  ASSUME NEW m \in Asks
  PROVE  /\ m.t \in {"read", "found", "unknown", "shutdown"}
         /\ m.t \in {"read", "found"} => m.from \in Nat
         /\ m.t = "found" => m.upto \in Nat
  BY DEF Asks

LEMMA ConnTypes ==
  ASSUME NEW k \in ConnRecords
  PROVE  /\ k.at \in {"unused", "open", "cut"}
         /\ k.inbox \in Seq(Messages) /\ Len(k.inbox) \in Nat
         /\ DOMAIN k.inbox = 1..Len(k.inbox)
         /\ \A i \in DOMAIN k.inbox : k.inbox[i] \in Messages
         /\ k.asked \in SUBSET Asks
<1>1. k.inbox \in Seq(Messages)
  BY DEF ConnRecords
<1>2. /\ k.at \in {"unused", "open", "cut"} /\ k.asked \in SUBSET Asks
  BY DEF ConnRecords
<1>. QED
  BY <1>1, <1>2

LEMMA StayFollows ==
  ASSUME NEW k, NEW top \in Nat, NEW new \in Nat, Sound(k, top), top <= new,
         k.at = "open" => top = new
  PROVE  Follows(k, top, k, new)
<1>1. CASE top = new
  BY <1>1 DEF Follows, NothingNew
<1>2. CASE k.at # "open"
  <2>1. k \in ConnRecords
    BY DEF Sound
  <2>2. InStream(k.inbox, new)
    <3>1. \A x : x \in 1..top => x \in 1..new
      OBVIOUS
    <3>. QED
      BY <3>1 DEF Sound, InStream
  <2>3. \A i \in DOMAIN k.inbox : k.inbox[i].t = "found" =>
          k.inbox[i].upto <= new
    <3>. SUFFICES ASSUME NEW i \in DOMAIN k.inbox, k.inbox[i].t = "found"
                  PROVE  k.inbox[i].upto <= new
      OBVIOUS
    <3>1. k.inbox[i].upto \in Nat /\ k.inbox[i].upto <= top
      BY <2>1, ConnTypes, MessageTypes DEF Sound
    <3>. QED
      BY <3>1
  <2>4. \A m \in k.asked : m.t = "found" => m.upto <= new
    <3>. SUFFICES ASSUME NEW m \in k.asked, m.t = "found" PROVE m.upto <= new
      OBVIOUS
    <3>1. m.upto \in Nat /\ m.upto <= top
      BY <2>1, ConnTypes, AskTypes DEF Sound
    <3>. QED
      BY <3>1
  <2>5. Sound(k, new)
    BY <1>2, <2>2, <2>3, <2>4 DEF Sound
  <2>. QED
    BY <1>2, <2>5 DEF Follows, NothingNew, IsNext
<1>. QED
  BY <1>1, <1>2

\* Nothing is under way on a connection that is cut.
LEMMA CutFollows ==
  ASSUME NEW k, NEW top \in Nat, Sound(k, top),
         NEW d, d.at = "cut", d.inbox = <<>>, d.asked = {}, d \in ConnRecords
  PROVE  Follows(k, top, d, top)
<1>1. DOMAIN d.inbox = {}
  OBVIOUS
<1>2. /\ Welcomes(d) = {} /\ Asked(d) = {} /\ Answered(d) = {}
      /\ Shutdowns(d) = {} /\ Stoppings(d) = {}
  BY <1>1 DEF Welcomes, Asked, Answered, Shutdowns, Stoppings
<1>3. Sound(d, top)
  BY <1>1, <1>2 DEF Sound, Tidy, InStream
<1>. QED
  BY <1>1, <1>2, <1>3 DEF Follows, NothingNew, Restarting, IsNext, IsReading

\* A message is sent, which nobody asked for or which answers a request.
LEMMA SentFollows ==
  ASSUME NEW k, NEW top \in Nat, Sound(k, top),
         NEW m \in Messages, m.t # "welcome",
         NEW d \in ConnRecords, d.inbox = Append(k.inbox, m),
         d.asked \subseteq k.asked, d.at # "unused", k.at = "open",
         d.at = "cut" => d.asked = {},
         m.t = "event" => m.n = top + 1,
         m.t \in Answers => m \in k.asked /\ m \notin d.asked,
         m.t = "stopping" => Shutdowns(k) # {} /\ Shutdowns(d) = {}
  PROVE  Follows(k, top, d, Top(m, top))
<1>. DEFINE L == Len(k.inbox)
<1>0. /\ k \in ConnRecords /\ Tidy(k) /\ InStream(k.inbox, top)
      /\ ToTheEnd(k.inbox, top)
  BY DEF Sound
<1>1. Added(k, m, d)
  BY <1>0, ConnTypes, AddedIs
<1>2. /\ L \in Nat /\ DOMAIN k.inbox = 1..L /\ DOMAIN d.inbox = 1..(L + 1)
      /\ d.inbox[L + 1] = m /\ \A i \in 1..L : d.inbox[i] = k.inbox[i]
  BY <1>1 DEF Added
<1>. HIDE DEF L
<1>3. Welcomes(d) = Welcomes(k)
  <2>1. {i \in DOMAIN d.inbox : d.inbox[i].t \in {"welcome"}} =
          {i \in DOMAIN k.inbox : k.inbox[i].t \in {"welcome"}}
            \cup IF m.t \in {"welcome"} THEN {Len(k.inbox) + 1} ELSE {}
    BY <1>1, AddedKinds
  <2>. QED
    BY <2>1 DEF Welcomes
<1>4. Answered(d) = Answered(k) \cup IF m.t \in Answers THEN {L + 1} ELSE {}
  BY <1>1, AddedKinds DEF Answered, L
<1>5. Stoppings(d) = Stoppings(k)
                       \cup IF m.t = "stopping" THEN {L + 1} ELSE {}
  <2>1. {i \in DOMAIN d.inbox : d.inbox[i].t \in {"stopping"}} =
          {i \in DOMAIN k.inbox : k.inbox[i].t \in {"stopping"}}
            \cup IF m.t \in {"stopping"} THEN {Len(k.inbox) + 1} ELSE {}
    BY <1>1, AddedKinds
  <2>. QED
    BY <2>1 DEF Stoppings, L
<1>6. Asked(d) \subseteq Asked(k) /\ Shutdowns(d) \subseteq Shutdowns(k)
  BY DEF Asked, Shutdowns
<1>7. m.t \in Answers => Asked(k) = {m} /\ Asked(d) = {} /\ Answered(k) = {}
  <2>. SUFFICES ASSUME m.t \in Answers
                PROVE  Asked(k) = {m} /\ Asked(d) = {} /\ Answered(k) = {}
    OBVIOUS
  <2>1. m \in Asked(k) /\ m \notin Asked(d)
    BY DEF Asked
  <2>2. Asked(k) = {m}
    BY <1>0, <2>1 DEF Tidy
  <2>. QED
    BY <1>0, <1>6, <2>1, <2>2 DEF Tidy
<1>8. Tidy(d)
  <2>1. \A i, j \in Answered(d) : i = j
    BY <1>0, <1>4, <1>7 DEF Tidy
  <2>2. \A i, j \in Stoppings(d) : i = j
    BY <1>0, <1>5 DEF Tidy
  <2>3. Asked(d) = {} \/ Answered(d) = {}
    BY <1>0, <1>4, <1>6, <1>7 DEF Tidy
  <2>4. Shutdowns(d) = {} \/ Stoppings(d) = {}
    BY <1>0, <1>5, <1>6 DEF Tidy
  <2>5. \A x, y \in Asked(d) : x = y
    BY <1>0, <1>6 DEF Tidy
  <2>. QED
    BY <1>0, <1>3, <2>1, <2>2, <2>3, <2>4, <2>5 DEF Tidy
<1>9. NothingNew(k, d)
  BY <1>3, <1>4, <1>5, <1>6, <1>7 DEF NothingNew, Restarting
<1>10. /\ InStream(d.inbox, Top(m, top))
       /\ ToTheEnd(k.inbox, top) => ToTheEnd(d.inbox, Top(m, top))
  BY <1>0, <1>1, AddedStream
<1>11. \A x \in k.asked : x.t = "found" => x.upto <= Top(m, top)
  <2>. SUFFICES ASSUME NEW x \in k.asked, x.t = "found"
                PROVE  x.upto <= Top(m, top)
    OBVIOUS
  <2>1. x.upto \in Nat /\ x.upto <= top
    BY <1>0, ConnTypes, AskTypes DEF Sound
  <2>. QED
    BY <2>1 DEF Top
<1>12. \A i \in DOMAIN d.inbox : d.inbox[i].t = "found" =>
         d.inbox[i].upto <= Top(m, top)
  <2>. SUFFICES ASSUME NEW i \in DOMAIN d.inbox, d.inbox[i].t = "found"
                PROVE  d.inbox[i].upto <= Top(m, top)
    OBVIOUS
  <2>1. CASE i = L + 1
    BY <1>2, <1>11, <2>1 DEF Answers
  <2>2. CASE i \in 1..L
    <3>1. /\ k.inbox[i].upto \in Nat /\ k.inbox[i].upto <= top
          /\ d.inbox[i] = k.inbox[i]
      BY <1>0, <1>2, <2>2, ConnTypes, MessageTypes DEF Sound
    <3>. QED
      BY <3>1 DEF Top
  <2>. QED
    BY <1>2, <2>1, <2>2
<1>13. Sound(d, Top(m, top))
  BY <1>0, <1>8, <1>10, <1>11, <1>12 DEF Sound
<1>14. \A n : IsNext(d, Top(m, top), n) => IsNext(k, top, n)
  BY <1>1, AddedNext
<1>15. \A x : IsReading(d, x) => IsReading(k, x)
  <2>. SUFFICES ASSUME NEW x, IsReading(d, x) PROVE IsReading(k, x)
    OBVIOUS
  <2>1. CASE x \in d.asked
    BY <2>1 DEF IsReading
  <2>2. CASE \E i \in DOMAIN d.inbox : d.inbox[i] = x
    <3>1. PICK i \in DOMAIN d.inbox : d.inbox[i] = x
      BY <2>2
    <3>2. CASE i = L + 1
      BY <1>2, <3>1, <3>2 DEF IsReading, Answers
    <3>3. CASE i \in 1..L
      BY <1>2, <3>1, <3>3 DEF IsReading
    <3>. QED
      BY <1>2, <3>1, <3>2, <3>3
  <2>. QED
    BY <2>1, <2>2 DEF IsReading
<1>. QED
  BY <1>9, <1>13, <1>14, <1>15 DEF Follows

LEMMA CoreTypes ==
  ASSUME IInv
  PROVE  /\ conn \in [Conns -> ConnRecords] /\ log \in [Workspaces -> Nat]
         /\ faults \in Nat /\ fleet \in Fleets /\ update \in Updates
         /\ \A c \in Conns : log[To(c)] \in Nat /\ To(c) \in Workspaces
<1>1. \A c \in Conns : To(c) \in Workspaces
  BY ConnParts, EntryParts DEF To
<1>. QED
  BY <1>1, Bounds DEF IInv, Core, Shapes, Wires, FleetInv

LEMMA Stays ==
  ASSUME IInv, NEW c \in Conns
  PROVE  /\ Sound(conn[c], log[To(c)])
         /\ Follows(conn[c], log[To(c)], conn[c], log[To(c)])
<1>1. Sound(conn[c], log[To(c)])
  BY AllSound DEF IInv, Core
<1>. QED
  BY <1>1, CoreTypes, StayFollows

LEMMA SentIs ==
  ASSUME NEW k \in ConnRecords, NEW m \in Messages
  PROVE  LET d == [k EXCEPT !.inbox = Append(@, m)]
         IN  /\ d \in ConnRecords /\ d.at = k.at /\ d.asked = k.asked
             /\ d.inbox = Append(k.inbox, m)
<1>1. Append(k.inbox, m) \in Seq(Messages)
  BY ConnTypes
<1>. QED
  BY <1>1 DEF ConnRecords

LEMMA AppendsInv ==
  ASSUME IInv, NEW w \in Workspaces, Appends(w)
  PROVE  IInv'
<1>1. /\ log[w] < LogLimit[w] /\ log' = [log EXCEPT ![w] = log[w] + 1]
      /\ loaded' = loaded /\ host' = host /\ fleet' = fleet
      /\ update' = update /\ faults' = faults
  BY DEF Appends
<1>2. log \in [Workspaces -> Nat] /\ log' \in [Workspaces -> Nat]
      /\ \A v \in Workspaces : log[v] <= log'[v]
      /\ LogLimit[w] \in Nat
  BY <1>1, CoreTypes, FleetAssumption
<1>3. Shapes'
  BY <1>1, <1>2 DEF IInv, Shapes
<1>. DEFINE m == [t |-> "event", n |-> log[w] + 1]
<1>4. m \in Messages /\ m.t = "event" /\ m.n = log[w] + 1
  BY <1>2 DEF Messages
<1>. HIDE DEF m
<1>5. ASSUME NEW c \in Conns
      PROVE  /\ conn'[c] \in ConnRecords
             /\ Follows(conn[c], log[To(c)], conn'[c], log'[To(c)])
             /\ Alive(conn', c) <=> Alive(conn, c)
  <2>0. conn[c] \in ConnRecords /\ Sound(conn[c], log[To(c)])
        /\ To(c) \in Workspaces /\ log[To(c)] \in Nat /\ log'[To(c)] \in Nat
    BY <1>2, Stays, CoreTypes
  <2>1. CASE Open(c) /\ To(c) = w
    <3>1. conn'[c] = [conn[c] EXCEPT !.inbox = Append(@, m)]
      BY <2>1 DEF Appends, m
    <3>2. /\ conn'[c] \in ConnRecords /\ conn'[c].at = "open"
          /\ conn'[c].asked = conn[c].asked
          /\ conn'[c].inbox = Append(conn[c].inbox, m)
      BY <2>0, <2>1, <3>1, <1>4, SentIs, Zenon DEF Open
    <3>3. Top(m, log[To(c)]) = log'[To(c)]
      BY <1>1, <1>2, <1>4, <2>1 DEF Top
    <3>4. Follows(conn[c], log[To(c)], conn'[c], Top(m, log[To(c)]))
      BY <2>0, <2>1, <3>2, <1>4, SentFollows DEF Open, Answers
    <3>. QED
      BY <2>1, <3>2, <3>3, <3>4 DEF Open, Alive
  <2>2. CASE ~(Open(c) /\ To(c) = w)
    <3>1. conn'[c] = conn[c]
      BY <2>2 DEF Appends
    <3>2. log[To(c)] <= log'[To(c)]
          /\ (conn[c].at = "open" => log[To(c)] = log'[To(c)])
      BY <1>1, <1>2, <2>0, <2>2 DEF Open
    <3>3. Follows(conn[c], log[To(c)], conn[c], log'[To(c)])
      BY <2>0, <3>2, StayFollows
    <3>. QED
      BY <2>0, <3>1, <3>3 DEF Alive
  <2>. QED
    BY <2>1, <2>2
<1>6. conn' \in [Conns -> ConnRecords]
  <2>1. conn' = [c \in Conns |-> conn'[c]]
    BY DEF Appends
  <2>. QED
    BY <1>5, <2>1
<1>7. Core(fleet, conn', update, faults, log')
  BY <1>2, <1>5, <1>6, HostStep DEF IInv
<1>. QED
  BY <1>1, <1>3, <1>7 DEF IInv

\* A step after which only one connection is another.
LEMMA OneFollows ==
  ASSUME IInv, NEW c \in Conns, NEW d \in ConnRecords,
         Follows(conn[c], log[To(c)], d, log[To(c)]),
         d.at = "unused" <=> conn[c].at = "unused",
         conn' = [conn EXCEPT ![c] = d]
  PROVE  Core(fleet, conn', update, faults, log)
<1>1. conn' \in [Conns -> ConnRecords]
  BY CoreTypes
<1>2. ASSUME NEW x \in Conns
      PROVE  /\ Follows(conn[x], log[To(x)], conn'[x], log[To(x)])
             /\ Alive(conn', x) <=> Alive(conn, x)
  <2>1. CASE x = c
    BY <2>1, CoreTypes DEF Alive
  <2>2. CASE x # c
    <3>1. conn'[x] = conn[x]
      BY <2>2, CoreTypes
    <3>. QED
      BY <3>1, Stays DEF Alive
  <2>. QED
    BY <2>1, <2>2
<1>3. \A w \in Workspaces : log[w] <= log[w]
  BY CoreTypes
<1>. QED
  BY <1>1, <1>2, <1>3, CoreTypes, HostStep DEF IInv

LEMMA RepliesInv ==
  ASSUME IInv, NEW c \in Conns, Replies(c)
  PROVE  IInv'
<1>1. PICK m \in conn[c].asked :
        /\ m.t \in {"found", "unknown"}
        /\ conn' = [Send(conn, c, m) EXCEPT ![c].asked = @ \ {m}]
  BY DEF Replies
<1>2. /\ Open(c) /\ log' = log /\ loaded' = loaded /\ host' = host
      /\ fleet' = fleet /\ update' = update /\ faults' = faults
  BY DEF Replies
<1>. DEFINE k == conn[c]
            d == [k EXCEPT !.inbox = Append(@, m), !.asked = @ \ {m}]
<1>3. k \in ConnRecords /\ Sound(k, log[To(c)]) /\ log[To(c)] \in Nat
  BY Stays, CoreTypes
<1>4. conn' = [conn EXCEPT ![c] = d]
  BY <1>1, CoreTypes DEF Send
<1>5. m \in Messages
  BY <1>1, <1>3, ConnTypes DEF Asks, Messages
<1>6. Append(k.inbox, m) \in Seq(Messages)
  BY <1>3, <1>5, ConnTypes
<1>7. d \in ConnRecords /\ d.at = "open" /\ d.asked = k.asked \ {m}
      /\ d.inbox = Append(k.inbox, m) /\ k.at = "open"
  BY <1>2, <1>3, <1>6 DEF ConnRecords, Open
<1>. HIDE DEF d
<1>8. Follows(k, log[To(c)], d, Top(m, log[To(c)]))
  BY <1>1, <1>3, <1>5, <1>7, SentFollows
<1>9. Top(m, log[To(c)]) = log[To(c)]
  BY <1>1 DEF Top
<1>10. Core(fleet, conn', update, faults, log)
  BY <1>4, <1>7, <1>8, <1>9, OneFollows
<1>. QED
  BY <1>2, <1>10 DEF IInv, Shapes

LEMMA AnswersShutdownInv ==
  ASSUME IInv, NEW c \in Conns, AnswersShutdown(c)
  PROVE  IInv'
<1>1. PICK o \in conn[c].asked, yes \in BOOLEAN :
        /\ o.t = "shutdown"
        /\ conn' = [Send(conn, c, [t |-> "stopping", yes |-> yes])
                      EXCEPT ![c].asked = @ \ {o}]
        /\ host' = IF yes THEN "leaving" ELSE host
  BY DEF AnswersShutdown
<1>2. /\ Open(c) /\ log' = log /\ loaded' = loaded
      /\ fleet' = fleet /\ update' = update /\ faults' = faults
  BY DEF AnswersShutdown
<1>. DEFINE k == conn[c]
            m == [t |-> "stopping", yes |-> yes]
            d == [k EXCEPT !.inbox = Append(@, m), !.asked = @ \ {o}]
<1>3. k \in ConnRecords /\ Sound(k, log[To(c)]) /\ log[To(c)] \in Nat
  BY Stays, CoreTypes
<1>4. conn' = [conn EXCEPT ![c] = d]
  BY <1>1, CoreTypes DEF Send
<1>5. m \in Messages /\ m.t = "stopping"
  BY DEF Messages
<1>6. Append(k.inbox, m) \in Seq(Messages)
  BY <1>3, <1>5, ConnTypes
<1>7. d \in ConnRecords /\ d.at = "open" /\ d.asked = k.asked \ {o}
      /\ d.inbox = Append(k.inbox, m) /\ k.at = "open"
  BY <1>2, <1>3, <1>6 DEF ConnRecords, Open
<1>. HIDE DEF d, m
<1>8. Shutdowns(k) # {} /\ Shutdowns(d) = {}
  <2>1. \A x \in k.asked : x.t = "shutdown" => x = o
    BY <1>1, <1>3, ConnTypes DEF Asks
  <2>. QED
    BY <1>1, <1>7, <2>1 DEF Shutdowns
<1>9. Follows(k, log[To(c)], d, Top(m, log[To(c)]))
  BY <1>3, <1>5, <1>7, <1>8, SentFollows DEF Answers
<1>10. Top(m, log[To(c)]) = log[To(c)]
  BY <1>5 DEF Top
<1>11. Core(fleet, conn', update, faults, log)
  BY <1>4, <1>7, <1>9, <1>10, OneFollows
<1>. QED
  BY <1>1, <1>2, <1>11 DEF IInv, Shapes

LEMMA FaultShapes ==
  ASSUME IInv, Fault
  PROVE  /\ faults' = faults + 1 /\ faults' \in Nat /\ faults' <= MaxFaults
         /\ faults' \in 0..MaxFaults /\ MaxFaults \in Nat
         /\ FleetInv(fleet, conn, update, faults', {})
<1>1. /\ faults' = faults + 1 /\ faults' \in 0..MaxFaults /\ MaxFaults \in Nat
  BY Bounds DEF IInv, Shapes, Fault
<1>2. FleetInv(fleet, conn, update, faults + 1, {})
  BY CoreTypes, MoreFaults DEF IInv, Core
<1>. QED
  BY <1>1, <1>2, CoreTypes

LEMMA FaultCore ==
  ASSUME NEW f, NEW cs, NEW u, NEW n \in Nat, NEW lg, Core(f, cs, u, n, lg)
  PROVE  Core(f, cs, u, n + 1, lg)
  BY MoreFaults DEF Core

\* A step of the host that changes connections only.
LEMMA AllFollow ==
  ASSUME IInv,
         \A c \in Conns : /\ conn'[c] \in ConnRecords
                          /\ Follows(conn[c], log[To(c)], conn'[c], log[To(c)])
                          /\ Alive(conn', c) <=> Alive(conn, c),
         conn' = [c \in Conns |-> conn'[c]]
  PROVE  Core(fleet, conn', update, faults, log)
<1>1. conn' \in [Conns -> ConnRecords]
  OBVIOUS
<1>2. \A w \in Workspaces : log[w] <= log[w]
  BY CoreTypes
<1>. QED
  BY <1>1, <1>2, CoreTypes, HostStep DEF IInv

LEMMA CutIs ==
  ASSUME NEW k \in ConnRecords
  PROVE  LET d == [k EXCEPT !.at = "cut", !.inbox = <<>>, !.asked = {}]
         IN  /\ d \in ConnRecords /\ d.at = "cut" /\ d.inbox = <<>>
             /\ d.asked = {}
<1>1. <<>> \in Seq(Messages) /\ {} \in SUBSET Asks
  OBVIOUS
<1>. QED
  BY <1>1 DEF ConnRecords

LEMMA CutStep ==
  ASSUME IInv, NEW c \in Conns, Open(c), NEW d, d = Cut(conn, c)[c]
  PROVE  /\ d \in ConnRecords
         /\ Follows(conn[c], log[To(c)], d, log[To(c)]) /\ d.at = "cut"
         /\ Cut(conn, c) = [conn EXCEPT ![c] = d]
<1>1. conn[c] \in ConnRecords /\ Sound(conn[c], log[To(c)])
      /\ log[To(c)] \in Nat
  BY Stays, CoreTypes
<1>2. d = [conn[c] EXCEPT !.at = "cut", !.inbox = <<>>, !.asked = {}]
      /\ Cut(conn, c) = [conn EXCEPT ![c] = d]
  BY CoreTypes DEF Cut
<1>3. d \in ConnRecords /\ d.at = "cut" /\ d.inbox = <<>> /\ d.asked = {}
  BY <1>1, <1>2, CutIs, Zenon
<1>. QED
  BY <1>1, <1>2, <1>3, CutFollows

LEMMA DropsInv ==
  ASSUME IInv, NEW c \in Conns, Drops(c)
  PROVE  IInv'
<1>1. /\ Open(c) /\ conn' = Cut(conn, c) /\ log' = log /\ loaded' = loaded
      /\ host' = host /\ fleet' = fleet /\ update' = update
      /\ faults' = faults + 1 /\ faults' \in 0..MaxFaults /\ faults \in Nat
  BY FaultShapes, CoreTypes DEF Drops
<1>2. Core(fleet, conn', update, faults, log)
  BY <1>1, CutStep, OneFollows DEF Open
<1>3. Core(fleet, conn', update, faults + 1, log)
  BY <1>1, <1>2, FaultCore
<1>. QED
  BY <1>1, <1>3 DEF IInv, Shapes

LEMMA DiesInv ==
  ASSUME IInv, Dies
  PROVE  IInv'
<1>1. /\ log' = log /\ loaded' = {} /\ host' = "down"
      /\ fleet' = fleet /\ update' = update
      /\ faults' = faults + 1 /\ faults' \in 0..MaxFaults /\ faults \in Nat
      /\ conn' = [c \in Conns |-> IF Open(c) THEN Cut(conn, c)[c] ELSE conn[c]]
  BY FaultShapes, CoreTypes DEF Dies
<1>2. ASSUME NEW c \in Conns
      PROVE  /\ conn'[c] \in ConnRecords
             /\ Follows(conn[c], log[To(c)], conn'[c], log[To(c)])
             /\ Alive(conn', c) <=> Alive(conn, c)
  <2>1. CASE Open(c)
    <3>1. conn'[c] = Cut(conn, c)[c]
      BY <1>1, <2>1
    <3>2. conn[c].at = "open"
      BY <2>1 DEF Open
    <3>. QED
      BY <2>1, <3>1, <3>2, CutStep DEF Alive
  <2>2. CASE ~Open(c)
    <3>1. conn'[c] = conn[c]
      BY <1>1, <2>2
    <3>. QED
      BY <3>1, Stays, CoreTypes DEF Alive
  <2>. QED
    BY <2>1, <2>2
<1>3. conn' = [c \in Conns |-> conn'[c]]
  BY <1>1
<1>4. Core(fleet, conn', update, faults + 1, log)
  BY <1>1, <1>2, <1>3, AllFollow, FaultCore
<1>. QED
  BY <1>1, <1>4 DEF IInv, Shapes

LEMMA LeavesInv ==
  ASSUME IInv, Leaves
  PROVE  IInv'
<1>. DEFINE m == [t |-> "closing"]
            LastOf(k) == [k EXCEPT !.at = "cut", !.asked = {},
                                 !.inbox = Append(@, m)]
<1>1. /\ log' = log /\ loaded' = {} /\ host' = "down"
      /\ fleet' = fleet /\ update' = update /\ faults' = faults
      /\ conn' = [c \in Conns |-> IF Open(c) THEN LastOf(conn[c]) ELSE conn[c]]
  BY Zenon DEF Leaves
<1>2. m \in Messages /\ m.t = "closing"
  BY DEF Messages
<1>3. ASSUME NEW c \in Conns
      PROVE  /\ conn'[c] \in ConnRecords
             /\ Follows(conn[c], log[To(c)], conn'[c], log[To(c)])
             /\ Alive(conn', c) <=> Alive(conn, c)
  <2>0. conn[c] \in ConnRecords /\ Sound(conn[c], log[To(c)])
        /\ log[To(c)] \in Nat
    BY Stays, CoreTypes
  <2>1. CASE Open(c)
    <3>. DEFINE d == LastOf(conn[c])
    <3>1. Append(conn[c].inbox, m) \in Seq(Messages) /\ {} \in SUBSET Asks
      BY <1>2, <2>0, ConnTypes
    <3>2. /\ d \in ConnRecords /\ d.at = "cut" /\ d.asked = {}
          /\ d.inbox = Append(conn[c].inbox, m)
      BY <2>0, <3>1 DEF ConnRecords
    <3>3. conn'[c] = d /\ conn[c].at = "open"
      BY <1>1, <2>1, Zenon DEF Open
    <3>. HIDE DEF d, m
    <3>4. Follows(conn[c], log[To(c)], d, Top(m, log[To(c)]))
      BY <1>2, <2>0, <3>2, <3>3, SentFollows DEF Answers
    <3>5. Top(m, log[To(c)]) = log[To(c)]
      BY <1>2 DEF Top
    <3>. QED
      BY <3>2, <3>3, <3>4, <3>5 DEF Alive
  <2>2. CASE ~Open(c)
    <3>1. conn'[c] = conn[c]
      BY <1>1, <2>2, Zenon
    <3>. QED
      BY <3>1, Stays, CoreTypes DEF Alive
  <2>. QED
    BY <2>1, <2>2
<1>4. conn' = [c \in Conns |-> conn'[c]]
  BY <1>1, Zenon
<1>. HIDE DEF m, LastOf
<1>5. Core(fleet, conn', update, faults, log)
  BY <1>3, <1>4, AllFollow
<1>. QED
  BY <1>1, <1>5 DEF IInv, Shapes

LEMMA SmallHostInv ==
  ASSUME IInv, AgreesToLeave \/ \E w \in Workspaces : Resumes(w)
  PROVE  IInv'
<1>1. CASE AgreesToLeave
  <2>1. /\ log' = log /\ loaded' = loaded /\ host' = "leaving" /\ conn' = conn
        /\ fleet' = fleet /\ update' = update
        /\ faults' = faults + 1 /\ faults' \in 0..MaxFaults /\ faults \in Nat
    BY <1>1, FaultShapes, CoreTypes DEF AgreesToLeave
  <2>2. Core(fleet, conn, update, faults + 1, log)
    BY <2>1, FaultCore DEF IInv
  <2>. QED
    BY <2>1, <2>2 DEF IInv, Shapes
<1>2. CASE \E w \in Workspaces : Resumes(w)
  <2>1. PICK w \in Workspaces : Resumes(w)
    BY <1>2
  <2>. QED
    BY <2>1 DEF Resumes, IInv, Shapes
<1>. QED
  BY <1>1, <1>2

LEMMA ReadsInv ==
  ASSUME IInv, NEW c \in Conns, Reads(c)
  PROVE  IInv'
<1>. DEFINE k == conn[c]
            top == log[To(c)]
            Found(m) == IF To(c) \in loaded
                        THEN [t |-> "found", from |-> m.from, upto |-> top]
                        ELSE [t |-> "unknown"]
<1>1. PICK m \in k.asked :
        /\ m.t = "read"
        /\ conn' = [conn EXCEPT ![c].asked = (@ \ {m}) \cup {Found(m)}]
  BY DEF Reads
<1>2. /\ Open(c) /\ log' = log /\ loaded' = loaded /\ host' = host
      /\ fleet' = fleet /\ update' = update /\ faults' = faults
  BY DEF Reads
<1>. DEFINE x == Found(m)
            d == [k EXCEPT !.asked = (@ \ {m}) \cup {x}]
<1>3. k \in ConnRecords /\ Sound(k, top) /\ top \in Nat
  BY Stays, CoreTypes
<1>4. conn' = [conn EXCEPT ![c] = d]
  BY <1>1, CoreTypes
<1>5. /\ x \in Asks /\ x.t \in {"found", "unknown"}
      /\ x.t = "found" => x.upto = top /\ x.from = m.from
  <2>1. m.from \in Nat
    BY <1>1, <1>3, ConnTypes, AskTypes
  <2>2. CASE To(c) \in loaded
    BY <1>3, <2>1, <2>2 DEF Asks
  <2>3. CASE To(c) \notin loaded
    BY <2>3 DEF Asks
  <2>. QED
    BY <2>2, <2>3
<1>. HIDE DEF x, Found
<1>6. d \in ConnRecords /\ d.at = k.at /\ d.inbox = k.inbox
      /\ d.asked = (k.asked \ {m}) \cup {x} /\ k.at = "open"
  BY <1>2, <1>3, <1>5 DEF ConnRecords, Open
<1>. HIDE DEF d, k
<1>7. Tidy(k)
  BY <1>3 DEF Sound
<1>8. Asked(k) = {m} /\ Asked(d) = {x}
  <2>1. m \in Asked(k)
    BY <1>1 DEF Asked, Answers
  <2>2. Asked(k) = {m}
    BY <1>7, <2>1 DEF Tidy
  <2>3. \A y : y \in Asked(d) <=> (y \in Asked(k) /\ y # m) \/ y = x
    BY <1>5, <1>6 DEF Asked, Answers
  <2>. QED
    BY <2>2, <2>3
<1>9. /\ Answered(d) = Answered(k) /\ Stoppings(d) = Stoppings(k)
      /\ Welcomes(d) = Welcomes(k)
  BY <1>6 DEF Answered, Stoppings, Welcomes
<1>10. Shutdowns(d) = Shutdowns(k)
  BY <1>1, <1>5, <1>6 DEF Shutdowns
<1>11. Tidy(d)
  BY <1>6, <1>7, <1>8, <1>9, <1>10 DEF Tidy
<1>12. NothingNew(k, d)
  BY <1>8, <1>9, <1>10 DEF NothingNew, Restarting
<1>13. Sound(d, top)
  BY <1>3, <1>5, <1>6, <1>11 DEF Sound
<1>14. \A n : IsNext(d, top, n) => IsNext(k, top, n)
  BY <1>6 DEF IsNext
<1>15. \A y : IsReading(d, y) => IsReading(k, y) \/ ReadNow(k, top, y)
  <2>1. IsReading(k, m)
    BY <1>1 DEF IsReading
  <2>. QED
    BY <1>5, <1>6, <2>1 DEF IsReading, ReadNow
<1>16. Core(fleet, conn', update, faults, log)
  BY <1>4, <1>6, <1>12, <1>13, <1>14, <1>15, OneFollows DEF Follows, k
<1>. QED
  BY <1>2, <1>16 DEF IInv, Shapes

----------------------------------------------------------------------------
(* Steps of the client that hear nothing                                   *)

LEMMA OffIs ==
  NoUpdate.pc = "off" /\ NoUpdate \in Updates
  BY DEF NoUpdate, Updates

LEMMA UpdateTypes ==
  ASSUME NEW u \in Updates
  PROVE  /\ u.pc \in {"off", "asking", "redialling"}
         /\ u.pc # "off" => u.entry \in Entry /\ u.peers \in SUBSET Entry
                            /\ u.conn \in Conns
  BY DEF Updates, NoUpdate

LEMMA HeldBounded ==
  ASSUME NEW f, NEW cs, NEW lg \in [Workspaces -> Nat], Data(f, cs, lg),
         NEW l \in Loop
  PROVE  Bounded(f.loop[l].held)
<1>1. f.loop[l].held \subseteq 1..lg[Of(l[1])] /\ lg[Of(l[1])] \in Nat
  BY LoopParts, EntryParts DEF Data, Logged
<1>2. \A x \in f.loop[l].held : x \in Nat /\ x <= lg[Of(l[1])]
  BY <1>1
<1>. QED
  BY <1>1, <1>2 DEF Bounded

LEMMA ClientKeeps ==
  ASSUME NEW f, NEW cs, NEW u, NEW n, NEW lg, Core(f, cs, u, n, lg),
         NEW g, NEW v, NEW m, Kept(f, g), FleetInv(g, cs, v, m, {}),
         v \in Updates, u.pc = "asking" => v.pc = "asking" /\ v.conn = u.conn
  PROVE  Core(g, cs, v, m, lg)
<1>1. HostAsked(cs, v)
  BY DEF Core, Wires, HostAsked
<1>. QED
  BY <1>1, KeptData DEF Core, Wires

LEMMA ClosingCore ==
  ASSUME IInv, NEW n \in Nat, n <= MaxFaults,
         FleetInv(fleet, conn, update, n, {}),
         NEW c \in Conns, NEW detached \in BOOLEAN, Closing(c, detached)
  PROVE  Core(fleet', conn', update', n, log)
<1>1. FleetInv(fleet', conn', update', n, {}) /\ Closes(fleet, c, fleet')
  BY ClosingInv, CoreTypes, HeldBounded DEF IInv, Core
<1>2. conn' = [conn EXCEPT ![c] = Unused]
  BY DEF Closing
<1>3. conn' = [x \in Conns |-> IF x \in {c} THEN Unused ELSE conn[x]]
  BY <1>2, CoreTypes
<1>4. AreClosed(conn, {c}, conn')
  BY <1>3 DEF AreClosed
<1>5. Data(fleet', conn', log)
  BY <1>1, <1>4, CoreTypes, InvHands, ClosesData DEF IInv, Core
<1>6. update' = IF \/ update.pc = "asking" /\ update.conn = c
                   \/ \E l \in Loop : /\ fleet.loop[l].conn = c
                                      /\ fleet.loop[l].window
                                      /\ fleet.loop[l].pc # "hello"
                THEN NoUpdate ELSE update
  BY DEF Closing
<1>7. \A l \in Loop : fleet.loop[l].window => update.pc = "redialling"
  BY DEF FleetInv, Updated
<1>8. /\ update' \in Updates
      /\ update.pc = "asking" /\ update.conn \notin {c} =>
           update'.pc = "asking" /\ update'.conn = update.conn
  BY <1>6, <1>7, CoreTypes, OffIs
<1>9. Wires(conn', update', log)
  BY <1>3, <1>8, ClosedWires DEF IInv, Core
<1>. QED
  BY <1>1, <1>5, <1>8, <1>9 DEF Core

LEMMA ClosedInv ==
  ASSUME IInv, NEW c \in Conns, Closed(c)
  PROVE  IInv'
<1>1. /\ log' = log /\ loaded' = loaded /\ host' = host /\ faults' = faults
      /\ Closing(c, FALSE) /\ FALSE \in BOOLEAN
  BY DEF Closed
<1>2. faults \in Nat /\ faults <= MaxFaults
  BY Bounds DEF IInv, Shapes
<1>3. Core(fleet', conn', update', faults, log)
  BY <1>1, <1>2, ClosingCore DEF IInv, Core
<1>. QED
  BY <1>1, <1>3 DEF IInv, Shapes

LEMMA DetachInv ==
  ASSUME IInv, NEW w \in Workspaces, Detach(w)
  PROVE  IInv'
<1>. DEFINE c == fleet.entry[fleet.listed[w]].conn
<1>1. /\ log' = log /\ loaded' = loaded /\ host' = host
      /\ faults' = faults + 1 /\ faults' \in Nat /\ faults' <= MaxFaults
      /\ faults' \in 0..MaxFaults
      /\ FleetInv(fleet, conn, update, faults', {})
      /\ fleet.listed[w] # None
      /\ IF c = None
         THEN fleet' = Forget(fleet, w) /\ UNCHANGED <<conn, update>>
         ELSE Closing(c, TRUE)
  BY FaultShapes DEF Detach
<1>2. fleet.listed[w] \in Entry
  BY <1>1, CoreTypes, FleetParts
<1>3. Core(fleet', conn', update', faults', log)
  <2>1. CASE c = None
    <3>1. /\ fleet' = Forget(fleet, w) /\ conn' = conn /\ update' = update
      BY <1>1, <2>1
    <3>2. FleetInv(fleet', conn, update, faults', {})
      BY <1>1, <3>1, ForgetInv
    <3>3. Kept(fleet, fleet')
      BY <3>1, CoreTypes, ForgetKeeps
    <3>. QED
      BY <3>1, <3>2, <3>3, CoreTypes, ClientKeeps DEF IInv
  <2>2. CASE c # None
    <3>1. c \in Conns
      BY <1>1, <1>2, <2>2, OwnConn, CoreTypes DEF FleetInv
    <3>2. Closing(c, TRUE) /\ TRUE \in BOOLEAN
      BY <1>1, <2>2
    <3>. QED
      BY <1>1, <3>1, <3>2, ClosingCore
  <2>. QED
    BY <2>1, <2>2
<1>. QED
  BY <1>1, <1>3 DEF IInv, Shapes

\* A redial that has not been welcomed returns.
LEMMA EndedKeeps ==
  ASSUME NEW f \in Fleets, NEW cs, Owned(f, cs), NEW l \in Loop,
         f.loop[l].pc = "dial", NEW k, Ended(f, l, k)
  PROVE  Kept(f, k)
<1>1. LoopOwns(f, cs, l)
  BY DEF Owned
<1>2. f.loop[l].conn = None /\ f.loop[l].held = {}
  BY <1>1 DEF LoopOwns
<1>3. k.loop[l] = IdleLoop /\ \A m \in Loop : m # l => k.loop[m] = f.loop[m]
  BY FleetParts DEF Ended
<1>4. IdleLoop.conn = None /\ IdleLoop.held = {}
  BY DEF IdleLoop
<1>5. k.entry = f.entry /\ k.wired = f.wired
  BY DEF Ended
<1>6. ASSUME NEW m \in Loop
      PROVE  /\ k.loop[m].conn = f.loop[m].conn
             /\ f.loop[m].conn # None => /\ k.loop[m].pc = f.loop[m].pc
                                         /\ k.loop[m].window = f.loop[m].window
             /\ k.loop[m].held = f.loop[m].held
  BY <1>2, <1>3, <1>4
<1>. QED
  BY <1>5, <1>6 DEF Kept

LEMMA ReturnsCore ==
  ASSUME IInv, NEW n \in Nat, n <= MaxFaults, NEW l \in Loop, NEW f,
         FleetInv(f, conn, update, n, {}), Kept(fleet, f),
         fleet.loop[l].window = f.loop[l].window, f.loop[l].pc = "dial",
         Returns(l, f, TRUE)
  PROVE  Core(fleet', conn, update', n, log)
<1>1. f \in Fleets /\ Owned(f, conn)
  BY DEF FleetInv
<1>2. Ending(f, l, f)
  BY <1>1, EndingSame
<1>3. /\ fleet' = Return(f, l, TRUE)
      /\ update' = IF f.loop[l].window THEN NoUpdate ELSE update
      /\ TRUE \in BOOLEAN
  BY DEF Returns
<1>4. /\ FleetInv(fleet', conn, update', n, {})
      /\ \E k : Ended(f, l, k) /\ Kept(k, fleet')
  BY <1>2, <1>3, CoreTypes, ReturnInv
<1>5. Kept(fleet, fleet')
  BY <1>1, <1>4, EndedKeeps, KeptTrans
<1>6. f.loop[l].window => update.pc = "redialling"
  BY DEF FleetInv, Updated
<1>7. /\ update' \in Updates
      /\ update.pc = "asking" => /\ update'.pc = "asking"
                                 /\ update'.conn = update.conn
  BY <1>3, <1>6, CoreTypes, OffIs
<1>. QED
  BY <1>4, <1>5, <1>7, ClientKeeps DEF IInv

LEMMA StopsInv ==
  ASSUME IInv, NEW l \in Loop, Stops(l) \/ GivesUp(l)
  PROVE  IInv'
<1>1. /\ fleet.loop[l].pc = "dial" /\ Returns(l, fleet, TRUE)
      /\ log' = log /\ loaded' = loaded /\ host' = host /\ conn' = conn
      /\ faults' = faults
  BY DEF Stops, GivesUp
<1>2. faults \in Nat /\ faults <= MaxFaults
  BY Bounds DEF IInv, Shapes
<1>3. Core(fleet', conn, update', faults, log)
  BY <1>1, <1>2, KeptSame, ReturnsCore DEF IInv, Core
<1>. QED
  BY <1>1, <1>3 DEF IInv, Shapes

LEMMA FindsAnotherInv ==
  ASSUME IInv, NEW l \in Loop, FindsAnother(l)
  PROVE  IInv'
<1>. DEFINE w == Of(l[1])
            f == Forget(fleet, w)
<1>0. w \in Workspaces
  BY LoopParts, EntryParts
<1>1. /\ fleet.loop[l].pc = "dial" /\ Returns(l, f, TRUE)
      /\ log' = log /\ loaded' = loaded /\ host' = host /\ conn' = conn
      /\ faults' \in Nat /\ faults' <= MaxFaults /\ faults' \in 0..MaxFaults
      /\ FleetInv(fleet, conn, update, faults', {})
  BY FaultShapes DEF FindsAnother
<1>2. f = Forget(fleet, w)
  OBVIOUS
<1>. HIDE DEF f, w
<1>3. FleetInv(f, conn, update, faults', {}) /\ Kept(fleet, f)
  BY <1>0, <1>1, <1>2, CoreTypes, ForgetInv, ForgetKeeps
<1>4. f.loop[l].pc = "dial" /\ fleet.loop[l].window = f.loop[l].window
  <2>1. Forgotten(fleet, w, f)
    BY <1>0, <1>2, CoreTypes, ForgetDoes
  <2>. QED
    BY <1>1, <2>1 DEF Forgotten
<1>5. Core(fleet', conn, update', faults', log)
  BY <1>1, <1>3, <1>4, ReturnsCore
<1>. QED
  BY <1>1, <1>5 DEF IInv, Shapes

----------------------------------------------------------------------------
(* Connections are made                                                    *)

\* A connection on which nothing is under way but a welcome, maybe.
Blank(k) ==
  /\ k \in ConnRecords /\ k.at = "open" /\ k.asked = {}
  /\ \A i \in DOMAIN k.inbox : i = 1 /\ k.inbox[i].t = "welcome"

LEMMA BlankSays ==
  ASSUME NEW k, Blank(k), NEW top \in Nat
  PROVE  /\ Sound(k, top) /\ Asked(k) = {} /\ Answered(k) = {}
         /\ ~Restarting(k) /\ \A m : ~IsReading(k, m)
<1>1. /\ Asked(k) = {} /\ Answered(k) = {} /\ Shutdowns(k) = {}
      /\ Stoppings(k) = {} /\ Welcomes(k) \subseteq {1}
  BY DEF Blank, Asked, Answered, Shutdowns, Stoppings, Welcomes, Answers
<1>2. Sound(k, top)
  BY <1>1 DEF Blank, Sound, Tidy, InStream, ToTheEnd
<1>. QED
  BY <1>1, <1>2 DEF Blank, Restarting, IsReading

LEMMA BlankAre ==
  /\ Blank([Unused EXCEPT !.at = "open"])
  /\ [Unused EXCEPT !.at = "open"].inbox = <<>>
  /\ Blank([Unused EXCEPT !.at = "open", !.inbox = <<[t |-> "welcome"]>>])
<1>. DEFINE k == [Unused EXCEPT !.at = "open"]
            m == [t |-> "welcome"]
            d == [Unused EXCEPT !.at = "open", !.inbox = <<m>>]
<1>1. m \in Messages /\ m.t = "welcome"
  BY DEF Messages
<1>. HIDE DEF m
<1>2. <<m>> \in Seq(Messages) /\ DOMAIN <<m>> = {1} /\ <<m>>[1] = m
  BY <1>1
<1>3. k \in ConnRecords /\ k.at = "open" /\ k.inbox = <<>> /\ k.asked = {}
  BY UnusedIs, UnusedSays DEF ConnRecords
<1>4. d \in ConnRecords /\ d.at = "open" /\ d.inbox = <<m>> /\ d.asked = {}
  BY <1>2, UnusedIs, UnusedSays DEF ConnRecords
<1>. HIDE DEF k, d
<1>5. Blank(k)
  BY <1>3 DEF Blank
<1>6. Blank(d)
  BY <1>1, <1>2, <1>4 DEF Blank
<1>. QED
  BY <1>3, <1>5, <1>6 DEF k, d, m

LEMMA BlankWires ==
  ASSUME NEW cs, NEW u, NEW lg \in [Workspaces -> Nat], Wires(cs, u, lg),
         NEW c \in Conns, NEW k, Blank(k), NEW ds, ds = [cs EXCEPT ![c] = k]
  PROVE  /\ Wires(ds, u, lg) /\ ds[c] = k /\ Joined(cs, c, ds)
         /\ \A x \in Conns : x # c => ds[x] = cs[x]
<1>0. cs \in [Conns -> ConnRecords] /\ k \in ConnRecords /\ k.at = "open"
      /\ \A x \in Conns : To(x) \in Workspaces
  BY ConnParts, EntryParts DEF Wires, Blank, To
<1>1. /\ ds \in [Conns -> ConnRecords] /\ ds[c] = k
      /\ \A x \in Conns : x # c => ds[x] = cs[x]
  BY <1>0
<1>2. HostAsked(ds, u)
  <2>1. ~Restarting(k)
    BY BlankSays
  <2>. QED
    BY <1>1, <2>1 DEF Wires, HostAsked
<1>3. Streamed(ds, lg)
  <2>1. Sound(k, lg[To(c)])
    BY <1>0, BlankSays
  <2>. QED
    BY <1>1, <2>1 DEF Wires, Streamed, Sound
<1>. QED
  BY <1>0, <1>1, <1>2, <1>3 DEF Wires, Alive, Joined

LEMMA AttachInv ==
  ASSUME IInv, NEW w \in Workspaces, Attach(w)
  PROVE  IInv'
<1>. DEFINE k == [Unused EXCEPT !.at = "open"]
            f == fleet
            g == fleet'
<1>1. /\ log' = log /\ loaded' = loaded /\ host' = "up" /\ update' = update
      /\ faults' = faults
  BY DEF Attach
<1>2. PICK e, c : /\ Attached(f, w, e, c, g)
                  /\ c \in Conns /\ c[1] = e /\ ~Alive(conn, c)
                  /\ conn' = [conn EXCEPT ![c] = k]
  BY CoreTypes, AttachDoes
<1>3. Blank(k)
  BY BlankAre
<1>. HIDE DEF k
<1>4. /\ Wires(conn', update, log) /\ conn'[c] = k
      /\ \A x \in Conns : x # c => conn'[x] = conn[x]
      /\ Joined(conn, c, conn')
  BY <1>2, <1>3, CoreTypes, BlankWires DEF IInv, Core
<1>5. FleetInv(f, conn, update, faults, {}) /\ update \in Updates
      /\ faults \in Nat /\ Data(f, conn, log) /\ f \in Fleets
      /\ Owned(f, conn)
  BY CoreTypes DEF IInv, Core, FleetInv
<1>6. /\ FleetInv(g, conn', update, faults, {})
      /\ ~Used(f, e) /\ Untouched(f, conn, e)
  BY <1>2, <1>4, <1>5, AttachedInv
<1>7. /\ g.loop = f.loop /\ e \in Entry /\ Of(e) = w
      /\ \A d \in Entry : d # e => g.entry[d] = f.entry[d]
      /\ g.entry[e].seen = f.entry[e].seen
      /\ g.entry[e].missed = f.entry[e].missed
      /\ \A x : x \in g.wired <=> x \in f.wired \/ x = c
  BY <1>2 DEF Attached
<1>8. Talk(g, conn')
  <2>1. Tidy(k) /\ Expected(g, k, c)
    <3>1. Sound(k, log[To(c)]) /\ Asked(k) = {} /\ Answered(k) = {}
      BY <1>2, <1>3, CoreTypes, BlankSays
    <3>2. k.inbox = <<>>
      BY BlankAre DEF k
    <3>3. Welcomes(k) = {}
      BY <3>2 DEF Welcomes
    <3>. QED
      BY <3>1, <3>3 DEF Sound, Expected
  <2>. QED
    BY <1>4, <1>5, <1>7, <2>1 DEF Data, Talk, Expected
<1>9. Logged(g, conn', log)
  <2>1. Sound(k, log[To(c)])
    BY <1>2, <1>3, CoreTypes, BlankSays
  <2>2. \A d \in Entry : g.entry[d].seen = f.entry[d].seen
    BY <1>7
  <2>. QED
    BY <1>4, <1>5, <1>7, <2>1, <2>2 DEF Data, Logged, Sound
<1>10. ASSUME NEW d \in Entry, ~g.entry[d].twice, ~g.entry[d].broken
       PROVE  Whole(g, conn', log, d)
  <2>1. CASE d = e
    <3>1. f.entry[e] = NewEntry /\ \A l \in Loop : l[1] = e => ~Reading(f, l)
      BY <1>6 DEF Untouched, Reading
    <3>2. g.entry[e].seen = 0 /\ ~g.entry[e].missed
      BY <1>7, <3>1 DEF NewEntry
    <3>. QED
      BY <1>7, <2>1, <3>1, <3>2 DEF Whole, Reading
  <2>2. CASE d # e
    <3>1. g.entry[d] = f.entry[d] /\ Whole(f, conn, log, d)
      BY <1>5, <1>7, <1>10, <2>2 DEF Data, Wholes
    <3>2. f.entry[d].conn # None =>
            /\ f.entry[d].conn \in Conns /\ f.entry[d].conn # c
      BY <1>2, <1>5, <2>2, OwnConn
    <3>3. ASSUME NEW l \in Loop, l[1] = d, g.loop[l].conn # None, Reading(g, l)
          PROVE  LoopWhole(g.entry[d], g.loop[l], conn'[g.loop[l].conn],
                           log[Of(d)], g.loop[l].conn \in g.wired)
      <4>1. f.loop[l].conn # None /\ Reading(f, l)
        BY <1>7, <3>3 DEF Reading
      <4>2. f.loop[l].conn \in Conns /\ f.loop[l].conn # c
        <5>1. f.loop[l].conn \in Conns /\ LoopOwns(f, conn, l)
          BY <1>5, <4>1, LoopTypes, FleetParts DEF Owned
        <5>. QED
          BY <1>2, <2>2, <3>3, <4>1, <5>1 DEF LoopOwns
      <4>3. LoopWhole(f.entry[d], f.loop[l], conn[f.loop[l].conn], log[Of(d)],
                      f.loop[l].conn \in f.wired)
        BY <3>1, <3>3, <4>1 DEF Whole
      <4>. QED
        BY <1>4, <1>7, <3>1, <4>2, <4>3
    <3>. QED
      BY <1>4, <1>7, <3>1, <3>2, <3>3 DEF Whole
  <2>. QED
    BY <2>1, <2>2
<1>11. Core(g, conn', update, faults, log)
  BY <1>4, <1>5, <1>6, <1>8, <1>9, <1>10 DEF Core, Data, Wholes
<1>. QED
  BY <1>1, <1>11 DEF IInv, Shapes

LEMMA DialsInv ==
  ASSUME IInv, NEW l \in Loop, Dials(l)
  PROVE  IInv'
<1>. DEFINE k == [Unused EXCEPT !.at = "open",
                                !.inbox = <<[t |-> "welcome"]>>]
            f == fleet
            g == fleet'
<1>1. /\ log' = log /\ loaded' = loaded /\ host' = "up" /\ update' = update
      /\ faults' = faults
  BY DEF Dials
<1>2. PICK c \in Conns :
        /\ Greeting(f, l, c, g) /\ c[1] = l[1] /\ ~Alive(conn, c)
        /\ conn' = [conn EXCEPT ![c] = k]
  BY CoreTypes, DialDoes
<1>3. Blank(k)
  BY BlankAre
<1>. HIDE DEF k
<1>4. /\ Wires(conn', update, log) /\ conn'[c] = k
      /\ \A x \in Conns : x # c => conn'[x] = conn[x]
      /\ Joined(conn, c, conn')
  BY <1>2, <1>3, CoreTypes, BlankWires DEF IInv, Core
<1>5. FleetInv(f, conn, update, faults, {}) /\ update \in Updates
      /\ faults \in Nat /\ Data(f, conn, log) /\ f \in Fleets
      /\ Owned(f, conn)
  BY CoreTypes DEF IInv, Core, FleetInv
<1>6. FleetInv(g, conn', update, faults, {})
  BY <1>2, <1>4, <1>5, GreetingInv
<1>7. /\ g.entry = f.entry /\ g.wired = f.wired
      /\ \A m \in Loop : m # l => g.loop[m] = f.loop[m]
      /\ f.loop[l].pc = "dial" /\ g.loop[l].pc = "hello" /\ g.loop[l].conn = c
      /\ g.loop[l].held = f.loop[l].held
  BY <1>2 DEF Greeting
<1>8. f.loop[l].conn = None
  BY <1>5, <1>7 DEF Owned, LoopOwns
<1>9. Talk(g, conn')
  <2>1. Tidy(k) /\ Expected(g, k, c)
    <3>1. Sound(k, log[To(c)]) /\ Asked(k) = {} /\ Answered(k) = {}
      BY <1>2, <1>3, CoreTypes, BlankSays
    <3>. QED
      BY <1>7, <3>1 DEF Sound, Expected
  <2>2. ASSUME NEW x \in Conns, x # c
        PROVE  Tidy(conn'[x]) /\ Expected(g, conn'[x], x)
    <3>1. \A m \in Loop : f.loop[m].conn = x => g.loop[m] = f.loop[m]
      BY <1>7, <1>8, ConnParts
    <3>. QED
      BY <1>4, <1>5, <2>2, <3>1 DEF Data, Talk, Expected
  <2>. QED
    BY <1>4, <2>1, <2>2 DEF Talk
<1>10. Logged(g, conn', log)
  <2>1. Sound(k, log[To(c)])
    BY <1>2, <1>3, CoreTypes, BlankSays
  <2>2. \A m \in Loop : g.loop[m].held = f.loop[m].held
    BY <1>7
  <2>. QED
    BY <1>4, <1>5, <1>7, <2>1, <2>2 DEF Data, Logged, Sound
<1>11. ASSUME NEW d \in Entry, ~g.entry[d].twice, ~g.entry[d].broken
       PROVE  Whole(g, conn', log, d)
  <2>1. Whole(f, conn, log, d)
    BY <1>5, <1>7, <1>11 DEF Data, Wholes
  <2>2. f.entry[d].conn # None =>
          /\ f.entry[d].conn \in Conns /\ f.entry[d].conn # c
    BY <1>2, <1>5, OwnConn
  <2>3. ASSUME NEW m \in Loop, m[1] = d, g.loop[m].conn # None, Reading(g, m)
        PROVE  LoopWhole(g.entry[d], g.loop[m], conn'[g.loop[m].conn],
                         log[Of(d)], g.loop[m].conn \in g.wired)
    <3>1. m # l /\ g.loop[m] = f.loop[m] /\ Reading(f, m)
      BY <1>7, <2>3 DEF Reading
    <3>2. f.loop[m].conn \in Conns /\ f.loop[m].conn # c
      <4>1. f.loop[m].conn \in Conns /\ LoopOwns(f, conn, m)
        BY <1>5, <2>3, <3>1, LoopTypes, FleetParts DEF Owned
      <4>. QED
        BY <1>2, <2>3, <3>1, <4>1 DEF LoopOwns
    <3>3. LoopWhole(f.entry[d], f.loop[m], conn[f.loop[m].conn], log[Of(d)],
                    f.loop[m].conn \in f.wired)
      BY <2>1, <2>3, <3>1 DEF Whole
    <3>. QED
      BY <1>4, <1>7, <3>1, <3>2, <3>3
  <2>. QED
    BY <1>4, <1>7, <2>1, <2>2, <2>3 DEF Whole
<1>12. Core(g, conn', update, faults, log)
  BY <1>4, <1>5, <1>6, <1>9, <1>10, <1>11 DEF Core, Data, Wholes
<1>. QED
  BY <1>1, <1>12 DEF IInv, Shapes

----------------------------------------------------------------------------
(* What is read from a connection                                          *)

\* From k to d the first j messages are taken away.
Removed(k, j, d) ==
  /\ j \in Nat \ {0} /\ j <= Len(k.inbox)
  /\ k.inbox \in Seq(Messages) /\ d.inbox \in Seq(Messages)
  /\ Len(k.inbox) \in Nat /\ Len(d.inbox) \in Nat
  /\ DOMAIN k.inbox = 1..Len(k.inbox) /\ DOMAIN d.inbox = 1..Len(d.inbox)
  /\ Len(d.inbox) = Len(k.inbox) - j
  /\ \A i \in 1..Len(d.inbox) : d.inbox[i] = k.inbox[i + j]

LEMMA RemovedIs ==
  ASSUME NEW k, k.inbox \in Seq(Messages), NEW j \in 1..Len(k.inbox), NEW d,
         d.inbox = SubSeq(k.inbox, j + 1, Len(k.inbox))
  PROVE  Removed(k, j, d)
<1>1. /\ Len(k.inbox) \in Nat /\ DOMAIN k.inbox = 1..Len(k.inbox)
      /\ j \in Nat \ {0} /\ j <= Len(k.inbox)
  OBVIOUS
<1>. DEFINE L == Len(k.inbox)
<1>. HIDE DEF L
<1>2. \A i \in (j + 1)..L : k.inbox[i] \in Messages
  BY <1>1 DEF L
<1>3. d.inbox \in Seq(Messages) /\ Len(d.inbox) = L - j
      /\ \A i \in 1..(L - j) : d.inbox[i] = k.inbox[i + j]
  <2>1. d.inbox = SubSeq(k.inbox, j + 1, L)
    BY DEF L
  <2>2. d.inbox \in Seq(Messages)
    BY <1>1, <2>1 DEF L
  <2>3. Len(d.inbox) = L - j
    BY <1>1, <2>1 DEF L
  <2>4. \A i \in 1..(L - j) : d.inbox[i] = k.inbox[i + j]
    BY <1>1, <2>1 DEF L
  <2>. QED
    BY <2>2, <2>3, <2>4
<1>. QED
  BY <1>1, <1>3 DEF Removed, L

LEMMA RemovedKinds ==
  ASSUME NEW k, NEW j, NEW d, Removed(k, j, d)
  PROVE  \A i \in DOMAIN d.inbox :
           /\ i + j \in DOMAIN k.inbox /\ i + j > 1 /\ i \in Nat /\ j \in Nat
           /\ d.inbox[i] = k.inbox[i + j]
  BY DEF Removed

\* What k becomes when something is read from it.
LEMMA RemovedSound ==
  ASSUME NEW k, NEW top \in Nat, Sound(k, top), NEW j, NEW d \in ConnRecords,
         Removed(k, j, d), d.at = k.at, k.at # "unused",
         d.at = "cut" => d.asked = {},
         \A m, o \in Asked(d) : m = o,
         Asked(d) # {} => Asked(k) # {} \/ Answered(k) = {},
         Shutdowns(d) \subseteq Shutdowns(k),
         \A m \in d.asked : m.t = "found" => m.upto <= top
  PROVE  /\ Sound(d, top) /\ Welcomes(d) = {}
         /\ Restarting(d) => Restarting(k)
         /\ Answered(d) # {} => Answered(k) # {}
         /\ Stoppings(d) # {} => Stoppings(k) # {}
<1>. DEFINE s == k.inbox
            t == d.inbox
<1>0. Tidy(k) /\ InStream(s, top) /\ (k.at = "open" => ToTheEnd(s, top))
  BY DEF Sound
<1>1. \A i \in DOMAIN t : /\ i + j \in DOMAIN s /\ i + j > 1
                          /\ i \in Nat /\ j \in Nat /\ t[i] = s[i + j]
  BY RemovedKinds
<1>2. /\ DOMAIN s = 1..Len(s) /\ DOMAIN t = 1..Len(t) /\ Len(s) \in Nat
      /\ Len(t) \in Nat /\ Len(t) = Len(s) - j /\ j \in Nat \ {0}
  BY DEF Removed
<1>3. Welcomes(d) = {}
  BY <1>0, <1>1 DEF Tidy, Welcomes
<1>4. \A i \in Answered(d) : i + j \in Answered(k)
  BY <1>1 DEF Answered
<1>5. \A i \in Stoppings(d) : i + j \in Stoppings(k)
  BY <1>1 DEF Stoppings
<1>6. Tidy(d)
  <2>1. \A x, y \in Answered(d) : x = y
    <3>. SUFFICES ASSUME NEW x \in Answered(d), NEW y \in Answered(d)
                  PROVE  x = y
      OBVIOUS
    <3>1. x + j = y + j
      BY <1>0, <1>4 DEF Tidy
    <3>2. x \in Nat /\ y \in Nat /\ j \in Nat
      BY <1>1, <1>2 DEF Answered
    <3>. QED
      BY <3>1, <3>2
  <2>2. \A x, y \in Stoppings(d) : x = y
    <3>. SUFFICES ASSUME NEW x \in Stoppings(d), NEW y \in Stoppings(d)
                  PROVE  x = y
      OBVIOUS
    <3>1. x + j = y + j
      BY <1>0, <1>5 DEF Tidy
    <3>2. x \in Nat /\ y \in Nat /\ j \in Nat
      BY <1>1, <1>2 DEF Stoppings
    <3>. QED
      BY <3>1, <3>2
  <2>3. Asked(d) = {} \/ Answered(d) = {}
    BY <1>0, <1>4 DEF Tidy
  <2>4. Shutdowns(d) = {} \/ Stoppings(d) = {}
    BY <1>0, <1>5 DEF Tidy
  <2>. QED
    BY <1>3, <2>1, <2>2, <2>3, <2>4 DEF Tidy
<1>7. InStream(t, top)
  <2>1. \A i \in DOMAIN t : t[i].t = "event" => t[i].n \in 1..top
    BY <1>0, <1>1 DEF InStream
  <2>2. ASSUME NEW i \in DOMAIN t, NEW x \in DOMAIN t, i < x,
               t[i].t = "event", t[x].t = "event"
        PROVE  /\ t[i].n < t[x].n
               /\ \E y \in (i + 1)..x : IsEvent(t, y, t[i].n + 1)
    <3>1. i + j < x + j /\ i + j \in DOMAIN s /\ x + j \in DOMAIN s
          /\ t[i] = s[i + j] /\ t[x] = s[x + j]
      BY <1>1, <2>2
    <3>2. /\ s[i + j].n < s[x + j].n
          /\ \E y \in (i + j + 1)..(x + j) : IsEvent(s, y, s[i + j].n + 1)
      BY <1>0, <2>2, <3>1 DEF InStream
    <3>3. PICK y \in (i + j + 1)..(x + j) : IsEvent(s, y, s[i + j].n + 1)
      BY <3>2
    <3>4. y - j \in (i + 1)..x /\ y - j \in DOMAIN t /\ (y - j) + j = y
      <4>1. i \in 1..Len(t) /\ x \in 1..Len(t) /\ i \in Nat /\ x \in Nat
            /\ Len(t) \in Nat /\ j \in Nat
        BY <1>2, <2>2
      <4>. HIDE DEF t
      <4>2. y - j \in (i + 1)..x /\ y - j \in 1..Len(t) /\ (y - j) + j = y
        BY <3>3, <4>1
      <4>. QED
        BY <1>2, <4>2
    <3>5. IsEvent(t, y - j, t[i].n + 1)
      BY <1>1, <3>1, <3>3, <3>4 DEF IsEvent
    <3>. QED
      BY <3>1, <3>2, <3>4, <3>5
  <2>. QED
    BY <2>1, <2>2 DEF InStream
<1>8. ASSUME k.at = "open" PROVE ToTheEnd(t, top)
  <2>. SUFFICES ASSUME NEW i \in DOMAIN t, t[i].t = "event", t[i].n # top
                PROVE  \E y \in (i + 1)..Len(t) : IsEvent(t, y, t[i].n + 1)
    BY DEF ToTheEnd
  <2>1. i + j \in DOMAIN s /\ t[i] = s[i + j]
    BY <1>1
  <2>2. PICK y \in (i + j + 1)..Len(s) : IsEvent(s, y, s[i + j].n + 1)
    BY <1>0, <1>8, <2>1 DEF ToTheEnd
  <2>3. y - j \in (i + 1)..Len(t) /\ y - j \in DOMAIN t /\ (y - j) + j = y
    BY <1>1, <1>2, <2>2
  <2>4. IsEvent(t, y - j, t[i].n + 1)
    BY <1>1, <2>1, <2>2, <2>3 DEF IsEvent
  <2>. QED
    BY <2>3, <2>4
<1>9. \A i \in DOMAIN t : t[i].t = "found" => t[i].upto <= top
  BY <1>1 DEF Sound
<1>10. Sound(d, top)
  BY <1>6, <1>7, <1>8, <1>9 DEF Sound
<1>11. Restarting(d) => Restarting(k)
  BY <1>5 DEF Restarting
<1>. QED
  BY <1>3, <1>4, <1>5, <1>10, <1>11

LEMMA AdoptsInv ==
  ASSUME IInv, NEW l \in Loop, Adopts(l)
  PROVE  IInv'
<1>. DEFINE f == fleet
            g == fleet'
            e == l[1]
            c == f.loop[l].conn
            mark == f.entry[e].seen
            k == conn[c]
            d == conn'[c]
            top == log[To(c)]
            ask == [t |-> "read", from |-> mark]
<1>1. /\ log' = log /\ loaded' = loaded /\ host' = host /\ update' = update
      /\ faults' = faults /\ f.loop[l].pc = "hello"
  BY DEF Adopts
<1>2. FleetInv(f, conn, update, faults, {}) /\ update \in Updates
      /\ faults \in Nat /\ Data(f, conn, log) /\ f \in Fleets
      /\ Owned(f, conn) /\ Wires(conn, update, log)
  BY CoreTypes DEF IInv, Core, FleetInv
<1>3. c \in Conns /\ c # None /\ LoopOwns(f, conn, l) /\ e \in Entry
  <2>1. LoopOwns(f, conn, l)
    BY <1>2 DEF Owned
  <2>2. c # None
    BY <1>1, <2>1 DEF LoopOwns
  <2>. QED
    BY <1>2, <2>1, <2>2, FleetParts, LoopTypes, LoopParts
<1>4. Adopted(f, l, c, g)
  BY <1>2, <1>3, AdoptDoes
<1>5. /\ FleetInv(g, conn, update, faults, {})
      /\ c \notin f.wired /\ c[1] = e
      /\ ~f.entry[e].twice =>
           /\ \A m \in Loop : m[1] = e => ~Reading(f, m)
           /\ \A x \in f.wired : x[1] # e
  BY <1>2, <1>4, AdoptedInv
<1>6. /\ k \in ConnRecords /\ Sound(k, top) /\ top \in Nat /\ mark \in Nat
      /\ k.at # "unused" /\ f.loop[l].held = {}
  <2>1. mark \in Nat
    BY <1>2, <1>3, FleetParts, EntryTypes
  <2>. QED
    BY <1>1, <1>3, <2>1, Stays, CoreTypes DEF LoopOwns, Alive
<1>7. PICK j \in 1..Len(k.inbox) :
        conn' = [conn EXCEPT
                   ![c].inbox = SubSeq(@, j + 1, Len(@)),
                   ![c].asked = IF mark = 0 \/ ~Open(c) THEN @
                                ELSE @ \cup {ask}]
  BY Zenon DEF Adopts
<1>8. ask \in Asks /\ ask.t = "read" /\ ask.from = mark
  BY <1>6 DEF Asks
<1>. HIDE DEF ask
<1>9. /\ d.at = k.at /\ d.inbox = SubSeq(k.inbox, j + 1, Len(k.inbox))
      /\ d.asked = IF mark = 0 \/ ~Open(c) THEN k.asked
                   ELSE k.asked \cup {ask}
      /\ d \in ConnRecords
      /\ \A x \in Conns : x # c => conn'[x] = conn[x]
      /\ conn' \in [Conns -> ConnRecords]
  <2>. DEFINE in == SubSeq(k.inbox, j + 1, Len(k.inbox))
              as == IF mark = 0 \/ ~Open(c) THEN k.asked
                    ELSE k.asked \cup {ask}
              v == [k EXCEPT !.inbox = in, !.asked = as]
  <2>1. conn' = [conn EXCEPT ![c] = v]
    BY <1>3, <1>7, CoreTypes, Zenon
  <2>2. in \in Seq(Messages)
    BY <1>6, ConnTypes
  <2>3. as \in SUBSET Asks
    BY <1>6, <1>8, ConnTypes
  <2>4. as = IF mark = 0 \/ ~Open(c) THEN k.asked ELSE k.asked \cup {ask}
    OBVIOUS
  <2>5. in = SubSeq(k.inbox, j + 1, Len(k.inbox))
    OBVIOUS
  <2>. HIDE DEF in, as
  <2>6. v \in ConnRecords /\ v.at = k.at /\ v.inbox = in /\ v.asked = as
    BY <1>6, <2>2, <2>3 DEF ConnRecords
  <2>. HIDE DEF v
  <2>7. d = v /\ (\A x \in Conns : x # c => conn'[x] = conn[x])
        /\ conn' \in [Conns -> ConnRecords]
    BY <1>3, <2>1, <2>6, CoreTypes
  <2>. QED
    BY <2>4, <2>5, <2>6, <2>7, Zenon
<1>10. Removed(k, j, d)
  BY <1>6, <1>9, ConnTypes, RemovedIs, Zenon
<1>. HIDE DEF d, k
<1>11. Asked(k) = {} /\ Answered(k) = {}
  <2>1. \A m \in Loop : f.loop[m].conn = c => f.loop[m].pc = "hello"
    BY <1>1, <1>2, <1>3 DEF Owned
  <2>2. Expected(f, k, c)
    BY <1>2, <1>3 DEF Data, Talk, k
  <2>. QED
    BY <2>1, <2>2 DEF Expected
<1>12. /\ Asked(d) \subseteq {ask} /\ (mark = 0 => Asked(d) = {})
       /\ Shutdowns(d) = Shutdowns(k)
  BY <1>8, <1>9, <1>11 DEF Asked, Shutdowns, Answers
<1>13. d.at = "cut" => d.asked = {}
  BY <1>6, <1>9, Zenon DEF Sound, Tidy, Open, k
<1>14. \A m \in d.asked : m.t = "found" => m.upto <= top
  BY <1>6, <1>8, <1>9 DEF Sound
<1>15. /\ Sound(d, top) /\ Welcomes(d) = {}
       /\ Restarting(d) => Restarting(k)
       /\ Answered(d) # {} => Answered(k) # {}
  <2>1. /\ \A m, o \in Asked(d) : m = o
        /\ Asked(d) # {} => Asked(k) # {} \/ Answered(k) = {}
        /\ Shutdowns(d) \subseteq Shutdowns(k)
        /\ d.at = k.at /\ d \in ConnRecords
    BY <1>9, <1>11, <1>12
  <2>. QED
    BY <1>6, <1>10, <1>13, <1>14, <2>1, RemovedSound
<1>16. \A m : IsReading(d, m) => m = ask /\ mark # 0
  <2>1. Answered(d) = {}
    BY <1>11, <1>15
  <2>2. \A m : IsReading(d, m) => m \in Asked(d)
    BY <2>1 DEF IsReading, Answered, Asked, Answers
  <2>. QED
    BY <1>12, <2>2
<1>17. /\ \A m \in Loop : m # l => g.loop[m] = f.loop[m]
       /\ g.loop[l].pc = IF mark = 0 THEN "finish" ELSE "catchUp"
       /\ g.loop[l].conn = c /\ g.loop[l].held = {}
       /\ \A x \in Entry : x # e => g.entry[x] = f.entry[x]
       /\ g.entry[e].seen = mark /\ g.entry[e].missed = f.entry[e].missed
       /\ g.entry[e].broken = f.entry[e].broken
       /\ g.entry[e].twice = f.entry[e].twice
       /\ g.entry[e].holding = l /\ l # None
       /\ \A x : x \in g.wired <=> x \in f.wired \/ x = c
  BY <1>4, <1>6, LoopParts DEF Adopted
<1>18. Talk(g, conn')
  <2>1. Tidy(d) /\ Expected(g, d, c)
    BY <1>11, <1>12, <1>15, <1>17 DEF Sound, Expected
  <2>2. ASSUME NEW x \in Conns, x # c
        PROVE  Tidy(conn'[x]) /\ Expected(g, conn'[x], x)
    <3>1. \A m \in Loop : f.loop[m].conn = x => g.loop[m] = f.loop[m]
      BY <1>17, <2>2
    <3>2. conn'[x] = conn[x]
      BY <1>9, <2>2
    <3>3. Tidy(conn[x]) /\ Expected(f, conn[x], x)
      BY <1>2 DEF Data, Talk
    <3>. HIDE DEF g
    <3>. QED
      BY <3>1, <3>2, <3>3 DEF Expected
  <2>. QED
    BY <2>1, <2>2 DEF Talk, d
<1>19. Logged(g, conn', log)
  <2>1. \A x \in Entry : g.entry[x].seen = f.entry[x].seen
    BY <1>17
  <2>2. \A m \in Loop : g.loop[m].held = f.loop[m].held
    BY <1>6, <1>17, Zenon
  <2>. QED
    BY <1>2, <1>9, <1>15, <2>1, <2>2, Zenon DEF Data, Logged, Sound, d
<1>20. Wires(conn', update, log)
  <2>1. HostAsked(conn', update)
    BY <1>2, <1>3, <1>9, <1>15, Zenon DEF Wires, HostAsked, d, k
  <2>2. Streamed(conn', log)
    BY <1>2, <1>9, <1>15 DEF Wires, Streamed, Sound, d
  <2>. QED
    BY <1>9, <2>1, <2>2 DEF Wires
<1>21. FleetInv(g, conn', update, faults, {})
  <2>1. \A x \in Conns : Alive(conn', x) <=> Alive(conn, x)
    BY <1>3, <1>9 DEF Alive, d, k
  <2>. QED
    BY <1>2, <1>5, <2>1, SameAlive
<1>22. ASSUME NEW x \in Entry, ~g.entry[x].twice, ~g.entry[x].broken
       PROVE  Whole(g, conn', log, x)
  <2>1. Whole(f, conn, log, x)
    BY <1>2, <1>17, <1>22 DEF Data, Wholes
  <2>2. CASE x = e
    <3>1. ~g.entry[e].missed
      BY <1>17, <2>1, <2>2 DEF Whole
    <3>2. \A m \in Loop : m[1] = e /\ Reading(g, m) => m = l
      BY <1>5, <1>17, <1>22, <2>2 DEF Reading
    <3>3. LoopWhole(g.entry[e], g.loop[l], conn'[c], log[Of(e)], c \in g.wired)
      <4>1. Convex({})
        BY DEF Convex
      <4>2. \A n : Covers(g.entry[e], g.loop[l], d, n)
        BY <1>8, <1>16, <1>17 DEF Covers
      <4>3. g.loop[l].pc = "catchUp" => mark > 0
        BY <1>6, <1>17
      <4>. QED
        BY <1>8, <1>16, <1>17, <4>1, <4>2, <4>3 DEF LoopWhole, d
    <3>. QED
      BY <1>17, <2>2, <3>1, <3>2, <3>3 DEF Whole
  <2>3. CASE x # e
    <3>1. g.entry[x] = f.entry[x]
      BY <1>17, <2>3
    <3>2. f.entry[x].conn # None =>
            /\ f.entry[x].conn \in Conns /\ f.entry[x].conn # c
      BY <1>2, <1>5, <2>3, OwnConn
    <3>3. ASSUME NEW m \in Loop, m[1] = x, g.loop[m].conn # None, Reading(g, m)
          PROVE  LoopWhole(g.entry[x], g.loop[m], conn'[g.loop[m].conn],
                           log[Of(x)], g.loop[m].conn \in g.wired)
      <4>1. m # l /\ g.loop[m] = f.loop[m] /\ Reading(f, m)
        BY <1>17, <2>3, <3>3 DEF Reading
      <4>2. f.loop[m].conn \in Conns /\ f.loop[m].conn # c
        <5>1. f.loop[m].conn \in Conns /\ LoopOwns(f, conn, m)
          BY <1>2, <3>3, <4>1, LoopTypes, FleetParts DEF Owned
        <5>. QED
          BY <1>5, <2>3, <3>3, <4>1, <5>1 DEF LoopOwns
      <4>3. LoopWhole(f.entry[x], f.loop[m], conn[f.loop[m].conn], log[Of(x)],
                      f.loop[m].conn \in f.wired)
        BY <2>1, <3>3, <4>1 DEF Whole
      <4>. QED
        BY <1>9, <1>17, <3>1, <4>1, <4>2, <4>3
    <3>. QED
      BY <1>9, <1>17, <2>1, <3>1, <3>2, <3>3 DEF Whole
  <2>. QED
    BY <2>2, <2>3
<1>23. Core(g, conn', update, faults, log)
  BY <1>2, <1>18, <1>19, <1>20, <1>21, <1>22 DEF Core, Data, Wholes
<1>. QED
  BY <1>1, <1>23 DEF IInv, Shapes

\* A redial ends well: what it has held back is delivered.
LEMMA FinishedData ==
  ASSUME NEW f, NEW cs, NEW u, NEW n, FleetInv(f, cs, u, n, {}),
         NEW lg \in [Workspaces -> Nat], Data(f, cs, lg), Wires(cs, u, lg),
         NEW l \in Loop, f.loop[l].pc = "finish",
         NEW x, Ending(f, l, x),
         IsDelivery(f.entry[l[1]], f.loop[l].held, x.entry[l[1]]),
         x.entry[l[1]].broken = f.entry[l[1]].broken,
         NEW k, Ended(x, l, k)
  PROVE  Data(k, cs, lg)
<1>. DEFINE e == l[1]
            c == f.loop[l].conn
<1>1. f \in Fleets /\ Owned(f, cs) /\ e \in Entry /\ Reading(f, l)
      /\ c # None /\ c \in Conns /\ c[1] = e
  <2>1. f \in Fleets /\ Owned(f, cs) /\ e \in Entry /\ LoopOwns(f, cs, l)
        /\ c \in Conns \cup {None}
    BY LoopParts, FleetParts, LoopTypes DEF FleetInv, Owned
  <2>. QED
    BY <2>1 DEF LoopOwns, Reading
<1>2. /\ k.wired = f.wired /\ k.loop[l] = IdleLoop
      /\ \A m \in Loop : m # l => k.loop[m] = f.loop[m]
      /\ \A d \in Entry : d # e => k.entry[d] = f.entry[d]
      /\ k.entry[e] = x.entry[e] /\ k.entry[e].conn = f.entry[e].conn
      /\ k.entry[e].twice = f.entry[e].twice
      /\ f.entry[e].holding = l => k.entry[e].holding = None
  BY <1>1, FleetParts DEF Ending, Ended
<1>3. IdleLoop.held = {} /\ IdleLoop.conn = None /\ IdleLoop.pc = "off"
  BY DEF IdleLoop
<1>4. Talk(k, cs)
  <2>1. \A m \in Loop : f.loop[m].pc \in {"hello", "catchUp"} =>
          k.loop[m] = f.loop[m]
    BY <1>2
  <2>. QED
    BY <2>1 DEF Data, Talk, Expected
<1>5. Logged(k, cs, lg)
  <2>1. f.loop[l].held \subseteq 1..lg[Of(e)] /\ lg[Of(e)] \in Nat
        /\ f.entry[e].seen <= lg[Of(e)]
    BY <1>1, EntryParts DEF Data, Logged
  <2>2. k.entry[e].seen = f.entry[e].seen
          \/ k.entry[e].seen \in f.loop[l].held
    BY <1>2 DEF IsDelivery
  <2>3. k.entry[e].seen <= lg[Of(e)]
    BY <2>1, <2>2
  <2>4. \A d \in Entry : k.entry[d].seen <= lg[Of(d)]
    BY <1>2, <2>3 DEF Data, Logged
  <2>5. \A m \in Loop : k.loop[m].held \subseteq 1..lg[Of(m[1])]
    BY <1>2, <1>3 DEF Data, Logged
  <2>. QED
    BY <2>4, <2>5 DEF Data, Logged
<1>6. ASSUME NEW d \in Entry, ~k.entry[d].twice, ~k.entry[d].broken
      PROVE  Whole(k, cs, lg, d)
  <2>1. Whole(f, cs, lg, d)
    BY <1>2, <1>6 DEF Data, Wholes
  <2>2. CASE d = e
    <3>1. f.entry[e].conn = c /\ f.entry[e].holding = l
          /\ \A m \in Loop : m[1] = e /\ Reading(f, m) => m = l
      BY <1>1, <1>2, <1>6, <2>2 DEF FleetInv, Singles, Single
    <3>2. LoopWhole(f.entry[e], f.loop[l], cs[c], lg[Of(e)], c \in f.wired)
      BY <1>1, <2>1, <2>2 DEF Whole
    <3>3. /\ Convex(f.loop[l].held) /\ ~f.entry[e].missed
          /\ \/ f.entry[e].seen = 0 \/ f.loop[l].held = {}
             \/ \E h \in f.loop[l].held : h <= f.entry[e].seen + 1
      BY <2>1, <2>2, <3>2 DEF Whole, LoopWhole, Covers
    <3>4. ~k.entry[e].missed
      BY <1>2, <3>3 DEF IsDelivery
    <3>5. ASSUME c \in f.wired, NEW h \in Nat, IsNext(cs[c], lg[Of(e)], h)
          PROVE  k.entry[e].seen = 0 \/ h <= k.entry[e].seen + 1
      <4>0. k.entry[e].seen \in Nat /\ f.entry[e].seen \in Nat
        BY <1>1, <1>2, FleetParts, EntryTypes DEF IsDelivery, EntryRecords
      <4>1. CASE f.loop[l].held = {}
        <5>1. f.entry[e].seen = 0 \/ h <= f.entry[e].seen + 1
          BY <3>2, <3>5, <4>1 DEF LoopWhole, Covers
        <5>2. k.entry[e].seen = f.entry[e].seen
          BY <1>2, <4>1 DEF IsDelivery
        <5>. QED
          BY <5>1, <5>2
      <4>2. CASE f.loop[l].held # {}
        <5>1. h - 1 \in f.loop[l].held
          BY <3>2, <3>5, <4>2 DEF LoopWhole
        <5>2. h - 1 <= k.entry[e].seen
          BY <1>2, <5>1 DEF IsDelivery
        <5>. QED
          BY <4>0, <5>2
      <4>. QED
        BY <4>1, <4>2
    <3>6. \A m \in Loop : m[1] = e => ~Reading(k, m)
      BY <1>2, <1>3, <3>1 DEF Reading
    <3>. QED
      BY <1>2, <2>2, <3>1, <3>4, <3>5, <3>6 DEF Whole
  <2>3. CASE d # e
    <3>1. k.entry[d] = f.entry[d]
      BY <1>2, <2>3
    <3>2. \A m \in Loop : m[1] = d => k.loop[m] = f.loop[m]
      BY <1>2, <2>3
    <3>. QED
      BY <1>2, <2>1, <3>1, <3>2 DEF Whole, Reading
  <2>. QED
    BY <2>2, <2>3
<1>. QED
  BY <1>4, <1>5, <1>6 DEF Data, Wholes

LEMMA FinishesInv ==
  ASSUME IInv, NEW l \in Loop, Finishes(l)
  PROVE  IInv'
<1>. DEFINE f == fleet
            e == l[1]
            r == f.entry[e]
            held == f.loop[l].held
            d == CaughtUp(r, l, held)
            x == [f EXCEPT !.entry[e] = CaughtUp(@, l, held)]
<1>1. /\ log' = log /\ loaded' = loaded /\ host' = host /\ conn' = conn
      /\ faults' = faults /\ f.loop[l].pc = "finish" /\ Returns(l, x, FALSE)
  BY DEF Finishes
<1>2. /\ FleetInv(f, conn, update, faults, {}) /\ update \in Updates
      /\ faults \in Nat /\ faults <= MaxFaults
      /\ Data(f, conn, log) /\ f \in Fleets /\ Wires(conn, update, log)
  BY CoreTypes, Bounds DEF IInv, Core, Shapes
<1>3. e \in Entry /\ r \in EntryRecords /\ Bounded(held)
  BY <1>2, LoopParts, FleetParts, HeldBounded, CoreTypes
<1>4. x = WithEntry(f, e, d)
  <2>1. f = [listed |-> f.listed, made |-> f.made, entry |-> f.entry,
             wired |-> f.wired, loop |-> f.loop]
    BY <1>2 DEF Fleets
  <2>. QED
    BY <2>1 DEF WithEntry
<1>5. d = CaughtUp(r, l, held)
  OBVIOUS
<1>. HIDE DEF x, d, r
<1>6. /\ IsDelivery(r, held, d) /\ d.broken = r.broken
      /\ d.holding = IF r.holding = l THEN None ELSE r.holding
  BY <1>3, <1>5, CaughtUpDoes
<1>. HIDE DEF held
<1>7. d \in EntryRecords /\ d.link = r.link /\ d.updating = r.updating
      /\ d.conn = r.conn /\ d.deaf = r.deaf /\ d.twice = r.twice
  BY <1>6 DEF IsDelivery
<1>8. /\ x \in Fleets /\ x.made = f.made /\ x.listed = f.listed
      /\ x.wired = f.wired /\ x.loop = f.loop /\ x.entry[e] = d
      /\ \A y \in Entry : y # e => x.entry[y] = f.entry[y]
  BY <1>2, <1>3, <1>4, <1>7, PutEntry
<1>9. Ending(f, l, x)
  <2>1. \A y \in Entry : /\ x.entry[y].link = f.entry[y].link
                         /\ x.entry[y].updating = f.entry[y].updating
                         /\ x.entry[y].conn = f.entry[y].conn
                         /\ x.entry[y].deaf = f.entry[y].deaf
                         /\ x.entry[y].twice = f.entry[y].twice
    BY <1>7, <1>8 DEF r
  <2>. QED
    BY <1>1, <1>6, <1>8, <2>1 DEF Ending, r
<1>10. /\ fleet' = Return(x, l, FALSE)
       /\ update' = IF f.loop[l].window THEN NoUpdate ELSE update
       /\ FALSE \in BOOLEAN
  BY <1>1 DEF Returns
<1>11. /\ FleetInv(fleet', conn, update', faults, {})
       /\ \E k : Ended(x, l, k) /\ Kept(k, fleet')
  BY <1>2, <1>9, <1>10, ReturnInv
<1>12. PICK k : Ended(x, l, k) /\ Kept(k, fleet')
  BY <1>11
<1>13. Data(k, conn, log)
  BY <1>1, <1>2, <1>6, <1>8, <1>9, <1>12, FinishedData, CoreTypes DEF r, held
<1>14. Data(fleet', conn, log)
  BY <1>12, <1>13, KeptData
<1>15. f.loop[l].window => update.pc = "redialling"
  BY <1>2 DEF FleetInv, Updated
<1>16. /\ update' \in Updates
       /\ update.pc = "asking" => update' = update
  BY <1>2, <1>10, <1>15, OffIs
<1>17. Wires(conn, update', log)
  BY <1>2, <1>16 DEF Wires, HostAsked
<1>18. Core(fleet', conn, update', faults, log)
  BY <1>11, <1>14, <1>16, <1>17 DEF Core
<1>. QED
  BY <1>1, <1>18 DEF IInv, Shapes

----------------------------------------------------------------------------
(* Hearing                                                                 *)

\* The first message on c is taken.
Taken(cs, c, ds) ==
  /\ ds \in [Conns -> ConnRecords]
  /\ Removed(cs[c], 1, ds[c])
  /\ ds[c].at = cs[c].at /\ ds[c].asked = cs[c].asked
  /\ \A x \in Conns : x # c => ds[x] = cs[x]

LEMMA TakenIs ==
  ASSUME NEW cs \in [Conns -> ConnRecords], NEW c \in Conns,
         cs[c].inbox # <<>>, NEW ds,
         ds = [cs EXCEPT ![c].inbox = Tail(@)]
           \/ ds = [cs EXCEPT ![c].inbox = SubSeq(@, 2, Len(@))]
  PROVE  Taken(cs, c, ds) /\ Head(cs[c].inbox) = cs[c].inbox[1]
<1>. DEFINE k == cs[c]
            in == SubSeq(k.inbox, 2, Len(k.inbox))
            v == [k EXCEPT !.inbox = in]
<1>1. k \in ConnRecords /\ k.inbox \in Seq(Messages) /\ k.inbox # <<>>
  BY ConnTypes
<1>2. Tail(k.inbox) = in /\ in \in Seq(Messages)
      /\ Head(k.inbox) = k.inbox[1] /\ 1 \in 1..Len(k.inbox)
  BY <1>1
<1>3. ds = [cs EXCEPT ![c] = v]
  BY <1>2
<1>4. in = SubSeq(k.inbox, 1 + 1, Len(k.inbox))
  OBVIOUS
<1>. HIDE DEF in
<1>5. v \in ConnRecords /\ v.inbox = in /\ v.at = k.at /\ v.asked = k.asked
  BY <1>1, <1>2 DEF ConnRecords
<1>. HIDE DEF v
<1>6. Removed(k, 1, v)
  BY <1>1, <1>2, <1>4, <1>5, RemovedIs
<1>. QED
  BY <1>2, <1>3, <1>5, <1>6 DEF Taken

LEMMA TakenSays ==
  ASSUME NEW cs, NEW c \in Conns, NEW ds, Taken(cs, c, ds),
         NEW top \in Nat, Sound(cs[c], top), NEW m, m = cs[c].inbox[1]
  PROVE  LET k == cs[c]
             d == ds[c]
         IN  /\ Sound(d, top) /\ Welcomes(d) = {} /\ m \in Messages
             /\ Asked(d) = Asked(k) /\ Alive(cs, c) /\ Alive(ds, c)
             /\ Restarting(d) => Restarting(k)
             /\ Answered(d) # {} => Answered(k) # {}
             /\ m.t \in Answers =>
                  Answered(k) # {} /\ Asked(d) = {} /\ Answered(d) = {}
             /\ m.t = "stopping" => Restarting(k) /\ ~Restarting(d)
             /\ \A x : IsReading(d, x) => IsReading(k, x)
             /\ \A n : m.t # "event" /\ IsNext(d, top, n) => IsNext(k, top, n)
<1>. DEFINE k == cs[c]
            d == ds[c]
<1>1. Removed(k, 1, d) /\ d.at = k.at /\ d.asked = k.asked
      /\ d \in ConnRecords
  BY DEF Taken
<1>2. k \in ConnRecords /\ Tidy(k)
  BY DEF Sound
<1>3. /\ DOMAIN k.inbox = 1..Len(k.inbox) /\ DOMAIN d.inbox = 1..Len(d.inbox)
      /\ Len(d.inbox) = Len(k.inbox) - 1 /\ Len(k.inbox) \in Nat
      /\ Len(d.inbox) \in Nat
      /\ 1 \in DOMAIN k.inbox /\ m \in Messages
      /\ \A i \in DOMAIN d.inbox : d.inbox[i] = k.inbox[i + 1]
  <2>1. 1 \in DOMAIN k.inbox
    BY <1>1 DEF Removed
  <2>. QED
    BY <1>1, <1>2, <2>1, ConnTypes DEF Removed
<1>4. k.at # "unused"
  <2>1. k.inbox # <<>>
    BY <1>3
  <2>. QED
    BY <1>2, <2>1, UnusedSays DEF Tidy
<1>5. Asked(d) = Asked(k) /\ Shutdowns(d) = Shutdowns(k)
  BY <1>1 DEF Asked, Shutdowns
<1>6. /\ Sound(d, top) /\ Welcomes(d) = {}
      /\ Restarting(d) => Restarting(k)
      /\ Answered(d) # {} => Answered(k) # {}
  <2>1. /\ \A x, y \in Asked(d) : x = y
        /\ Asked(d) # {} => Asked(k) # {} \/ Answered(k) = {}
        /\ Shutdowns(d) \subseteq Shutdowns(k)
        /\ d.at = "cut" => d.asked = {}
    BY <1>1, <1>2, <1>5 DEF Tidy
  <2>2. \A x \in d.asked : x.t = "found" => x.upto <= top
    BY <1>1 DEF Sound
  <2>. QED
    BY <1>1, <1>4, <2>1, <2>2, RemovedSound
<1>7. \A i \in DOMAIN d.inbox : /\ i + 1 \in DOMAIN k.inbox /\ i + 1 # 1
                                /\ d.inbox[i] = k.inbox[i + 1]
  BY <1>1, RemovedKinds
<1>8. m.t \in Answers =>
        Answered(k) # {} /\ Asked(d) = {} /\ Answered(d) = {}
  <2>. SUFFICES ASSUME m.t \in Answers
                PROVE  Answered(k) # {} /\ Asked(d) = {} /\ Answered(d) = {}
    OBVIOUS
  <2>1. 1 \in Answered(k)
    BY <1>3 DEF Answered
  <2>2. Asked(d) = {}
    BY <1>2, <1>5, <2>1 DEF Tidy
  <2>3. \A i \in Answered(d) : i + 1 \in Answered(k) /\ i + 1 # 1
    BY <1>7 DEF Answered
  <2>. QED
    BY <1>2, <2>1, <2>2, <2>3 DEF Tidy
<1>9. m.t = "stopping" => Restarting(k) /\ ~Restarting(d)
  <2>. SUFFICES ASSUME m.t = "stopping" PROVE Restarting(k) /\ ~Restarting(d)
    OBVIOUS
  <2>1. 1 \in Stoppings(k)
    BY <1>3 DEF Stoppings
  <2>2. \A i \in Stoppings(d) : i + 1 \in Stoppings(k) /\ i + 1 # 1
    BY <1>7 DEF Stoppings
  <2>. QED
    BY <1>2, <1>5, <2>1, <2>2 DEF Tidy, Restarting
<1>10. \A x : IsReading(d, x) => IsReading(k, x)
  BY <1>1, <1>7 DEF IsReading
<1>11. ASSUME NEW n, m.t # "event", IsNext(d, top, n)
       PROVE  IsNext(k, top, n)
  <2>1. CASE \E i \in DOMAIN d.inbox :
               /\ IsEvent(d.inbox, i, n)
               /\ \A j \in 1..(i - 1) : d.inbox[j].t # "event"
    <3>1. PICK i \in DOMAIN d.inbox :
                 /\ IsEvent(d.inbox, i, n)
                 /\ \A j \in 1..(i - 1) : d.inbox[j].t # "event"
      BY <2>1
    <3>2. IsEvent(k.inbox, i + 1, n) /\ i + 1 \in DOMAIN k.inbox
      BY <1>7, <3>1 DEF IsEvent
    <3>3. ASSUME NEW j \in 1..((i + 1) - 1) PROVE k.inbox[j].t # "event"
      <4>1. CASE j = 1
        BY <1>11, <4>1
      <4>2. CASE j # 1
        <5>1. j - 1 \in 1..(i - 1) /\ j - 1 \in DOMAIN d.inbox
              /\ (j - 1) + 1 = j
          BY <1>3, <3>1, <4>2
        <5>. QED
          BY <1>7, <3>1, <5>1
      <4>. QED
        BY <4>1, <4>2
    <3>. QED
      BY <3>2, <3>3 DEF IsNext
  <2>2. CASE /\ d.at = "open"
             /\ \A i \in DOMAIN d.inbox : d.inbox[i].t # "event"
             /\ n = top + 1
    <3>1. ASSUME NEW j \in DOMAIN k.inbox PROVE k.inbox[j].t # "event"
      <4>1. CASE j = 1
        BY <1>11, <4>1
      <4>2. CASE j # 1
        <5>1. j - 1 \in DOMAIN d.inbox /\ (j - 1) + 1 = j
          BY <1>3, <4>2
        <5>. QED
          BY <1>7, <2>2, <5>1
      <4>. QED
        BY <4>1, <4>2
    <3>. QED
      BY <1>1, <2>2, <3>1 DEF IsNext
  <2>. QED
    BY <1>11, <2>1, <2>2 DEF IsNext
<1>. QED
  BY <1>1, <1>3, <1>4, <1>5, <1>6, <1>8, <1>9, <1>10, <1>11 DEF Alive

\* The event that was taken was the next, and the one after it is next.
LEMMA TakenEvent ==
  ASSUME NEW cs, NEW c \in Conns, NEW ds, Taken(cs, c, ds),
         NEW top \in Nat, Sound(cs[c], top), NEW m, m = cs[c].inbox[1],
         m.t = "event"
  PROVE  /\ m.n \in Nat /\ m.n > 0 /\ m.n <= top
         /\ IsNext(cs[c], top, m.n)
         /\ \A n : IsNext(ds[c], top, n) => n = m.n + 1
<1>. DEFINE k == cs[c]
            d == ds[c]
            s == k.inbox
            t == d.inbox
<1>1. /\ DOMAIN s = 1..Len(s) /\ DOMAIN t = 1..Len(t)
      /\ Len(t) = Len(s) - 1 /\ Len(s) \in Nat /\ Len(t) \in Nat
      /\ 1 \in DOMAIN s /\ d.at = k.at
  BY DEF Taken, Removed
<1>2. \A i \in DOMAIN t : i + 1 \in DOMAIN s /\ t[i] = s[i + 1]
  BY RemovedKinds DEF Taken
<1>3. InStream(s, top) /\ (k.at = "open" => ToTheEnd(s, top))
  BY DEF Sound
<1>4. m.n \in 1..top
  BY <1>1, <1>3 DEF InStream
<1>5. IsNext(k, top, m.n)
  BY <1>1 DEF IsNext, IsEvent
<1>6. ASSUME NEW n, IsNext(d, top, n) PROVE n = m.n + 1
  <2>1. CASE \E i \in DOMAIN t : /\ IsEvent(t, i, n)
                                 /\ \A j \in 1..(i - 1) : t[j].t # "event"
    <3>1. PICK i \in DOMAIN t : /\ IsEvent(t, i, n)
                                /\ \A j \in 1..(i - 1) : t[j].t # "event"
      BY <2>1
    <3>2. i + 1 \in DOMAIN s /\ s[i + 1].t = "event" /\ s[i + 1].n = n
          /\ 1 < i + 1
      <4>1. t[i].t = "event" /\ t[i].n = n
        BY <3>1 DEF IsEvent
      <4>2. i \in Nat /\ 1 < i + 1
        BY <1>1
      <4>. QED
        BY <1>2, <4>1, <4>2
    <3>3. PICK y \in 2..(i + 1) : IsEvent(s, y, m.n + 1)
      <4>1. \E y \in (1 + 1)..(i + 1) : IsEvent(s, y, s[1].n + 1)
        BY <1>1, <1>3, <3>2 DEF InStream
      <4>2. m = s[1] /\ 1 + 1 = 2
        OBVIOUS
      <4>. QED
        BY <4>1, <4>2
    <3>4. y = i + 1
      <4>. SUFFICES ASSUME y # i + 1 PROVE FALSE
        OBVIOUS
      <4>1. y - 1 \in 1..(i - 1) /\ y - 1 \in DOMAIN t /\ (y - 1) + 1 = y
        BY <1>1, <3>1, <3>3
      <4>2. t[y - 1].t = "event"
        BY <1>2, <3>3, <4>1 DEF IsEvent
      <4>. QED
        BY <3>1, <4>1, <4>2
    <3>. QED
      BY <3>2, <3>3, <3>4 DEF IsEvent
  <2>2. CASE /\ d.at = "open" /\ \A i \in DOMAIN t : t[i].t # "event"
             /\ n = top + 1
    <3>1. \/ m.n = top
          \/ \E y \in 2..Len(s) : IsEvent(s, y, m.n + 1)
      BY <1>1, <1>3, <2>2 DEF ToTheEnd
    <3>2. ~ \E y \in 2..Len(s) : IsEvent(s, y, m.n + 1)
      <4>. SUFFICES ASSUME NEW y \in 2..Len(s), IsEvent(s, y, m.n + 1)
                    PROVE  FALSE
        OBVIOUS
      <4>1. y - 1 \in DOMAIN t /\ (y - 1) + 1 = y
        BY <1>1
      <4>2. t[y - 1].t = "event"
        BY <1>2, <4>1 DEF IsEvent
      <4>. QED
        BY <2>2, <4>1, <4>2
    <3>. QED
      BY <2>2, <3>1, <3>2
  <2>. QED
    BY <1>6, <2>1, <2>2 DEF IsNext
<1>. QED
  BY <1>4, <1>5, <1>6

\* What a message that is taken leaves: whose it was is seen to elsewhere.
LEMMA TakenWires ==
  ASSUME NEW f, NEW cs, NEW u, NEW n, NEW lg \in [Workspaces -> Nat],
         Core(f, cs, u, n, lg), NEW c \in Conns, NEW ds, Taken(cs, c, ds)
  PROVE  /\ Wires(ds, u, lg) /\ FleetInv(f, ds, u, n, {})
         /\ Sound(cs[c], lg[To(c)]) /\ lg[To(c)] \in Nat
         /\ \A x \in Conns : Sound(ds[x], lg[To(x)])
         /\ \A x \in Conns : Alive(ds, x) <=> Alive(cs, x)
<1>1. u \in Updates /\ FleetInv(f, cs, u, n, {}) /\ Data(f, cs, lg)
      /\ Wires(cs, u, lg)
  BY DEF Core
<1>2. \A x \in Conns : lg[To(x)] \in Nat /\ Sound(cs[x], lg[To(x)])
  <2>1. \A x \in Conns : To(x) \in Workspaces
    BY ConnParts, EntryParts DEF To
  <2>. QED
    BY <1>1, <2>1, AllSound
<1>3. /\ Sound(ds[c], lg[To(c)]) /\ (Alive(ds, c) <=> Alive(cs, c))
      /\ Restarting(ds[c]) => Restarting(cs[c])
  BY <1>2, TakenSays
<1>4. \A x \in Conns : x # c => ds[x] = cs[x]
  BY DEF Taken
<1>5. \A x \in Conns : /\ Sound(ds[x], lg[To(x)])
                       /\ Alive(ds, x) <=> Alive(cs, x)
                       /\ Restarting(ds[x]) => Restarting(cs[x])
  BY <1>2, <1>3, <1>4 DEF Alive
<1>6. FleetInv(f, ds, u, n, {})
  BY <1>1, <1>5, SameAlive
<1>7. Wires(ds, u, lg)
  <2>1. HostAsked(ds, u)
    BY <1>1, <1>5 DEF Wires, HostAsked
  <2>2. Streamed(ds, lg)
    BY <1>5 DEF Streamed, Sound
  <2>. QED
    BY <2>1, <2>2 DEF Wires, Taken
<1>. QED
  BY <1>2, <1>5, <1>6, <1>7

\* A message that is no event is taken, and nobody minds.
LEMMA TakenCore ==
  ASSUME NEW f, NEW cs, NEW u, NEW n, NEW lg \in [Workspaces -> Nat],
         Core(f, cs, u, n, lg), NEW c \in Conns, NEW ds, Taken(cs, c, ds),
         cs[c].inbox[1].t # "event"
  PROVE  Core(f, ds, u, n, lg)
<1>1. /\ Sound(cs[c], lg[To(c)]) /\ lg[To(c)] \in Nat
      /\ \A x \in Conns : Alive(ds, x) <=> Alive(cs, x)
  BY TakenWires
<1>2. Follows(cs[c], lg[To(c)], ds[c], lg[To(c)])
  <2>. DEFINE k == cs[c]
              d == ds[c]
              top == lg[To(c)]
  <2>1. /\ Sound(d, top) /\ Welcomes(d) = {} /\ Asked(d) = Asked(k)
        /\ Restarting(d) => Restarting(k)
        /\ Answered(d) # {} => Answered(k) # {}
        /\ \A x : IsReading(d, x) => IsReading(k, x)
        /\ \A y : IsNext(d, top, y) => IsNext(k, top, y)
    BY <1>1, TakenSays
  <2>. QED
    BY <2>1 DEF Follows, NothingNew
<1>3. \A x \in Conns : x # c => Follows(cs[x], lg[To(x)], ds[x], lg[To(x)])
  <2>. SUFFICES ASSUME NEW x \in Conns, x # c
                PROVE  Follows(cs[x], lg[To(x)], ds[x], lg[To(x)])
    OBVIOUS
  <2>1. ds[x] = cs[x]
    BY DEF Taken
  <2>2. Sound(cs[x], lg[To(x)])
    BY <2>1, TakenWires
  <2>3. lg[To(x)] \in Nat
    BY ConnParts, EntryParts DEF To
  <2>. QED
    BY <2>1, <2>2, <2>3, StayFollows
<1>4. \A w \in Workspaces : lg[w] <= lg[w]
  OBVIOUS
<1>5. ds \in [Conns -> ConnRecords]
  BY DEF Taken
<1>. QED
  BY <1>1, <1>2, <1>3, <1>4, <1>5, HostStep

\* Who awaited the message that is taken, if it is an answer, has it.
LEMMA TakenTalk ==
  ASSUME NEW f, NEW cs, NEW u, NEW n, NEW lg \in [Workspaces -> Nat],
         Core(f, cs, u, n, lg), NEW c \in Conns, NEW ds, Taken(cs, c, ds),
         NEW m, m = cs[c].inbox[1], NEW g,
         \A l \in Loop : f.loop[l].conn # None =>
           /\ g.loop[l].conn = f.loop[l].conn
           /\ \/ g.loop[l].pc = f.loop[l].pc
              \/ f.loop[l].conn = c /\ m.t \in Answers
  PROVE  Talk(g, ds)
<1>. SUFFICES ASSUME NEW x \in Conns PROVE Tidy(ds[x]) /\ Expected(g, ds[x], x)
  BY DEF Talk
<1>1. Tidy(ds[x]) /\ x # None /\ Sound(cs[c], lg[To(c)]) /\ lg[To(c)] \in Nat
  BY TakenWires, ConnParts DEF Sound
<1>2. Expected(f, cs[x], x)
  BY DEF Core, Data, Talk
<1>3. CASE x = c
  <2>. DEFINE k == cs[c]
              d == ds[c]
  <2>1. /\ Welcomes(d) = {}
        /\ Asked(d) = Asked(k)
        /\ Answered(d) # {} => Answered(k) # {}
        /\ m.t \in Answers => Asked(d) = {} /\ Answered(d) = {}
    BY <1>1, TakenSays
  <2>2. CASE m.t \in Answers
    <3>1. Welcomes(d) = {} /\ Asked(d) = {} /\ Answered(d) = {}
      BY <2>1, <2>2
    <3>. QED
      BY <1>1, <1>3, <3>1 DEF Expected
  <2>3. CASE m.t \notin Answers
    BY <1>1, <1>2, <1>3, <2>1, <2>3 DEF Expected
  <2>. QED
    BY <1>1, <2>2, <2>3
<1>4. CASE x # c
  <2>1. ds[x] = cs[x]
    BY <1>4 DEF Taken
  <2>2. \A l \in Loop : f.loop[l].conn = x =>
          g.loop[l].conn = x /\ g.loop[l].pc = f.loop[l].pc
    BY <1>1, <1>4
  <2>. QED
    BY <1>1, <1>2, <2>1, <2>2 DEF Expected
<1>. QED
  BY <1>3, <1>4

\* To an entry whose connections and loops are as they were nothing happens.
LEMMA WholeElsewhere ==
  ASSUME NEW f, NEW cs, NEW u, NEW n, NEW lg \in [Workspaces -> Nat],
         Core(f, cs, u, n, lg), NEW c \in Conns, NEW ds, Taken(cs, c, ds),
         NEW e \in Entry, e # c[1], NEW g, g.wired = f.wired,
         g.entry[e] = f.entry[e],
         \A l \in Loop : l[1] = e => g.loop[l] = f.loop[l],
         ~f.entry[e].twice, ~f.entry[e].broken
  PROVE  Whole(g, ds, lg, e)
<1>1. f \in Fleets /\ Owned(f, cs) /\ Whole(f, cs, lg, e)
  BY DEF Core, FleetInv, Data, Wholes
<1>2. f.entry[e].conn # None => ds[f.entry[e].conn] = cs[f.entry[e].conn]
  BY <1>1, OwnConn DEF Taken
<1>3. \A l \in Loop : l[1] = e /\ f.loop[l].conn # None =>
        ds[f.loop[l].conn] = cs[f.loop[l].conn]
  <2>. SUFFICES ASSUME NEW l \in Loop, l[1] = e, f.loop[l].conn # None
                PROVE  ds[f.loop[l].conn] = cs[f.loop[l].conn]
    OBVIOUS
  <2>1. LoopOwns(f, cs, l) /\ f.loop[l].conn \in Conns
    BY <1>1, FleetParts, LoopTypes DEF Owned
  <2>2. f.loop[l].conn # c
    BY <2>1 DEF LoopOwns
  <2>. QED
    BY <2>1, <2>2 DEF Taken
<1>. QED
  BY <1>1, <1>2, <1>3 DEF Whole, Reading

\* An event that nobody is wired to hear.
LEMMA WholeUnheard ==
  ASSUME NEW f, NEW cs, NEW u, NEW n, NEW lg \in [Workspaces -> Nat],
         Core(f, cs, u, n, lg), NEW c \in Conns, NEW ds, Taken(cs, c, ds),
         c \notin f.wired, NEW e \in Entry,
         ~f.entry[e].twice, ~f.entry[e].broken
  PROVE  Whole(f, ds, lg, e)
<1>1. f \in Fleets /\ Owned(f, cs) /\ Whole(f, cs, lg, e)
  BY DEF Core, FleetInv, Data, Wholes
<1>2. f.entry[e].conn # None /\ f.entry[e].conn \in f.wired =>
        ds[f.entry[e].conn] = cs[f.entry[e].conn]
  BY <1>1, OwnConn DEF Taken
<1>3. ASSUME NEW l \in Loop, l[1] = e, f.loop[l].conn # None, Reading(f, l)
      PROVE  LoopWhole(f.entry[e], f.loop[l], ds[f.loop[l].conn], lg[Of(e)],
                       f.loop[l].conn \in f.wired)
  <2>1. LoopWhole(f.entry[e], f.loop[l], cs[f.loop[l].conn], lg[Of(e)],
                  f.loop[l].conn \in f.wired)
    BY <1>1, <1>3 DEF Whole
  <2>2. CASE f.loop[l].conn = c
    <3>1. \A x : IsReading(ds[c], x) => IsReading(cs[c], x)
      BY TakenWires, TakenSays
    <3>. QED
      BY <2>1, <2>2, <3>1 DEF LoopWhole, Covers
  <2>3. CASE f.loop[l].conn # c
    <3>1. f.loop[l].conn \in Conns
      BY <1>1, <1>3, FleetParts, LoopTypes
    <3>2. ds[f.loop[l].conn] = cs[f.loop[l].conn]
      BY <2>3, <3>1 DEF Taken
    <3>. QED
      BY <2>1, <3>2
  <2>. QED
    BY <2>2, <2>3
<1>. QED
  BY <1>1, <1>2, <1>3 DEF Whole

\* An event that is delivered at once.
LEMMA WholeLive ==
  ASSUME NEW f, NEW cs, NEW u, NEW n, NEW lg \in [Workspaces -> Nat],
         Core(f, cs, u, n, lg), NEW c \in Conns, NEW ds, Taken(cs, c, ds),
         NEW m, m = cs[c].inbox[1], m.t = "event",
         NEW g, HeardLive(f, c, m.n, g), NEW e, e = c[1],
         ~f.entry[e].twice, ~f.entry[e].broken
  PROVE  Whole(g, ds, lg, e)
<1>. DEFINE r == f.entry[e]
            d == g.entry[e]
<1>1. e \in Entry /\ To(c) = Of(e) /\ c # None
  BY ConnParts DEF To
<1>2. /\ c \in f.wired /\ r.holding = None /\ g.loop = f.loop
      /\ g.wired = f.wired /\ IsDelivery(r, {m.n}, d)
  BY DEF HeardLive, Rewritten
<1>3. Whole(f, cs, lg, e) /\ Single(f, u, {}, e) /\ Owned(f, cs)
      /\ f \in Fleets
  BY <1>1 DEF Core, FleetInv, Data, Wholes, Singles
<1>4. r.conn = c /\ d.conn = c
  BY <1>1, <1>2, <1>3 DEF Single, IsDelivery
<1>5. \A l \in Loop : l[1] = e => ~Reading(g, l)
  <2>1. \A l \in Loop : l[1] = e => ~Reading(f, l)
    BY <1>2, <1>3, LoopParts DEF Single
  <2>. QED
    BY <1>2, <2>1 DEF Reading
<1>6. /\ m.n \in Nat /\ IsNext(cs[c], lg[Of(e)], m.n)
      /\ \A y : IsNext(ds[c], lg[Of(e)], y) => y = m.n + 1
  <2>1. Sound(cs[c], lg[Of(e)]) /\ lg[Of(e)] \in Nat
    BY <1>1, TakenWires
  <2>. DEFINE top == lg[Of(e)]
  <2>. HIDE DEF top
  <2>2. /\ m.n \in Nat /\ IsNext(cs[c], top, m.n)
        /\ \A y : IsNext(ds[c], top, y) => y = m.n + 1
    BY <2>1, TakenEvent DEF top
  <2>. QED
    BY <2>2 DEF top
<1>7. r.seen = 0 \/ m.n <= r.seen + 1
  BY <1>1, <1>2, <1>3, <1>4, <1>6 DEF Whole
<1>8. ~d.missed
  <2>1. Convex({m.n}) /\ ~r.missed
    BY <1>3, <1>6 DEF Convex, Whole
  <2>. QED
    BY <1>2, <1>7, <2>1 DEF IsDelivery
<1>9. d.seen \in Nat /\ m.n <= d.seen
  BY <1>2, EntryTypes DEF IsDelivery
<1>10. \A y \in Nat : IsNext(ds[c], lg[Of(e)], y) => y <= d.seen + 1
  BY <1>6, <1>9
<1>. QED
  BY <1>4, <1>5, <1>8, <1>10 DEF Whole

\* An event that is held back.
LEMMA WholeBack ==
  ASSUME NEW f, NEW cs, NEW u, NEW n, NEW lg \in [Workspaces -> Nat],
         Core(f, cs, u, n, lg), NEW c \in Conns, NEW ds, Taken(cs, c, ds),
         NEW m, m = cs[c].inbox[1], m.t = "event", NEW l,
         NEW g, HeardBack(f, c, m.n, l, g), NEW e, e = c[1],
         ~f.entry[e].twice, ~f.entry[e].broken
  PROVE  Whole(g, ds, lg, e)
<1>. DEFINE r == f.entry[e]
            p == f.loop[l]
            q == g.loop[l]
            k == cs[c]
            d == ds[c]
            top == lg[Of(e)]
            h == m.n
<1>1. e \in Entry /\ To(c) = Of(e) /\ c # None /\ l \in Loop /\ l # None
  BY ConnParts, LoopParts DEF To, HeardBack
<1>2. /\ c \in f.wired /\ r.holding = l /\ g.entry[e] = r
      /\ g.wired = f.wired /\ q.pc = p.pc /\ q.conn = p.conn
      /\ q.held = p.held \cup {h}
      /\ \A x \in Loop : x # l => g.loop[x] = f.loop[x]
  BY DEF HeardBack, Rewritten
<1>3. Whole(f, cs, lg, e) /\ Single(f, u, {}, e) /\ Owned(f, cs)
      /\ f \in Fleets
  BY <1>1 DEF Core, FleetInv, Data, Wholes, Singles
<1>4. r.conn = c /\ p.conn = c /\ Reading(f, l) /\ l[1] = e
  <2>1. EntryOwns(f, cs, e) /\ r.conn = c
    BY <1>1, <1>2, <1>3 DEF Owned, Single
  <2>2. Reading(f, l) /\ l[1] = e
    BY <1>1, <1>2, <2>1 DEF EntryOwns
  <2>. QED
    BY <1>1, <1>3, <2>1, <2>2 DEF Single
<1>5. /\ h \in Nat /\ h <= top /\ top \in Nat /\ IsNext(k, top, h)
      /\ \A y : IsNext(d, top, y) => y = h + 1
      /\ \A x : IsReading(d, x) => IsReading(k, x)
  <2>1. Sound(k, top) /\ top \in Nat
    BY <1>1, TakenWires
  <2>2. \A x : IsReading(d, x) => IsReading(k, x)
    BY <2>1, TakenSays
  <2>. HIDE DEF k, d, top
  <2>3. /\ h \in Nat /\ h <= top /\ IsNext(k, top, h)
        /\ \A y : IsNext(d, top, y) => y = h + 1
    BY <2>1, TakenEvent DEF k, d
  <2>. QED
    BY <2>1, <2>2, <2>3
<1>6. LoopWhole(r, p, k, top, TRUE)
  BY <1>1, <1>2, <1>3, <1>4 DEF Whole
<1>7. p.held \in SUBSET Nat
  BY <1>1, <1>3, FleetParts, LoopTypes
<1>8. IF p.held = {} THEN Covers(r, p, k, h)
      ELSE h - 1 \in p.held /\ \A x \in p.held : x < h
  BY <1>5, <1>6 DEF LoopWhole
<1>9. Convex(q.held)
  <2>1. CASE p.held = {}
    BY <1>2, <1>5, <2>1 DEF Convex
  <2>2. CASE p.held # {}
    <3>. DEFINE T == p.held
    <3>1. Convex(T) /\ h - 1 \in T /\ \A x \in T : x < h /\ x \in Nat
      BY <1>6, <1>7, <1>8, <2>2 DEF LoopWhole
    <3>2. q.held = T \cup {h}
      BY <1>2
    <3>. HIDE DEF T, h
    <3>3. ASSUME NEW a \in T \cup {h}, NEW b \in T \cup {h}, NEW x \in a..b
          PROVE  x \in T \cup {h}
      <4>1. CASE b = h /\ a \in T
        <5>1. x = h \/ x \in a..(h - 1)
          BY <1>5, <3>1, <4>1
        <5>2. a..(h - 1) \subseteq T
          BY <3>1, <4>1 DEF Convex
        <5>. QED
          BY <5>1, <5>2
      <4>2. CASE a \in T /\ b \in T
        BY <3>1, <4>2 DEF Convex
      <4>3. CASE a = h /\ b \in T
        BY <1>5, <3>1, <4>3
      <4>4. CASE a = h /\ b = h
        BY <1>5, <4>4
      <4>. QED
        BY <4>1, <4>2, <4>3, <4>4
    <3>. QED
      BY <3>2, <3>3 DEF Convex
  <2>. QED
    BY <2>1, <2>2
<1>10. \A x : Covers(r, p, k, x) => Covers(r, q, d, x)
  BY <1>2, <1>5 DEF Covers
<1>11. \E x \in q.held : Covers(r, q, d, x)
  <2>1. CASE p.held = {}
    BY <1>2, <1>8, <1>10, <2>1
  <2>2. CASE p.held # {}
    BY <1>2, <1>6, <1>10, <2>2 DEF LoopWhole
  <2>. QED
    BY <2>1, <2>2
<1>12. ASSUME NEW y \in Nat, IsNext(d, top, y)
       PROVE  q.held # {} /\ y - 1 \in q.held /\ \A x \in q.held : x < y
  <2>1. y = h + 1 /\ y - 1 = h
    BY <1>5, <1>12
  <2>2. \A x \in p.held : x < h /\ x \in Nat
    BY <1>7, <1>8
  <2>3. \A x \in p.held : x < y
    BY <1>5, <2>1, <2>2
  <2>. QED
    BY <1>2, <1>5, <2>1, <2>3
<1>13. q.pc = "catchUp" => r.seen > 0 /\ \A x : IsReading(d, x) =>
                                                  x.from = r.seen
  BY <1>2, <1>5, <1>6 DEF LoopWhole
<1>14. \A w : LoopWhole(r, q, d, top, w)
  BY <1>9, <1>11, <1>12, <1>13 DEF LoopWhole
<1>15. \A x \in Loop : x[1] = e /\ Reading(g, x) => x = l
  <2>1. \A x \in Loop : Reading(g, x) <=> Reading(f, x)
    BY <1>2 DEF Reading
  <2>. QED
    BY <1>2, <1>3, <2>1 DEF Single
<1>. QED
  BY <1>1, <1>2, <1>3, <1>4, <1>14, <1>15 DEF Whole

\* What was read is delivered.
LEMMA WholeFound ==
  ASSUME NEW f, NEW cs, NEW u, NEW n, NEW lg \in [Workspaces -> Nat],
         Core(f, cs, u, n, lg), NEW c \in Conns, NEW ds, Taken(cs, c, ds),
         NEW m, m = cs[c].inbox[1], m.t = "found", NEW l,
         NEW g, HeardFound(f, c, m.from, m.upto, l, g), NEW e, e = c[1],
         ~f.entry[e].twice, ~f.entry[e].broken
  PROVE  Whole(g, ds, lg, e)
<1>. DEFINE r == f.entry[e]
            s == g.entry[e]
            p == f.loop[l]
            q == g.loop[l]
            k == cs[c]
            d == ds[c]
            top == lg[Of(e)]
            ns == (m.from + 1)..m.upto
<1>1. e \in Entry /\ To(c) = Of(e) /\ c # None /\ l \in Loop /\ l # None
  BY ConnParts, LoopParts DEF To, HeardFound, HeardRead
<1>2. /\ p.conn = c /\ p.pc = "catchUp" /\ l[1] = e /\ g.wired = f.wired
      /\ q.pc = "finish" /\ q.conn = c /\ q.held = p.held
      /\ \A x \in Loop : x # l => g.loop[x] = f.loop[x]
      /\ IsDelivery(r, ns, s) /\ s.holding = r.holding
  BY DEF HeardFound, HeardRead, Rewritten
<1>3. Whole(f, cs, lg, e) /\ Single(f, u, {}, e) /\ Owned(f, cs)
      /\ f \in Fleets /\ Reading(f, l)
  BY <1>1, <1>2 DEF Core, FleetInv, Data, Wholes, Singles, Reading
<1>4. r.holding = l /\ s.holding # None
  BY <1>1, <1>2, <1>3 DEF Single
<1>5. LoopWhole(r, p, k, top, c \in f.wired)
  BY <1>1, <1>2, <1>3 DEF Whole
<1>6. /\ m \in Messages /\ top \in Nat
      /\ \A y : IsNext(d, top, y) => IsNext(k, top, y)
  BY <1>1, TakenWires, TakenSays
<1>7. m.from \in Nat /\ m.upto \in Nat
  BY <1>6 DEF Messages
<1>8. IsReading(k, m)
  BY DEF IsReading, Taken, Removed
<1>9. m.from = r.seen /\ r.seen > 0
  BY <1>2, <1>5, <1>8 DEF LoopWhole
<1>10. ~s.missed
  <2>1. Convex(ns) /\ ~r.missed
    BY <1>3, <1>7 DEF Convex, Whole
  <2>2. ns = {} \/ \E x \in ns : x <= r.seen + 1
    <3>1. CASE m.from + 1 <= m.upto
      <4>1. m.from + 1 \in ns /\ m.from + 1 <= r.seen + 1
        BY <1>7, <1>9, <3>1
      <4>. QED
        BY <4>1
    <3>2. CASE ~(m.from + 1 <= m.upto)
      BY <1>7, <3>2
    <3>. QED
      BY <3>1, <3>2
  <2>. HIDE DEF ns
  <2>. QED
    BY <1>2, <2>1, <2>2 DEF IsDelivery
<1>11. s.seen \in Nat /\ m.upto <= s.seen
  <2>1. s.seen \in Nat /\ s.seen >= r.seen /\ \A x \in ns : x <= s.seen
    BY <1>2, EntryTypes DEF IsDelivery
  <2>. QED
    BY <1>7, <1>9, <2>1
<1>12. \A y \in Nat : Covers(r, p, k, y) => Covers(s, q, d, y)
  <2>. SUFFICES ASSUME NEW y \in Nat, Covers(r, p, k, y)
                PROVE  Covers(s, q, d, y)
    OBVIOUS
  <2>1. y <= m.upto + 1
    BY <1>2, <1>8 DEF Covers
  <2>2. y <= s.seen + 1
    BY <1>7, <1>11, <2>1
  <2>. QED
    BY <1>2, <2>2 DEF Covers
<1>13. p.held \in SUBSET Nat
  BY <1>1, <1>3, FleetParts, LoopTypes
<1>14. LoopWhole(s, q, d, top, c \in f.wired)
  BY <1>2, <1>5, <1>6, <1>12, <1>13 DEF LoopWhole
<1>15. \A x \in Loop : x[1] = e /\ Reading(g, x) => x = l
  <2>1. \A x \in Loop : x # l /\ Reading(g, x) => Reading(f, x)
    BY <1>2 DEF Reading
  <2>. QED
    BY <1>3, <1>4, <2>1 DEF Single
<1>. QED
  BY <1>1, <1>2, <1>4, <1>10, <1>14, <1>15 DEF Whole

LEMMA HeardLogged ==
  ASSUME NEW f, NEW cs, NEW u, NEW n, NEW lg \in [Workspaces -> Nat],
         Core(f, cs, u, n, lg), NEW c \in Conns, NEW ds, Taken(cs, c, ds),
         NEW m, m = cs[c].inbox[1], NEW g, Hearing(f, c, m, g)
  PROVE  Logged(g, ds, lg)
<1>. DEFINE e == c[1]
            top == lg[To(c)]
<1>1. /\ e \in Entry /\ To(c) = Of(e) /\ top \in Nat /\ Logged(f, cs, lg)
      /\ f \in Fleets /\ m \in Messages /\ Sound(cs[c], top)
  <2>1. Sound(cs[c], top) /\ top \in Nat
    BY TakenWires
  <2>2. m \in Messages
    BY <2>1, TakenSays
  <2>. QED
    BY <2>1, <2>2, ConnParts DEF To, Core, FleetInv, Data
<1>2. \A x \in Conns :
        /\ \A i \in DOMAIN ds[x].inbox :
             ds[x].inbox[i].t = "found" => ds[x].inbox[i].upto <= lg[To(x)]
        /\ \A o \in ds[x].asked : o.t = "found" => o.upto <= lg[To(x)]
  BY TakenWires DEF Sound
<1>3. m.t = "event" => m.n \in Nat /\ m.n > 0 /\ m.n <= top
  BY <1>1, TakenEvent
<1>4. m.t = "found" => m.from \in Nat /\ m.upto \in Nat /\ m.upto <= top
  <2>1. 1 \in DOMAIN cs[c].inbox
    BY DEF Taken, Removed
  <2>2. m.t = "found" => m.upto <= top
    BY <1>1, <2>1 DEF Sound
  <2>. QED
    BY <1>1, <2>2 DEF Messages
<1>5. \A x \in Entry : g.entry[x].seen <= lg[Of(x)]
  <2>0. \A x \in Entry : f.entry[x].seen <= lg[Of(x)]
    BY <1>1 DEF Logged
  <2>1. CASE Kept(f, g) \/ g = f
    BY <2>0, <2>1 DEF Kept
  <2>2. ASSUME Rewritten(f, e, g), g.entry[e].seen <= top
        PROVE  \A x \in Entry : g.entry[x].seen <= lg[Of(x)]
    BY <1>1, <2>0, <2>2 DEF Rewritten
  <2>3. CASE m.t = "event" /\ HeardLive(f, c, m.n, g)
    <3>1. /\ Rewritten(f, e, g)
          /\ g.entry[e].seen = f.entry[e].seen \/ g.entry[e].seen = m.n
      BY <2>3 DEF HeardLive, IsDelivery
    <3>2. g.entry[e].seen <= top
      BY <1>1, <1>3, <2>0, <2>3, <3>1
    <3>. QED
      BY <2>2, <3>1, <3>2
  <2>4. CASE \E l \in Loop : HeardBack(f, c, m.n, l, g)
    <3>1. g.entry = f.entry
      BY <2>4 DEF HeardBack
    <3>. QED
      BY <2>0, <3>1
  <2>5. CASE \E l \in Loop : HeardUnknown(f, c, l, g)
    <3>1. Rewritten(f, e, g) /\ g.entry[e].seen = f.entry[e].seen
      BY <2>5 DEF HeardUnknown, HeardRead
    <3>. QED
      BY <1>1, <2>0, <2>2, <3>1
  <2>6. CASE m.t = "found"
             /\ \E l \in Loop : HeardFound(f, c, m.from, m.upto, l, g)
    <3>1. /\ Rewritten(f, e, g)
          /\ \/ g.entry[e].seen = f.entry[e].seen
             \/ g.entry[e].seen \in (m.from + 1)..m.upto
      BY <2>6 DEF HeardFound, HeardRead, IsDelivery
    <3>2. g.entry[e].seen <= top
      BY <1>1, <1>4, <2>0, <2>6, <3>1
    <3>. QED
      BY <2>2, <3>1, <3>2
  <2>. QED
    BY <2>1, <2>3, <2>4, <2>5, <2>6 DEF Hearing
<1>6. \A l \in Loop : g.loop[l].held \subseteq 1..lg[Of(l[1])]
  <2>0. \A l \in Loop : f.loop[l].held \subseteq 1..lg[Of(l[1])]
    BY <1>1 DEF Logged
  <2>1. CASE \A l \in Loop : g.loop[l].held = f.loop[l].held
    BY <2>0, <2>1
  <2>2. CASE m.t = "event" /\ \E l \in Loop : HeardBack(f, c, m.n, l, g)
    <3>1. PICK l \in Loop : HeardBack(f, c, m.n, l, g)
      BY <2>2
    <3>2. l[1] = e
      <4>1. EntryOwns(f, cs, e) /\ l # None /\ f.entry[e].holding = l
        BY <1>1, <3>1, LoopParts DEF HeardBack, Core, FleetInv, Owned
      <4>. QED
        BY <4>1 DEF EntryOwns
    <3>3. /\ g.loop[l].held = f.loop[l].held \cup {m.n}
          /\ \A x \in Loop : x # l => g.loop[x].held = f.loop[x].held
      BY <3>1 DEF HeardBack
    <3>4. m.n \in 1..lg[Of(l[1])]
      BY <1>1, <1>3, <2>2, <3>2
    <3>. QED
      BY <2>0, <3>3, <3>4
  <2>3. ASSUME NEW l \in Loop, HeardRead(f, c, l, g)
        PROVE  \A x \in Loop : g.loop[x].held = f.loop[x].held
    BY <2>3 DEF HeardRead
  <2>. QED
    BY <2>1, <2>2, <2>3, Zenon
       DEF Hearing, Kept, HeardLive, HeardFound, HeardUnknown
<1>. QED
  BY <1>2, <1>5, <1>6 DEF Logged

\* The first message on c is taken and heard.
LEMMA HeardCore ==
  ASSUME NEW f, NEW cs, NEW u, NEW n, NEW lg \in [Workspaces -> Nat],
         Core(f, cs, u, n, lg), NEW c \in Conns, NEW ds, Taken(cs, c, ds),
         NEW m, m = cs[c].inbox[1], m.t \notin {"welcome", "stopping"},
         NEW g, g = Heard(f, c, m)
  PROVE  Core(g, ds, u, n, lg)
<1>. DEFINE e == c[1]
<1>1. /\ u \in Updates /\ FleetInv(f, cs, u, n, {}) /\ Data(f, cs, lg)
      /\ Wires(ds, u, lg) /\ e \in Entry
      /\ \A x \in Conns : Alive(ds, x) <=> Alive(cs, x)
  BY TakenWires, ConnParts DEF Core
<1>2. /\ m \in Messages /\ Alive(cs, c)
      /\ m.t \in Answers => Answered(cs[c]) # {}
  <2>1. Sound(cs[c], lg[To(c)]) /\ lg[To(c)] \in Nat
    BY TakenWires
  <2>. QED
    BY <2>1, TakenSays
<1>3. m.t \in {"found", "unknown"} =>
        \E l \in Loop : f.loop[l].conn = c /\ f.loop[l].pc = "catchUp"
  BY <1>1, <1>2 DEF Answers, Data, Talk, Expected
<1>4. FleetInv(g, cs, u, n, {}) /\ Hearing(f, c, m, g)
  BY <1>1, <1>2, <1>3, HeardInv
<1>5. FleetInv(g, ds, u, n, {})
  BY <1>1, <1>4, SameAlive
<1>6. CASE m.t = "closing" /\ Kept(f, g)
  <2>1. Core(f, ds, u, n, lg)
    BY <1>6, TakenCore
  <2>. QED
    BY <1>1, <1>5, <1>6, <2>1, ClientKeeps
<1>7. CASE ~(m.t = "closing" /\ Kept(f, g))
  <2>1. Logged(g, ds, lg)
    BY <1>4, HeardLogged
  <2>2. ASSUME NEW l \in Loop, HeardRead(f, c, l, g), m.t \in Answers
        PROVE  \A x \in Loop : f.loop[x].conn # None =>
                 /\ g.loop[x].conn = f.loop[x].conn
                 /\ \/ g.loop[x].pc = f.loop[x].pc
                    \/ f.loop[x].conn = c /\ m.t \in Answers
    BY <2>2 DEF HeardRead
  <2>3. \A x \in Loop : f.loop[x].conn # None =>
          /\ g.loop[x].conn = f.loop[x].conn
          /\ \/ g.loop[x].pc = f.loop[x].pc
             \/ f.loop[x].conn = c /\ m.t \in Answers
    <3>1. CASE m.t = "event"
      <4>1. \A x \in Loop : /\ g.loop[x].conn = f.loop[x].conn
                            /\ g.loop[x].pc = f.loop[x].pc
        BY <1>4, <3>1, Zenon DEF Hearing, HeardLive, HeardBack
      <4>. QED
        BY <4>1
    <3>2. CASE m.t \in Answers
      <4>1. \E l \in Loop : HeardRead(f, c, l, g)
        BY <1>4, <1>7, <3>2, Zenon
           DEF Hearing, HeardUnknown, HeardFound, Answers
      <4>. QED
        BY <2>2, <3>2, <4>1
    <3>. QED
      BY <1>4, <1>7, <3>1, <3>2, Zenon DEF Hearing, Answers
  <2>4. Talk(g, ds)
    BY <2>3, TakenTalk
  <2>5. ASSUME NEW x \in Entry, ~g.entry[x].twice, ~g.entry[x].broken
        PROVE  Whole(g, ds, lg, x)
    <3>1. CASE m.t = "event" /\ c \notin f.wired /\ g = f
      BY <2>5, <3>1, WholeUnheard
    <3>2. CASE \/ m.t = "event" /\ HeardLive(f, c, m.n, g)
               \/ m.t = "event" /\ \E l \in Loop : HeardBack(f, c, m.n, l, g)
               \/ m.t = "unknown" /\ \E l \in Loop : HeardUnknown(f, c, l, g)
               \/ m.t = "found"
                    /\ \E l \in Loop : HeardFound(f, c, m.from, m.upto, l, g)
      <4>1. CASE x # e
        <5>1. Rewritten(f, e, g)
          BY <3>2, Zenon
             DEF HeardLive, HeardBack, HeardUnknown, HeardFound, HeardRead
        <5>2. g.wired = f.wired /\ g.entry[x] = f.entry[x]
          BY <4>1, <5>1 DEF Rewritten
        <5>3. \A l \in Loop : l[1] = x => g.loop[l] = f.loop[l]
          <6>1. CASE HeardLive(f, c, m.n, g)
            BY <6>1 DEF HeardLive
          <6>2. CASE \E l \in Loop : HeardBack(f, c, m.n, l, g)
            <7>1. PICK l \in Loop : HeardBack(f, c, m.n, l, g)
              BY <6>2
            <7>2. EntryOwns(f, cs, e) /\ l # None /\ f.entry[e].holding = l
              BY <1>1, <7>1, LoopParts, Zenon DEF HeardBack, FleetInv, Owned
            <7>3. l[1] = e
              BY <7>2 DEF EntryOwns
            <7>. QED
              BY <4>1, <7>1, <7>3 DEF HeardBack
          <6>3. CASE \E l \in Loop : HeardRead(f, c, l, g)
            BY <4>1, <6>3 DEF HeardRead
          <6>. QED
            BY <3>2, <6>1, <6>2, <6>3, Zenon DEF HeardUnknown, HeardFound
        <5>4. ~f.entry[x].twice /\ ~f.entry[x].broken
          BY <2>5, <5>2
        <5>. QED
          BY <4>1, <5>2, <5>3, <5>4, WholeElsewhere
      <4>2. CASE x = e
        <5>1. CASE m.t = "event" /\ HeardLive(f, c, m.n, g)
          <6>1. ~f.entry[e].twice /\ ~f.entry[e].broken
            BY <2>5, <4>2, <5>1, Zenon DEF HeardLive, IsDelivery
          <6>. QED
            BY <4>2, <5>1, <6>1, WholeLive
        <5>2. CASE m.t = "event" /\ \E l \in Loop : HeardBack(f, c, m.n, l, g)
          <6>1. ~f.entry[e].twice /\ ~f.entry[e].broken
            BY <2>5, <4>2, <5>2 DEF HeardBack
          <6>. QED
            BY <4>2, <5>2, <6>1, WholeBack
        <5>3. CASE \E l \in Loop : HeardUnknown(f, c, l, g)
          BY <2>5, <4>2, <5>3 DEF HeardUnknown
        <5>4. CASE m.t = "found"
                   /\ \E l \in Loop : HeardFound(f, c, m.from, m.upto, l, g)
          <6>1. ~f.entry[e].twice /\ ~f.entry[e].broken
            BY <2>5, <4>2, <5>4, Zenon DEF HeardFound, IsDelivery
          <6>. QED
            BY <4>2, <5>4, <6>1, WholeFound
        <5>. QED
          BY <3>2, <5>1, <5>2, <5>3, <5>4
      <4>. QED
        BY <4>1, <4>2
    <3>. QED
      BY <1>4, <1>7, <3>1, <3>2 DEF Hearing
  <2>. QED
    BY <1>1, <1>5, <2>1, <2>4, <2>5 DEF Core, Data, Wholes
<1>. QED
  BY <1>6, <1>7

LEMMA HearsInv ==
  ASSUME IInv, NEW c \in Conns, Hears(c)
  PROVE  IInv'
<1>. DEFINE m == Head(conn[c].inbox)
<1>1. /\ log' = log /\ loaded' = loaded /\ host' = host /\ faults' = faults
      /\ update' = update /\ m.t \notin {"welcome", "stopping"}
      /\ conn[c].inbox # <<>>
      /\ conn' = [conn EXCEPT ![c].inbox = Tail(@)]
      /\ fleet' = Heard(fleet, c, m)
  BY DEF Hears
<1>2. Taken(conn, c, conn') /\ m = conn[c].inbox[1]
  BY <1>1, CoreTypes, TakenIs
<1>3. Core(fleet', conn', update, faults, log)
  <2>1. Core(fleet, conn, update, faults, log) /\ log \in [Workspaces -> Nat]
    BY CoreTypes DEF IInv
  <2>. QED
    BY <1>1, <1>2, <2>1, HeardCore
<1>. QED
  BY <1>1, <1>3 DEF IInv, Shapes

----------------------------------------------------------------------------
(* The answer to a restart                                                 *)

LEMMA TailTwice ==
  ASSUME NEW S, NEW q \in Seq(S), Len(q) >= 2,
         NEW s, s = SubSeq(q, 2, Len(q)), s \in Seq(S), s # <<>>
  PROVE  SubSeq(s, 2, Len(s)) = SubSeq(q, 3, Len(q))
<1>1. 2 \in 1..Len(q) /\ Len(q) \in 2..Len(q)
  OBVIOUS
<1>2. Tail(s) = SubSeq(q, 2 + 1, Len(q))
  BY <1>1, HeadTailOfSubSeq
<1>3. Tail(s) = SubSeq(s, 2, Len(s))
  BY TailIsSubSeq
<1>. QED
  BY <1>2, <1>3

LEMMA StoppingTaken ==
  ASSUME NEW cs, NEW c \in Conns, NEW ds, Taken(cs, c, ds),
         NEW top \in Nat, Sound(cs[c], top)
  PROVE  /\ Sound(ds[c], top) /\ Welcomes(ds[c]) = {}
         /\ Restarting(ds[c]) => Restarting(cs[c])
         /\ cs[c].inbox[1].t = "stopping" =>
              Restarting(cs[c]) /\ ~Restarting(ds[c])
<1>. DEFINE m == cs[c].inbox[1]
            k == cs[c]
            d == ds[c]
<1>1. /\ Sound(d, top) /\ Welcomes(d) = {}
      /\ Restarting(d) => Restarting(k)
      /\ m.t = "stopping" => Restarting(k) /\ ~Restarting(d)
  BY TakenSays
<1>. QED
  BY <1>1

\* The answer is taken, with what came in one piece with it.
LEMMA AnswerTaken ==
  ASSUME IInv, NEW c \in Conns, conn[c].inbox # <<>>,
         Head(conn[c].inbox).t = "stopping",
         NEW k \in {1, 2}, k <= Len(conn[c].inbox),
         NEW f, f = IF k = 1 THEN fleet ELSE Heard(fleet, c, conn[c].inbox[2]),
         NEW cs, cs = [conn EXCEPT ![c].inbox = SubSeq(@, k + 1, Len(@))]
  PROVE  /\ Core(f, cs, update, faults, log)
         /\ update.pc = "asking" /\ \A x \in Conns : ~Restarting(cs[x])
<1>. DEFINE in == conn[c].inbox
            ds == [conn EXCEPT ![c].inbox = SubSeq(@, 2, Len(@))]
<1>1. /\ conn \in [Conns -> ConnRecords] /\ log \in [Workspaces -> Nat]
      /\ Core(fleet, conn, update, faults, log) /\ HostAsked(conn, update)
      /\ in \in Seq(Messages) /\ in # <<>>
      /\ Sound(conn[c], log[To(c)]) /\ log[To(c)] \in Nat
  BY CoreTypes, ConnTypes, Stays DEF IInv, Core, Wires
<1>2. Taken(conn, c, ds) /\ Head(in) = in[1]
  BY <1>1, TakenIs
<1>3. conn[c].inbox[1].t = "stopping"
  BY <1>2
<1>. HIDE DEF ds
<1>4. Core(fleet, ds, update, faults, log)
  BY <1>1, <1>2, <1>3, TakenCore
<1>5. Restarting(conn[c]) /\ ~Restarting(ds[c]) /\ Welcomes(ds[c]) = {}
  BY <1>1, <1>2, <1>3, StoppingTaken
<1>6. update.pc = "asking" /\ update.conn = c
  BY <1>1, <1>5 DEF HostAsked
<1>7. HostAsked(ds, update)
  BY <1>4 DEF Core, Wires
<1>8. \A x \in Conns : ~Restarting(ds[x])
  BY <1>5, <1>6, <1>7 DEF HostAsked
<1>9. CASE k = 1
  <2>1. cs = ds /\ f = fleet
    BY <1>9 DEF ds
  <2>. QED
    BY <1>4, <1>6, <1>8, <2>1
<1>10. CASE k = 2
  <2>. DEFINE s == ds[c].inbox
              m == in[2]
  <2>0. /\ ds[c] \in ConnRecords /\ Removed(conn[c], 1, ds[c])
        /\ ds \in [Conns -> ConnRecords]
    BY <1>2 DEF Taken
  <2>1. s = SubSeq(in, 2, Len(in)) /\ s \in Seq(Messages)
    BY <1>1, <2>0, ConnTypes DEF ds
  <2>2. /\ Len(s) = Len(in) - 1 /\ s # <<>> /\ 1 \in DOMAIN s /\ s[1] = m
        /\ SubSeq(s, 2, Len(s)) = SubSeq(in, 3, Len(in))
    <3>1. Len(in) \in Nat /\ Len(in) >= 2
      BY <1>1, <1>10
    <3>2. /\ Len(s) = Len(in) - 1
          /\ \A i \in 1..(Len(in) - 1) : s[i] = in[i + 1]
      BY <1>1, <2>1, <3>1
    <3>3. s # <<>> /\ 1 \in DOMAIN s /\ s[1] = m
      <4>1. Len(s) \in Nat /\ Len(s) >= 1 /\ 1 \in 1..(Len(in) - 1)
        BY <3>1, <3>2
      <4>2. DOMAIN s = 1..Len(s) /\ s[1] = in[1 + 1] /\ 1 + 1 = 2
        BY <2>1, <3>2, <4>1
      <4>. QED
        BY <4>1, <4>2
    <3>4. SubSeq(s, 2, Len(s)) = SubSeq(in, 3, Len(in))
      BY <1>1, <2>1, <3>1, <3>3, TailTwice
    <3>. QED
      BY <3>2, <3>3, <3>4
  <2>3. cs = [ds EXCEPT ![c].inbox = SubSeq(@, 2, Len(@))]
    <3>1. conn[c] \in ConnRecords
      BY <1>1
    <3>2. cs = [conn EXCEPT ![c] = [conn[c] EXCEPT !.inbox =
                                                     SubSeq(in, 3, Len(in))]]
      BY <1>1, <1>10
    <3>3. ds = [conn EXCEPT ![c] = [conn[c] EXCEPT !.inbox = s]]
      BY <1>1, <2>1 DEF ds
    <3>4. ds[c] = [conn[c] EXCEPT !.inbox = s]
      BY <1>1, <3>3
    <3>. DEFINE in3 == SubSeq(in, 3, Len(in))
    <3>5. SubSeq(ds[c].inbox, 2, Len(ds[c].inbox)) = in3
      BY <2>2
    <3>6. [ds EXCEPT ![c].inbox = SubSeq(@, 2, Len(@))]
            = [ds EXCEPT ![c] = [ds[c] EXCEPT !.inbox = in3]]
      BY <2>0, <3>5
    <3>. HIDE DEF in3
    <3>7. [ds[c] EXCEPT !.inbox = in3] = [conn[c] EXCEPT !.inbox = in3]
      BY <3>1, <3>4 DEF ConnRecords
    <3>8. [ds EXCEPT ![c] = [ds[c] EXCEPT !.inbox = in3]]
            = [conn EXCEPT ![c] = [conn[c] EXCEPT !.inbox = in3]]
      BY <1>1, <3>3, <3>7
    <3>. QED
      BY <3>2, <3>6, <3>8 DEF in3
  <2>4. Taken(ds, c, cs)
    BY <2>0, <2>2, <2>3, TakenIs
  <2>5. Sound(ds[c], log[To(c)])
    BY <1>1, <1>2, StoppingTaken
  <2>6. m.t \notin {"welcome", "stopping"}
    BY <1>5, <2>2 DEF Welcomes, Stoppings, Restarting
  <2>7. f = Heard(fleet, c, m)
    BY <1>10
  <2>8. Core(f, cs, update, faults, log)
    BY <1>1, <1>4, <2>2, <2>4, <2>6, <2>7, HeardCore
  <2>9. Restarting(cs[c]) => Restarting(ds[c])
    BY <1>1, <2>4, <2>5, StoppingTaken
  <2>10. \A x \in Conns : x # c => cs[x] = ds[x]
    BY <2>4 DEF Taken
  <2>. QED
    BY <1>6, <1>8, <2>8, <2>9, <2>10
<1>. QED
  BY <1>9, <1>10

LEMMA HearsShutdownInv ==
  ASSUME IInv, NEW c \in Conns, HearsShutdown(c)
  PROVE  IInv'
<1>. DEFINE in == conn[c].inbox
<1>1. /\ log' = log /\ loaded' = loaded /\ host' = host /\ faults' = faults
      /\ in # <<>> /\ Head(in).t = "stopping"
  BY DEF HearsShutdown
<1>2. PICK k \in 1..Min({2, Len(in)}) :
        \E f \in {IF k = 1 THEN fleet ELSE Heard(fleet, c, in[2])},
           cs \in {[conn EXCEPT ![c].inbox = SubSeq(@, k + 1, Len(@))]} :
          IF Head(in).yes THEN RestartAgreed(f, cs)
          ELSE update' = NoUpdate /\ conn' = cs /\ fleet' = Unmarked(f)
  BY DEF HearsShutdown
<1>3. k \in {1, 2} /\ k <= Len(in)
  <2>1. Len(in) \in Nat
    BY CoreTypes, ConnTypes
  <2>. DEFINE T == {2, Len(in)}
  <2>2. Bounded(T) /\ T # {}
    <3>1. T \subseteq Nat /\ \A x \in T : x <= 2 + Len(in)
      BY <2>1
    <3>. QED
      BY <2>1, <3>1 DEF Bounded
  <2>3. Min(T) \in T /\ \A y \in T : Min(T) <= y
    BY <2>2, Extremes
  <2>4. Min(T) \in Nat /\ Min(T) <= 2 /\ Min(T) <= Len(in)
    BY <2>1, <2>3
  <2>. QED
    BY <1>2, <2>1, <2>4
<1>4. PICK f, cs :
        /\ f = IF k = 1 THEN fleet ELSE Heard(fleet, c, in[2])
        /\ cs = [conn EXCEPT ![c].inbox = SubSeq(@, k + 1, Len(@))]
        /\ IF Head(in).yes THEN RestartAgreed(f, cs)
           ELSE update' = NoUpdate /\ conn' = cs /\ fleet' = Unmarked(f)
  BY <1>2
<1>5. /\ Core(f, cs, update, faults, log) /\ update.pc = "asking"
      /\ \A x \in Conns : ~Restarting(cs[x])
  BY <1>1, <1>3, <1>4, AnswerTaken
<1>6. /\ FleetInv(f, cs, update, faults, {}) /\ Data(f, cs, log)
      /\ Wires(cs, update, log) /\ update \in Updates
      /\ faults \in Nat /\ faults <= MaxFaults /\ f \in Fleets
      /\ log \in [Workspaces -> Nat]
  BY <1>5, Bounds, CoreTypes DEF Core, IInv, Shapes, FleetInv
<1>7. \A v : Wires(cs, v, log)
  BY <1>5, <1>6 DEF Wires, HostAsked
<1>8. CASE Head(in).yes
  <2>1. RestartAgreed(f, cs)
    BY <1>4, <1>8
  <2>2. \A l \in Loop : Bounded(f.loop[l].held)
    BY <1>6, HeldBounded
  <2>3. /\ FleetInv(fleet', conn', update', faults, {})
        /\ \E G, g : /\ Kept(f, g) /\ Went(g, G, fleet')
                     /\ G = {f.entry[e].conn : e \in Marked} \ {None}
                     /\ conn' = [x \in Conns |-> IF x \in G THEN Unused
                                                 ELSE cs[x]]
                     /\ \A x, y \in G : x[1] = y[1] => x = y
    BY <1>5, <1>6, <2>1, <2>2, RestartInv, Zenon
  <2>4. PICK G, g : /\ Kept(f, g) /\ Went(g, G, fleet')
                    /\ G = {f.entry[e].conn : e \in Marked} \ {None}
                    /\ conn' = [x \in Conns |-> IF x \in G THEN Unused
                                                ELSE cs[x]]
    BY <2>3
  <2>5. G \subseteq Conns
    <3>1. Marked \subseteq Entry
      BY <1>5, <1>6, UpdateTypes DEF Marked
    <3>2. \A e \in Entry : f.entry[e].conn \in Conns \cup {None}
      BY <1>6, FleetParts, EntryTypes
    <3>. QED
      BY <2>4, <3>1, <3>2
  <2>6. Data(g, cs, log) /\ Hands(g)
    BY <1>6, <2>4, KeptData, InvHands, KeptHands
  <2>7. AreClosed(cs, G, conn')
    BY <2>4 DEF AreClosed
  <2>8. Data(fleet', conn', log)
    BY <1>6, <2>4, <2>5, <2>6, <2>7, WentData
  <2>9. update' = [update EXCEPT !.pc = "redialling"]
    BY <2>1 DEF RestartAgreed
  <2>10. update' \in Updates /\ update'.pc = "redialling"
    <3>1. update \in [pc : {"asking", "redialling"}, entry : Entry,
                      peers : SUBSET Entry, conn : Conns]
      BY <1>5, <1>6, OffIs DEF Updates
    <3>. QED
      BY <2>9, <3>1 DEF Updates
  <2>11. Wires(conn', update', log)
    BY <1>7, <2>4, <2>10, ClosedWires
  <2>12. Core(fleet', conn', update', faults, log)
    BY <2>3, <2>8, <2>10, <2>11 DEF Core
  <2>. QED
    BY <1>1, <2>12 DEF IInv, Shapes
<1>9. CASE ~Head(in).yes
  <2>1. update' = NoUpdate /\ conn' = cs
        /\ fleet' = SetUpdating(f, MarkedBy(update), FALSE)
    BY <1>4, <1>9 DEF Unmarked, Marked, MarkedBy
  <2>2. \A l \in Loop : ~f.loop[l].window
    BY <1>5, <1>6 DEF FleetInv, Updated
  <2>3. update.pc # "off" /\ FALSE \in BOOLEAN
    BY <1>5
  <2>4. FleetInv(fleet', cs, NoUpdate, faults, {})
    BY <1>6, <2>1, <2>2, <2>3, ClearMarksInv
  <2>5. Kept(f, fleet')
    BY <1>6, <2>1, <2>3, MarksKeep
  <2>6. Data(fleet', cs, log)
    BY <1>6, <2>5, KeptData
  <2>7. Core(fleet', conn', update', faults, log)
    BY <1>7, <2>1, <2>4, <2>6, OffIs DEF Core
  <2>. QED
    BY <1>1, <2>7 DEF IInv, Shapes
<1>. QED
  BY <1>8, <1>9

----------------------------------------------------------------------------
(* The host is asked to restart                                            *)

\* On d a shutdown is asked for, and nothing else changed from k.
ShutdownAsked(k, d) ==
  /\ d \in ConnRecords /\ d.at = k.at /\ d.inbox = k.inbox
  /\ k.at = "open"
  /\ \A m : m \in d.asked <=> m \in k.asked \/ m = [t |-> "shutdown"]

LEMMA ShutdownSays ==
  ASSUME NEW k, NEW d, ShutdownAsked(k, d), NEW top, Sound(k, top),
         ~Restarting(k)
  PROVE  /\ Sound(d, top) /\ Welcomes(d) = Welcomes(k) /\ Asked(d) = Asked(k)
         /\ Answered(d) = Answered(k)
         /\ \A m : IsReading(d, m) <=> IsReading(k, m)
         /\ \A n : IsNext(d, top, n) <=> IsNext(k, top, n)
<1>. DEFINE s == [t |-> "shutdown"]
<1>1. s.t = "shutdown"
  OBVIOUS
<1>. HIDE DEF s
<1>2. /\ d.at = k.at /\ d.inbox = k.inbox /\ k.at = "open"
      /\ \A m : m \in d.asked <=> m \in k.asked \/ m = s
  BY DEF ShutdownAsked, s
<1>3. /\ Welcomes(d) = Welcomes(k) /\ Asked(d) = Asked(k)
      /\ Answered(d) = Answered(k) /\ Stoppings(d) = Stoppings(k)
  BY <1>1, <1>2 DEF Welcomes, Asked, Answered, Stoppings, Answers
<1>4. \A m : IsReading(d, m) <=> IsReading(k, m)
  BY <1>1, <1>2 DEF IsReading
<1>5. \A n : IsNext(d, top, n) <=> IsNext(k, top, n)
  BY <1>2 DEF IsNext
<1>6. Tidy(d)
  <2>1. Tidy(k) /\ Stoppings(k) = {}
    BY DEF Sound, Restarting
  <2>. QED
    BY <1>2, <1>3, <2>1 DEF Tidy
<1>7. Sound(d, top)
  <2>1. \A m \in d.asked : m.t = "found" => m.upto <= top
    BY <1>1, <1>2 DEF Sound
  <2>. QED
    BY <1>2, <1>6, <2>1 DEF Sound, ShutdownAsked
<1>. QED
  BY <1>3, <1>4, <1>5, <1>7

\* Whoever is asked over c, the client and what it is brought are the same.
LEMMA ShutdownCore ==
  ASSUME NEW f, NEW cs, NEW u, NEW n, NEW lg \in [Workspaces -> Nat],
         Core(f, cs, u, n, lg), NEW c \in Conns, u.pc = "asking", u.conn = c,
         \A x \in Conns : ~Restarting(cs[x]),
         NEW d, ShutdownAsked(cs[c], d),
         NEW ds, ds = [cs EXCEPT ![c] = d]
  PROVE  Core(f, ds, u, n, lg)
<1>1. /\ u \in Updates /\ FleetInv(f, cs, u, n, {}) /\ Data(f, cs, lg)
      /\ Wires(cs, u, lg) /\ cs \in [Conns -> ConnRecords]
  BY DEF Core, Wires
<1>2. /\ ds[c] = d /\ \A x \in Conns : x # c => ds[x] = cs[x]
      /\ ds \in [Conns -> ConnRecords]
  BY <1>1 DEF ShutdownAsked
<1>3. \A x \in Conns : Sound(cs[x], lg[To(x)])
  BY <1>1, AllSound
<1>4. /\ Sound(d, lg[To(c)]) /\ Welcomes(d) = Welcomes(cs[c])
      /\ Asked(d) = Asked(cs[c]) /\ Answered(d) = Answered(cs[c])
      /\ \A m : IsReading(d, m) <=> IsReading(cs[c], m)
      /\ \A y : IsNext(d, lg[To(c)], y) <=> IsNext(cs[c], lg[To(c)], y)
  BY <1>3, ShutdownSays
<1>5. ASSUME NEW x \in Conns
      PROVE  /\ Sound(ds[x], lg[To(x)]) /\ Welcomes(ds[x]) = Welcomes(cs[x])
             /\ Asked(ds[x]) = Asked(cs[x]) /\ Answered(ds[x]) = Answered(cs[x])
             /\ Alive(ds, x) <=> Alive(cs, x)
             /\ \A m : IsReading(ds[x], m) <=> IsReading(cs[x], m)
             /\ \A y : IsNext(ds[x], lg[To(x)], y)
                         <=> IsNext(cs[x], lg[To(x)], y)
  <2>1. CASE x = c
    BY <1>2, <1>4, <2>1 DEF ShutdownAsked, Alive
  <2>2. CASE x # c
    <3>1. ds[x] = cs[x]
      BY <1>2, <2>2
    <3>. QED
      BY <1>3, <3>1 DEF Alive
  <2>. QED
    BY <2>1, <2>2
<1>6. FleetInv(f, ds, u, n, {})
  BY <1>1, <1>5, SameAlive
<1>7. Talk(f, ds)
  BY <1>1, <1>5 DEF Data, Talk, Expected, Sound
<1>8. Logged(f, ds, lg)
  BY <1>1, <1>5 DEF Data, Logged, Sound
<1>9. Wires(ds, u, lg)
  <2>1. HostAsked(ds, u)
    BY <1>2 DEF HostAsked
  <2>2. Streamed(ds, lg)
    BY <1>5 DEF Streamed, Sound
  <2>. QED
    BY <1>2, <2>1, <2>2 DEF Wires
<1>10. ASSUME NEW e \in Entry, ~f.entry[e].twice, ~f.entry[e].broken
       PROVE  Whole(f, ds, lg, e)
  <2>1. Whole(f, cs, lg, e) /\ f \in Fleets /\ Owned(f, cs)
    BY <1>1, <1>10 DEF Data, Wholes, FleetInv
  <2>2. f.entry[e].conn # None =>
          f.entry[e].conn \in Conns /\ To(f.entry[e].conn) = Of(e)
    BY <2>1, OwnConn DEF To
  <2>3. ASSUME NEW l \in Loop, l[1] = e, f.loop[l].conn # None, Reading(f, l)
        PROVE  LoopWhole(f.entry[e], f.loop[l], ds[f.loop[l].conn], lg[Of(e)],
                         f.loop[l].conn \in f.wired)
    <3>1. LoopWhole(f.entry[e], f.loop[l], cs[f.loop[l].conn], lg[Of(e)],
                    f.loop[l].conn \in f.wired)
      BY <2>1, <2>3 DEF Whole
    <3>2. f.loop[l].conn \in Conns /\ To(f.loop[l].conn) = Of(e)
      <4>1. f.loop[l].conn \in Conns /\ LoopOwns(f, cs, l)
        BY <2>1, <2>3, LoopTypes, FleetParts DEF Owned
      <4>. QED
        BY <4>1, <2>3 DEF LoopOwns, To
    <3>. DEFINE k == cs[f.loop[l].conn]
                j == ds[f.loop[l].conn]
                top == lg[Of(e)]
    <3>3. /\ \A m : IsReading(j, m) <=> IsReading(k, m)
          /\ \A y : IsNext(j, top, y) <=> IsNext(k, top, y)
      BY <1>5, <3>2
    <3>. HIDE DEF j, k, top
    <3>4. ASSUME NEW r, NEW p, NEW wired, LoopWhole(r, p, k, top, wired)
          PROVE  LoopWhole(r, p, j, top, wired)
      BY <3>3, <3>4 DEF LoopWhole, Covers
    <3>. QED
      BY <3>1, <3>4 DEF j, k, top
  <2>. QED
    BY <1>5, <2>1, <2>2, <2>3 DEF Whole
<1>. QED
  BY <1>1, <1>6, <1>7, <1>8, <1>9, <1>10 DEF Core, Data, Wholes

LEMMA AsksRestartInv ==
  ASSUME IInv, NEW w \in Workspaces, AsksRestart(w)
  PROVE  IInv'
<1>. DEFINE f == fleet
            e == f.listed[w]
            c == f.entry[e].conn
            es == ListedEntries
<1>1. /\ log' = log /\ loaded' = loaded /\ host' = host /\ e # None
      /\ update.pc = "off" /\ Fault
      /\ faults' = faults + 1 /\ faults' \in 0..MaxFaults
  BY FaultShapes, Zenon DEF AsksRestart
<1>2. /\ FleetInv(f, conn, update, faults, {}) /\ f \in Fleets
      /\ Owned(f, conn) /\ update = NoUpdate /\ faults \in Nat
      /\ log \in [Workspaces -> Nat] /\ conn \in [Conns -> ConnRecords]
      /\ Core(f, conn, update, faults, log)
  BY <1>1, CoreTypes DEF IInv, Core, FleetInv, Updates
<1>3. /\ es \in SUBSET Entry /\ e \in es /\ e \in Entry
      /\ \A d \in es : Used(f, d)
  <2>1. \A v \in Workspaces : f.listed[v] \in Entry \cup {None}
    BY <1>2, FleetParts
  <2>2. \A v \in Workspaces : f.listed[v] # None => Used(f, f.listed[v])
    BY <1>2 DEF Owned
  <2>. QED
    BY <1>1, <2>1, <2>2 DEF ListedEntries
<1>. HIDE DEF es
<1>4. c \in Conns \cup {None}
  BY <1>2, <1>3, FleetParts, EntryTypes
<1>5. \A x \in Conns : ~Restarting(conn[x])
  BY <1>1, <1>2 DEF Core, Wires, HostAsked
<1>6. CASE c = None
  <2>. DEFINE g == SetUpdating(f, es, FALSE)
  <2>1. fleet' = Reconnect(g, e) /\ conn' = conn /\ update' = update
    BY <1>6 DEF AsksRestart, es
  <2>2. MarksSet(f, es, FALSE, g) /\ Kept(f, g)
    <3>1. FALSE \in BOOLEAN /\ g = SetUpdating(f, es, FALSE)
      OBVIOUS
    <3>. HIDE DEF g
    <3>. QED
      BY <1>2, <3>1, SetUpdatingDoes, MarksKeep
  <2>. HIDE DEF g
  <2>3. \A d \in Entry : f.entry[d].updating = FALSE
    <3>1. \A d \in Entry : f.entry[d].updating \in BOOLEAN
      BY <1>2, FleetParts, EntryTypes
    <3>2. \A d \in Entry : ~f.entry[d].updating
      BY <1>1, <1>2 DEF FleetInv, Watched, EntryWatched
    <3>. QED
      BY <3>1, <3>2
  <2>4. \A d \in Entry : g.entry[d] = f.entry[d]
    BY <2>2, <2>3 DEF MarksSet
  <2>5. FleetInv(g, conn, update, faults, {})
    <3>1. /\ g \in Fleets /\ g.made = f.made /\ g.listed = f.listed
          /\ g.loop = f.loop /\ g.wired = f.wired
      BY <2>2 DEF MarksSet
    <3>. QED
      BY <1>2, <2>4, <3>1, Ghosts
  <2>6. FleetInv(g, conn, update, faults + 1, {})
    BY <1>2, <2>5, MoreFaults
  <2>7. faults + 1 \in Nat /\ faults + 1 <= MaxFaults /\ update.pc # "asking"
    BY <1>1, <1>2, FaultShapes
  <2>8. Used(g, e) /\ g.entry[e].conn = None
    BY <1>3, <1>6, <2>2, <2>4 DEF MarksSet, Used
  <2>9. FleetInv(fleet', conn, update, faults + 1, {}) /\ Kept(g, fleet')
    <3>1. /\ {} \subseteq {} /\ \A x \in {} \ {} : x[1] = e
          /\ g.entry[e].conn \in {} \cup {None}
      BY <2>8
    <3>. QED
      BY <1>3, <2>1, <2>6, <2>7, <2>8, <3>1, ReconnectInv
  <2>10. Kept(f, fleet')
    BY <2>2, <2>9, KeptTrans
  <2>11. Core(fleet', conn, update, faults + 1, log)
    BY <1>2, <2>9, <2>10, CoreTypes, ClientKeeps
  <2>. QED
    BY <1>1, <2>1, <2>11 DEF IInv, Shapes
<1>7. CASE c # None
  <2>. DEFINE u == [pc |-> "asking", entry |-> e, peers |-> es \ {e},
                    conn |-> c]
  <2>1. /\ fleet' = SetUpdating(f, es, TRUE) /\ update' = u
        /\ conn' = IF Open(c)
                   THEN [conn EXCEPT ![c].asked =
                                       @ \cup {[t |-> "shutdown"]}]
                   ELSE conn
    BY <1>7, Zenon DEF AsksRestart, es
  <2>2. /\ u \in Updates /\ u.pc = "asking" /\ u.conn = c /\ u.entry = e
        /\ u.entry \notin u.peers /\ MarkedBy(u) = es /\ c \in Conns
    BY <1>3, <1>4, <1>7 DEF Updates, MarkedBy
  <2>. HIDE DEF u
  <2>3. FleetInv(fleet', conn, u, faults + 1, {})
    BY <1>2, <1>3, <2>1, <2>2, SetMarksInv, Zenon
  <2>4. Kept(f, fleet')
    <3>1. TRUE \in BOOLEAN
      OBVIOUS
    <3>. QED
      BY <1>2, <2>1, <3>1, MarksKeep, Zenon
  <2>5. Core(fleet', conn, u, faults + 1, log)
    BY <1>1, <1>2, <2>2, <2>3, <2>4, ClientKeeps
  <2>6. Core(fleet', conn', u, faults + 1, log)
    <3>1. CASE ~Open(c)
      BY <2>1, <2>5, <3>1
    <3>2. CASE Open(c)
      <4>. DEFINE s == [t |-> "shutdown"]
                  d == [conn[c] EXCEPT !.asked = @ \cup {s}]
      <4>1. conn' = [conn EXCEPT ![c] = d]
        BY <1>2, <2>1, <2>2, <3>2, Zenon
      <4>2. s \in Asks
        BY DEF Asks
      <4>. HIDE DEF s
      <4>3. conn[c] \in ConnRecords
        BY <1>2, <2>2
      <4>4. /\ d \in ConnRecords /\ d.at = conn[c].at
            /\ d.inbox = conn[c].inbox /\ d.asked = conn[c].asked \cup {s}
        BY <4>2, <4>3, Zenon DEF ConnRecords
      <4>. HIDE DEF d
      <4>5. ShutdownAsked(conn[c], d)
        BY <3>2, <4>4, Zenon DEF ShutdownAsked, Open, s
      <4>. QED
        BY <1>2, <1>5, <2>2, <2>5, <4>1, <4>5, ShutdownCore, Zenon
    <3>. QED
      BY <3>1, <3>2
  <2>. QED
    BY <1>1, <2>1, <2>6, Zenon DEF IInv, Shapes
<1>. QED
  BY <1>4, <1>6, <1>7

----------------------------------------------------------------------------
(* The invariant                                                           *)

\* Nobody has attached, and nothing is connected.
LEMMA FirstFleet ==
  ASSUME Init
  PROVE  /\ FleetInv(fleet, conn, NoUpdate, 0, {})
         /\ fleet.wired = {} /\ \A w \in Workspaces : fleet.listed[w] = None
         /\ \A e \in Entry : fleet.entry[e] = NewEntry
         /\ \A l \in Loop : fleet.loop[l] = IdleLoop
<1>. DEFINE f == fleet
            en == [e \in Entry |-> NewEntry]
            lp == [l \in Loop |-> IdleLoop]
            li == [w \in Workspaces |-> None]
            ma == [w \in Workspaces |-> 0]
<1>1. f = [listed |-> li, made |-> ma, entry |-> en, wired |-> {}, loop |-> lp]
      /\ conn = [c \in Conns |-> Unused]
  BY DEF Init
<1>2. /\ en \in [Entry -> EntryRecords] /\ lp \in [Loop -> LoopRecords]
      /\ li \in [Workspaces -> Entry \cup {None}]
      /\ ma \in [Workspaces -> Nat]
  BY FreshRecords
<1>3. /\ \A w \in Workspaces : li[w] = None /\ ma[w] = 0
      /\ \A e \in Entry : en[e] = NewEntry
      /\ \A l \in Loop : lp[l] = IdleLoop
  OBVIOUS
<1>. HIDE DEF en, lp, li, ma
<1>4. f \in Fleets
  BY <1>1, <1>2 DEF Fleets
<1>5. /\ f.wired = {} /\ \A w \in Workspaces : f.listed[w] = None
      /\ \A w \in Workspaces : f.made[w] = 0
      /\ \A e \in Entry : f.entry[e] = NewEntry
      /\ \A l \in Loop : f.loop[l] = IdleLoop
  BY <1>1, <1>3
<1>. HIDE DEF f
<1>6. \A c \in Conns : ~Alive(conn, c)
  BY <1>1, UnusedSays DEF Alive
<1>7. Owned(f, conn)
  <2>1. \A e \in Entry : ~Used(f, e)
    BY <1>5, EntryParts DEF Used
  <2>2. \A e \in Entry : Untouched(f, conn, e) /\ EntryOwns(f, conn, e)
    BY <1>5, <1>6, FreshRecords DEF Untouched, EntryOwns
  <2>3. \A l \in Loop : LoopOwns(f, conn, l) /\ f.loop[l].conn = None
    BY <1>5, FreshRecords DEF LoopOwns
  <2>. QED
    BY <1>5, <2>1, <2>2, <2>3 DEF Owned
<1>8. Updated(f, conn, NoUpdate)
  BY <1>5, OffTypes, FreshRecords DEF Updated
<1>9. Watched(f, NoUpdate, {})
  <2>. SUFFICES ASSUME NEW e \in Entry PROVE EntryWatched(f, NoUpdate, {}, e)
    BY DEF Watched
  <2>1. f.listed[Of(e)] # e
    BY <1>5, EntryParts
  <2>. QED
    BY <1>5, <2>1, OffTypes, FreshRecords DEF EntryWatched
<1>10. Counted(f, NoUpdate, 0)
  <2>. SUFFICES ASSUME NEW e \in Entry PROVE EntryCounted(f, NoUpdate, 0, e)
    BY DEF Counted
  <2>1. DialsOf(f, e) = {}
    BY <1>5, LoopIs, FreshRecords DEF DialsOf, Dialling
  <2>2. Cardinality(DialsOf(f, e)) = 0
    BY <2>1, FS_EmptySet
  <2>3. One(Due(NoUpdate, e)) = 0
    BY OffTypes DEF One, Due
  <2>4. One(f.entry[e].link = "connected") \in {0, 1}
    BY OneIs
  <2>. QED
    BY <2>2, <2>3, <2>4 DEF EntryCounted
<1>11. Singles(f, NoUpdate, {})
  <2>. SUFFICES ASSUME NEW e \in Entry PROVE Single(f, NoUpdate, {}, e)
    BY DEF Singles
  <2>1. \A l \in Loop : ~Dialling(f, l) /\ ~Reading(f, l)
    BY <1>5, FreshRecords DEF Dialling, Reading
  <2>. QED
    BY <1>5, <2>1, OffTypes, FreshRecords DEF Single
<1>12. FleetInv(f, conn, NoUpdate, 0, {})
  BY <1>4, <1>7, <1>8, <1>9, <1>10, <1>11 DEF FleetInv
<1>. QED
  BY <1>5, <1>12 DEF f

LEMMA InitInv ==
  ASSUME Init
  PROVE  IInv
<1>1. /\ FleetInv(fleet, conn, NoUpdate, 0, {})
      /\ fleet.wired = {} /\ \A w \in Workspaces : fleet.listed[w] = None
      /\ \A e \in Entry : fleet.entry[e] = NewEntry
      /\ \A l \in Loop : fleet.loop[l] = IdleLoop
  BY FirstFleet
<1>2. /\ log = [w \in Workspaces |-> 0] /\ loaded = Sessions /\ host = "up"
      /\ conn = [c \in Conns |-> Unused] /\ update = NoUpdate /\ faults = 0
  BY DEF Init
<1>3. Shapes
  BY <1>2, Bounds, FleetAssumption DEF Shapes
<1>4. Talk(fleet, conn)
  BY <1>2, UnusedSays DEF Talk, Expected
<1>5. Logged(fleet, conn, log)
  <2>1. \A e \in Entry : fleet.entry[e].seen <= log[Of(e)]
    BY <1>1, <1>2, EntryParts, FreshRecords
  <2>2. \A l \in Loop : fleet.loop[l].held = {}
    BY <1>1, FreshRecords
  <2>3. \A c \in Conns : conn[c].inbox = <<>> /\ conn[c].asked = {}
    BY <1>2, UnusedSays
  <2>. QED
    BY <2>1, <2>2, <2>3 DEF Logged
<1>6. Wholes(fleet, conn, log)
  <2>1. \A l \in Loop : ~Reading(fleet, l)
    BY <1>1, FreshRecords DEF Reading
  <2>. QED
    BY <1>1, <2>1, FreshRecords DEF Wholes, Whole
<1>7. Wires(conn, NoUpdate, log)
  <2>1. \A c \in Conns : conn[c].inbox = <<>> /\ conn[c].at # "open"
                         /\ ~Restarting(conn[c])
    BY <1>2, UnusedSays
  <2>2. Streamed(conn, log)
    BY <2>1 DEF Streamed, InStream
  <2>. QED
    BY <1>2, <2>1, <2>2, UnusedIs DEF Wires, HostAsked
<1>8. Core(fleet, conn, update, faults, log)
  BY <1>1, <1>2, <1>4, <1>5, <1>6, <1>7, OffTypes DEF Core, Data
<1>. QED
  BY <1>3, <1>8 DEF IInv

LEMMA NextInv ==
  ASSUME IInv, [Next]_vars
  PROVE  IInv'
<1>1. CASE HostAnswers
  BY <1>1, LeavesInv, ReadsInv, RepliesInv, AnswersShutdownInv
  DEF HostAnswers, InUse
<1>2. CASE ClientHears
  BY <1>2, HearsInv, HearsShutdownInv, ClosedInv DEF ClientHears, InUse
<1>3. CASE Redials
  BY <1>3, StopsInv, DialsInv, AdoptsInv, FinishesInv DEF Redials, Running
<1>4. CASE Environment
  <2>1. CASE \E w \in Workspaces : \/ Appends(w) \/ Resumes(w)
                                   \/ Attach(w) \/ Detach(w) \/ AsksRestart(w)
    BY <2>1, AppendsInv, SmallHostInv, AttachInv, DetachInv, AsksRestartInv
  <2>2. CASE \E l \in Running : GivesUp(l) \/ FindsAnother(l)
    BY <2>2, StopsInv, FindsAnotherInv DEF Running
  <2>3. CASE (\E c \in InUse : Drops(c)) \/ AgreesToLeave \/ Dies
    BY <2>3, DropsInv, SmallHostInv, DiesInv DEF InUse
  <2>. QED
    BY <1>4, <2>1, <2>2, <2>3 DEF Environment
<1>5. CASE UNCHANGED vars
  BY <1>5 DEF vars, IInv, Shapes
<1>. QED
  BY <1>1, <1>2, <1>3, <1>4, <1>5 DEF Next

\* The client, its connections and the log always agree as IInv says: whoever
\* waits for an answer is there, an entry has one loop unless it was dialled
\* twice, and what is read, held back and still to come leaves no hole.
THEOREM Invariance == Spec => []IInv
<1>1. Init => IInv
  BY InitInv
<1>2. IInv /\ [Next]_vars => IInv'
  BY NextInv
<1>. QED
  BY <1>1, <1>2, PTL DEF Spec

\* Every variable has its values, and what is wired is a connection that is
\* alive: the handlers are taken off before a connection is let go.
THEOREM TypeCorrect == Spec => []TypeOK
<1>1. IInv => TypeOK
  <2>. SUFFICES ASSUME IInv PROVE TypeOK
    OBVIOUS
  <2>1. /\ fleet \in Fleets /\ Owned(fleet, conn) /\ update \in Updates
        /\ conn \in [Conns -> ConnRecords]
    BY CoreTypes DEF IInv, Core, FleetInv
  <2>2. /\ \A w \in Workspaces : log[w] \in 0..LogLimit[w]
        /\ loaded \subseteq Sessions /\ host \in {"up", "leaving", "down"}
        /\ faults \in 0..MaxFaults
    BY FleetAssumption DEF IInv, Shapes
  <2>3. \A c \in Conns : /\ conn[c].at \in {"unused", "open", "cut"}
                         /\ conn[c].at = "unused" => c \notin fleet.wired
    BY <2>1, ConnTypes DEF Owned, Alive
  <2>4. /\ \A w \in Workspaces : fleet.listed[w] \in Entry \cup {None}
        /\ \A e \in Entry : fleet.entry[e] \in EntryRecords
        /\ \A l \in Loop : fleet.loop[l] \in LoopRecords
    BY <2>1, FleetParts
  <2>5. update.pc \in {"off", "asking", "redialling"}
    BY <2>1, UpdateTypes
  <2>. QED
    BY <2>2, <2>3, <2>4, <2>5 DEF TypeOK
<1>. QED
  BY <1>1, Invariance, PTL

\* "asking for everything after the last one seen loses nothing": whatever is
\* dropped, read again, held back or heard late, what an entry delivers has no
\* hole, unless a catch-up of it failed or two loops dialled it.
THEOREM NothingIsLost == Spec => []NothingLost
<1>1. IInv => NothingLost
  BY DEF IInv, Core, Data, Wholes, Whole, NothingLost
<1>. QED
  BY <1>1, Invariance, PTL

\* "connected" is never said of a connection that is gone: the entry that says
\* so is wired to one whose end it will hear of, however often links drop, loops
\* race and restarts are asked for, refused and agreed to.
THEOREM ConnectedAreWatched == Spec => []ConnectedIsWatched
<1>1. IInv => ConnectedIsWatched
  <2>. SUFFICES ASSUME IInv, NEW w \in Workspaces, fleet.listed[w] # None
                PROVE  LET r == fleet.entry[fleet.listed[w]]
                       IN  r.link = "connected" /\ ~r.updating /\ ~r.deaf =>
                             r.conn # None /\ r.conn \in fleet.wired
    BY DEF ConnectedIsWatched
  <2>1. /\ fleet \in Fleets /\ Owned(fleet, conn) /\ Watched(fleet, update, {})
    BY DEF IInv, Core, FleetInv
  <2>2. fleet.listed[w] \in Entry /\ Of(fleet.listed[w]) = w
    BY <2>1, FleetParts DEF Owned
  <2>. QED
    BY <2>1, <2>2 DEF Watched, EntryWatched
<1>. QED
  BY <1>1, Invariance, PTL
=============================================================================
