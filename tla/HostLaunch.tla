----------------------------- MODULE HostLaunch -----------------------------
(***************************************************************************)
(* How one machine comes to have one session host: connectOrSpawn.ts (a    *)
(* client finds the host, or starts one), hostMain.ts (the host asks, says *)
(* who it is in the record of the machine, and binds), socketChannel.ts    *)
(* (what it does about a socket file that is in the way), discovery.ts     *)
(* (the record) and the end of sessionServer.ts (a host that leaves).      *)
(*                                                                         *)
(* A host is started once; a process started later is another host.  All   *)
(* hosts of the machine bind the same path.  A connection through the path *)
(* reaches the host that bound the file, if it still listens.              *)
(***************************************************************************)
EXTENDS Naturals, FiniteSets

CONSTANTS Hosts, Clients, None,
          MaxCrashes  \* bound: hosts that are killed

ASSUME LaunchAssumption == None \notin Hosts /\ MaxCrashes \in Nat

VARIABLES
  path,      \* the host that bound the socket file, None if there is no file
  record,    \* the host that the record of the machine names, None if none
  host,      \* where each host is, and what it saw
  client,    \* where each client is, the host it talks to, has it spawned one
  stolen,    \* for the properties: a live socket was removed as debris
  clobbered, \* for the properties: the record of a live host was removed
  crashes    \* bound

vars == <<path, record, host, client, stolen, clobbered, crashes>>

Init == /\ path = None
        /\ record = None
        /\ host = [h \in Hosts |-> [pc |-> "off", door |-> FALSE,
                                    debris |-> FALSE, mine |-> FALSE]]
        /\ client = [c \in Clients |-> [pc |-> "idle", at |-> None,
                                        spawned |-> FALSE]]
        /\ stolen = FALSE /\ clobbered = FALSE
        /\ crashes = 0

At(h, pcs) == host[h].pc \in pcs
Moves(h, pc) == host' = [host EXCEPT ![h].pc = pc]
Goes(c, pc) == client' = [client EXCEPT ![c].pc = pc]

\* socketAnswers: somebody accepts connections there.
Answers == path # None /\ host[path].door

----------------------------------------------------------------------------
(* A host starts                                                           *)

\* Before anything is written; if somebody answers, it throws and is gone.
Asks(h) ==
  /\ At(h, {"asks"})
  /\ Moves(h, IF Answers THEN "gone" ELSE "writes")
  /\ UNCHANGED <<path, record, client, stolen, clobbered, crashes>>

\* writeRecords, before the bind.
WritesRecord(h) ==
  /\ At(h, {"writes"})
  /\ record' = h
  /\ Moves(h, "binds")
  /\ UNCHANGED <<path, client, stolen, clobbered, crashes>>

\* listenOnce.  The first time, a file in the way is looked at; after it was
\* removed, a file that is there again is an error.
Binds(h) ==
  /\ At(h, {"binds", "rebinds"})
  /\ IF path = None
     THEN /\ path' = h
          /\ host' = [host EXCEPT ![h].pc = "up", ![h].door = TRUE]
     ELSE /\ UNCHANGED path
          /\ Moves(h, IF At(h, {"binds"}) THEN "inUse" ELSE "clears")
  /\ UNCHANGED <<record, client, stolen, clobbered, crashes>>

\* Mutant: whatever is in the way is debris.
TakesAll(h) == TRUE

\* The file is left from a host that died: nobody answers there.
IsDebris(h) == ~Answers

AsksAgain(h) ==
  /\ At(h, {"inUse"})
  /\ host' = [host EXCEPT ![h].pc = IF IsDebris(h) THEN "unlinks" ELSE "clears",
                          ![h].debris = ~Answers]
  /\ UNCHANGED <<path, record, client, stolen, clobbered, crashes>>

\* unlinkSync: an error if the file is gone by now.
Unlinks(h) ==
  /\ At(h, {"unlinks"})
  /\ path' = None
  /\ Moves(h, IF path = None THEN "clears" ELSE "rebinds")
  /\ stolen' = (stolen \/ (Answers /\ host[h].debris))
  /\ UNCHANGED <<record, client, clobbered, crashes>>

----------------------------------------------------------------------------
(* A host ends                                                             *)

\* A shutdown is agreed to, or the idle timer has run: no new client is taken.
Leaves(h) ==
  /\ At(h, {"up"})
  /\ Moves(h, "leaving")
  /\ UNCHANGED <<path, record, client, stolen, clobbered, crashes>>

\* listener.close(): the file is unlinked by its name, whoever bound it.
ShutsDoor(h) ==
  /\ At(h, {"leaving"}) /\ host[h].door
  /\ host' = [host EXCEPT ![h].door = FALSE]
  /\ path' = None
  /\ UNCHANGED <<record, client, stolen, clobbered, crashes>>

\* Mutant: the listener is closed after the teardown.
StopsFirst(h) ==
  /\ At(h, {"leaving"})
  /\ Moves(h, "clears")
  /\ UNCHANGED <<path, record, client, stolen, clobbered, crashes>>

\* stop: the clients are dropped, then the records are cleared.
Stops(h) ==
  /\ At(h, {"leaving"}) /\ ~host[h].door
  /\ Moves(h, "clears")
  /\ UNCHANGED <<path, record, client, stolen, clobbered, crashes>>

\* Mutant: the record is cleared whoever it names.
ClearsAny(h) == record # None

\* clearIfOurs: the record is read ...
IsOurs(h) == record = h

Reads(h) ==
  /\ At(h, {"clears"})
  /\ host' = [host EXCEPT ![h].pc = IF IsOurs(h) THEN "removes" ELSE "gone",
                          ![h].mine = record = h]
  /\ UNCHANGED <<path, record, client, stolen, clobbered, crashes>>

\* Hosts that have written the record and may yet serve.
Claims(h) == At(h, {"binds", "inUse", "unlinks", "rebinds", "up"})

\* ... and removed, and the process ends.  Two ways to take away what another
\* host needs: the record was replaced since it was read, or this host itself
\* had replaced the record of one that lives.
Removes(h) ==
  /\ At(h, {"removes"})
  /\ record' = None
  /\ Moves(h, "gone")
  /\ clobbered' = (clobbered \/ /\ host[h].mine
                                /\ \E g \in Hosts : Claims(g))
  /\ UNCHANGED <<path, client, stolen, crashes>>

\* Killed: its socket file and its record stay.
Crashes(h) ==
  /\ crashes < MaxCrashes
  /\ ~At(h, {"off", "gone"})
  /\ host' = [host EXCEPT ![h].pc = "gone", ![h].door = FALSE]
  /\ crashes' = crashes + 1
  /\ UNCHANGED <<path, record, client, stolen, clobbered>>

----------------------------------------------------------------------------
(* A client: connectOrSpawnHost                                            *)

Calls(c) ==
  /\ client[c].pc = "idle"
  /\ client' = [client EXCEPT ![c] = [pc |-> "probe", at |-> None,
                                      spawned |-> FALSE]]
  /\ UNCHANGED <<path, record, host, stolen, clobbered, crashes>>

\* The connect of probeHost.  Nothing answers: a record is looked for, once;
\* after that it probes again.
Probes(c) ==
  /\ client[c].pc = "probe"
  /\ client' = [client EXCEPT
       ![c].pc = CASE Answers -> "hello"
                   [] ~Answers /\ client[c].spawned -> "probe"
                   [] OTHER -> "empty",
       ![c].at = IF Answers THEN path ELSE None]
  /\ UNCHANGED <<path, record, host, stolen, clobbered, crashes>>

\* accept: a host that leaves closes the channel, and the probe is made again.
Accepts(c) ==
  /\ client[c].pc = "hello"
  /\ Goes(c, IF At(client[c].at, {"up"}) THEN "binding" ELSE "probe")
  /\ UNCHANGED <<path, record, host, stolen, clobbered, crashes>>

\* The folder is bound and the client welcomed, if the process is still there;
\* it may have agreed to leave in between.
Welcomes(c) ==
  /\ client[c].pc = "binding"
  /\ Goes(c, IF At(client[c].at, {"up", "leaving"}) THEN "served" ELSE "probe")
  /\ UNCHANGED <<path, record, host, stolen, clobbered, crashes>>

\* The host will not serve this client, or a deadline has passed: it throws.
GivesUp(c) ==
  /\ \/ client[c].pc = "binding"
     \/ client[c].pc = "probe" /\ client[c].spawned /\ ~Answers
     \/ client[c].pc = "hello" /\ ~At(client[c].at, {"up"})
  /\ Goes(c, "idle")
  /\ UNCHANGED <<path, record, host, stolen, clobbered, crashes>>

\* spawnDetached: a process that was not there before.
Spawns(c) ==
  \E h \in Hosts :
    /\ At(h, {"off"})
    /\ Moves(h, "asks")
    /\ client' = [client EXCEPT ![c].pc = "probe", ![c].spawned = TRUE]

\* Nothing answered a moment ago.  Without a record the host is spawned ...
FindsNoRecord(c) ==
  /\ client[c].pc = "empty" /\ record = None
  /\ Spawns(c)
  /\ UNCHANGED <<path, record, stolen, clobbered, crashes>>

FindsRecord(c) ==
  /\ client[c].pc = "empty" /\ record # None
  /\ Goes(c, "stale")
  /\ UNCHANGED <<path, record, host, stolen, clobbered, crashes>>

\* ... and with one, the record is cleared before, whoever it names by now.
ClearsStale(c) ==
  /\ client[c].pc = "stale"
  /\ record' = None
  /\ Spawns(c)
  /\ clobbered' = (clobbered \/ \E h \in Hosts : Claims(h))
  /\ UNCHANGED <<path, stolen, crashes>>

\* The connection is lost, or let go: it may call again.
Ends(c) ==
  /\ client[c].pc = "served"
  /\ Goes(c, "idle")
  /\ UNCHANGED <<path, record, host, stolen, clobbered, crashes>>

----------------------------------------------------------------------------
Next == \/ \E h \in Hosts : \/ Asks(h) \/ WritesRecord(h) \/ Binds(h)
                            \/ AsksAgain(h) \/ Unlinks(h)
                            \/ Leaves(h) \/ ShutsDoor(h) \/ Stops(h)
                            \/ Reads(h) \/ Removes(h) \/ Crashes(h)
        \/ \E c \in Clients : \/ Calls(c) \/ Probes(c) \/ Accepts(c)
                              \/ Welcomes(c) \/ GivesUp(c) \/ Ends(c)
                              \/ FindsNoRecord(c) \/ FindsRecord(c)
                              \/ ClearsStale(c)

Spec == Init /\ [][Next]_vars

----------------------------------------------------------------------------
HostStates == {"off", "asks", "writes", "binds", "inUse", "unlinks", "rebinds",
               "up", "leaving", "clears", "removes", "gone"}
ClientStates == {"idle", "probe", "hello", "binding", "served", "empty", "stale"}

\* The values of each variable; only a process that serves keeps its door open.
TypeOK ==
  /\ path \in Hosts \cup {None}
  /\ record \in Hosts \cup {None}
  /\ host \in [Hosts -> [pc : HostStates, door : BOOLEAN,
                         debris : BOOLEAN, mine : BOOLEAN]]
  /\ client \in [Clients -> [pc : ClientStates, at : Hosts \cup {None},
                             spawned : BOOLEAN]]
  /\ stolen \in BOOLEAN /\ clobbered \in BOOLEAN
  /\ crashes \in 0..MaxCrashes
  /\ \A h \in Hosts : host[h].door => At(h, {"up", "leaving"})

\* "One host per machine owns every workspace open on it": two hosts never serve
\* at once, except where one found the socket of a dead host in the way and
\* another had bound the path again before the first removed it.
OneHost ==
  ~stolen => \A g, h \in Hosts : At(g, {"up"}) /\ At(h, {"up"}) => g = h

\* "A machine live with nothing on disk saying so" is what clearIfOurs is there
\* to prevent: while a host serves there is a record, except where a record was
\* removed that had been replaced since it was looked at, or that had itself
\* replaced the record of the host that won.
LiveHostIsRecorded ==
  (\E h \in Hosts : At(h, {"up"})) => record # None \/ clobbered
=============================================================================
