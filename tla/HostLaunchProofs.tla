-------------------------- MODULE HostLaunchProofs --------------------------
(***************************************************************************)
(* Two things for any number of hosts, clients and crashes: two hosts      *)
(* never serve at once, and the record of a host that serves is not lost,  *)
(* each but for the races the invariants name.                             *)
(***************************************************************************)
EXTENDS HostLaunch, TLAPS

HostRecords == [pc : HostStates, door : BOOLEAN, debris : BOOLEAN,
                mine : BOOLEAN]

ClientRecords == [pc : ClientStates, at : Hosts \cup {None}, spawned : BOOLEAN]

\* A host with an open door is up or leaves.
DoorTells == \A h \in Hosts : host[h].door => At(h, {"up", "leaving"})

LEMMA InitTypes == Init => TypeOK
<1> SUFFICES ASSUME Init PROVE TypeOK
  OBVIOUS
<1>1. [pc |-> "off", door |-> FALSE, debris |-> FALSE, mine |-> FALSE]
        \in HostRecords
  BY DEF HostRecords, HostStates
<1>2. host \in [Hosts -> HostRecords]
  BY <1>1 DEF Init
<1>3. [pc |-> "idle", at |-> None, spawned |-> FALSE] \in ClientRecords
  BY DEF ClientRecords, ClientStates
<1>4. client \in [Clients -> ClientRecords]
  BY <1>3 DEF Init
<1>5. DoorTells
  BY DEF Init, DoorTells, At
<1>6. crashes \in 0..MaxCrashes
  BY LaunchAssumption DEF Init
<1> QED
  BY <1>2, <1>4, <1>5, <1>6
  DEF Init, TypeOK, HostRecords, ClientRecords, DoorTells

LEMMA StepTypes == TypeOK /\ [Next]_vars => TypeOK'
<1> SUFFICES ASSUME TypeOK, [Next]_vars PROVE TypeOK'
  OBVIOUS
<1> USE DEF TypeOK, At, Moves, Goes
<1>1. ASSUME NEW h \in Hosts, Asks(h) PROVE TypeOK'
  BY <1>1 DEF Asks, HostStates
<1>2. ASSUME NEW h \in Hosts, WritesRecord(h) PROVE TypeOK'
  BY <1>2 DEF WritesRecord, HostStates
<1>3. ASSUME NEW h \in Hosts, Binds(h) PROVE TypeOK'
  <2>1. CASE path = None
    BY <1>3, <2>1 DEF Binds, HostStates
  <2>2. CASE path # None
    BY <1>3, <2>2 DEF Binds, HostStates
  <2> QED
    BY <2>1, <2>2
<1>4. ASSUME NEW h \in Hosts, AsksAgain(h) PROVE TypeOK'
  <2>1. CASE Answers
    <3>1. (~Answers) = FALSE
      BY <2>1, Zenon
    <3>2. \/ host' = [host EXCEPT ![h].pc = "unlinks", ![h].debris = FALSE]
          \/ host' = [host EXCEPT ![h].pc = "clears", ![h].debris = FALSE]
      BY <1>4, <3>1 DEF AsksAgain
    <3> QED
      BY <1>4, <3>2 DEF AsksAgain, HostStates
  <2>2. CASE ~Answers
    <3>1. (~Answers) = TRUE
      BY <2>2, Zenon
    <3>2. \/ host' = [host EXCEPT ![h].pc = "unlinks", ![h].debris = TRUE]
          \/ host' = [host EXCEPT ![h].pc = "clears", ![h].debris = TRUE]
      BY <1>4, <3>1 DEF AsksAgain
    <3> QED
      BY <1>4, <3>2 DEF AsksAgain, HostStates
  <2> QED
    BY <2>1, <2>2
<1>5. ASSUME NEW h \in Hosts, Unlinks(h) PROVE TypeOK'
  <2>1. stolen' \in BOOLEAN
    <3>1. (stolen \/ (Answers /\ host[h].debris)) \in BOOLEAN
      BY Zenon
    <3> QED
      BY <1>5, <3>1 DEF Unlinks
  <2>2. path' \in Hosts \cup {None}
    BY <1>5 DEF Unlinks
  <2>3. host' \in [Hosts -> [pc : HostStates, door : BOOLEAN,
                             debris : BOOLEAN, mine : BOOLEAN]]
    BY <1>5 DEF Unlinks, HostStates
  <2>4. \A g \in Hosts : host'[g].door => host'[g].pc \in {"up", "leaving"}
    BY <1>5 DEF Unlinks
  <2> QED
    BY <1>5, <2>1, <2>2, <2>3, <2>4 DEF Unlinks
<1>6. ASSUME NEW h \in Hosts, Leaves(h) \/ ShutsDoor(h) \/ Stops(h)
      PROVE  TypeOK'
  <2>1. CASE Leaves(h)
    BY <2>1 DEF Leaves, HostStates
  <2>2. CASE ShutsDoor(h)
    BY <2>2 DEF ShutsDoor
  <2>3. CASE Stops(h)
    BY <2>3 DEF Stops, HostStates
  <2> QED
    BY <1>6, <2>1, <2>2, <2>3
<1>7. ASSUME NEW h \in Hosts, Reads(h) PROVE TypeOK'
  <2>1. CASE record = h
    <3>1. (record = h) = TRUE
      BY <2>1, Zenon
    <3>2. \/ host' = [host EXCEPT ![h].pc = "removes", ![h].mine = TRUE]
          \/ host' = [host EXCEPT ![h].pc = "gone", ![h].mine = TRUE]
      BY <1>7, <3>1 DEF Reads
    <3> QED
      BY <1>7, <3>2 DEF Reads, HostStates
  <2>2. CASE record # h
    <3>1. (record = h) = FALSE
      BY <2>2, Zenon
    <3>2. \/ host' = [host EXCEPT ![h].pc = "removes", ![h].mine = FALSE]
          \/ host' = [host EXCEPT ![h].pc = "gone", ![h].mine = FALSE]
      BY <1>7, <3>1 DEF Reads
    <3> QED
      BY <1>7, <3>2 DEF Reads, HostStates
  <2> QED
    BY <2>1, <2>2
<1>8. ASSUME NEW h \in Hosts, Removes(h) PROVE TypeOK'
  <2>1. (clobbered \/ (host[h].mine /\ \E g \in Hosts : Claims(g))) \in BOOLEAN
    BY Zenon
  <2> QED
    BY <1>8, <2>1 DEF Removes, HostStates
<1>9. ASSUME NEW h \in Hosts, Crashes(h) PROVE TypeOK'
  <2>1. host' \in [Hosts -> [pc : HostStates, door : BOOLEAN,
                             debris : BOOLEAN, mine : BOOLEAN]]
    BY <1>9 DEF Crashes, HostStates
  <2>2. \A g \in Hosts : host'[g].door => host'[g].pc \in {"up", "leaving"}
    BY <1>9 DEF Crashes
  <2>3. crashes' \in 0..MaxCrashes
    BY <1>9, LaunchAssumption DEF Crashes
  <2> QED
    BY <1>9, <2>1, <2>2, <2>3 DEF Crashes
<1>10. ASSUME NEW c \in Clients, Calls(c) \/ Accepts(c) \/ Welcomes(c)
                                 \/ GivesUp(c) \/ Ends(c) \/ FindsRecord(c)
       PROVE  TypeOK'
  <2>1. CASE Calls(c)
    BY <2>1 DEF Calls, ClientStates
  <2>2. CASE Accepts(c)
    BY <2>2 DEF Accepts, ClientStates
  <2>3. CASE Welcomes(c)
    BY <2>3 DEF Welcomes, ClientStates
  <2>4. CASE GivesUp(c)
    BY <2>4 DEF GivesUp, ClientStates
  <2>5. CASE Ends(c)
    BY <2>5 DEF Ends, ClientStates
  <2>6. CASE FindsRecord(c)
    BY <2>6 DEF FindsRecord, ClientStates
  <2> QED
    BY <1>10, <2>1, <2>2, <2>3, <2>4, <2>5, <2>6
<1>11. ASSUME NEW c \in Clients, Probes(c) PROVE TypeOK'
  <2>1. PICK p \in {"hello", "probe", "empty"}, h \in Hosts \cup {None} :
          client' = [client EXCEPT ![c].pc = p, ![c].at = h]
    <3>1. CASE Answers
      BY <1>11, <3>1 DEF Probes, Answers
    <3>2. CASE ~Answers
      BY <1>11, <3>2 DEF Probes
    <3> QED
      BY <3>1, <3>2
  <2>2. p \in ClientStates
    BY DEF ClientStates
  <2>3. client' \in [Clients -> [pc : ClientStates, at : Hosts \cup {None},
                                 spawned : BOOLEAN]]
    BY <2>1, <2>2
  <2> QED
    BY <1>11, <2>3 DEF Probes
<1>12. ASSUME NEW c \in Clients, Spawns(c)
       PROVE  /\ client' \in [Clients -> ClientRecords]
              /\ host' \in [Hosts -> HostRecords]
              /\ \A g \in Hosts : host'[g].door =>
                                    host'[g].pc \in {"up", "leaving"}
  <2>1. PICK h \in Hosts : /\ At(h, {"off"})
                           /\ Moves(h, "asks")
    BY <1>12 DEF Spawns
  <2>2. client' \in [Clients -> ClientRecords]
    <3>1. client' = [client EXCEPT ![c].pc = "probe", ![c].spawned = TRUE]
      BY <1>12 DEF Spawns
    <3>2. client \in [Clients -> ClientRecords] /\ "probe" \in ClientStates
      BY DEF ClientRecords, ClientStates
    <3> QED
      BY <3>1, <3>2 DEF ClientRecords
  <2>3. host' \in [Hosts -> HostRecords]
    BY <2>1 DEF HostStates, HostRecords
  <2>4. \A g \in Hosts : host'[g].door => host'[g].pc \in {"up", "leaving"}
    BY <2>1
  <2> QED
    BY <2>2, <2>3, <2>4
<1>13. ASSUME NEW c \in Clients, FindsNoRecord(c) PROVE TypeOK'
  BY <1>12, <1>13 DEF FindsNoRecord, ClientRecords, HostRecords
<1>14. ASSUME NEW c \in Clients, ClearsStale(c) PROVE TypeOK'
  <2>1. (clobbered \/ \E h \in Hosts : Claims(h)) \in BOOLEAN
    BY Zenon
  <2> QED
    BY <1>12, <1>14, <2>1 DEF ClearsStale, ClientRecords, HostRecords
<1>15. CASE UNCHANGED vars
  BY <1>15 DEF vars
<1> QED
  BY <1>1, <1>2, <1>3, <1>4, <1>5, <1>6, <1>7, <1>8, <1>9, <1>10, <1>11,
     <1>13, <1>14, <1>15 DEF Next

\* The variables keep their types, and only a host that serves or is on its way
\* out has an open door.
THEOREM Typed == Spec => []TypeOK
  BY InitTypes, StepTypes, PTL DEF Spec

----------------------------------------------------------------------------
(* Two hosts never serve at once.  OneHost is not inductive: that the path *)
(* is free says nothing of the hosts that listen.  As long as no live      *)
(* socket was removed, though, the path leads to every open door, so there *)
(* is at most one; and whoever is about to remove the file has seen that   *)
(* nobody answered, so if somebody does by now, a live socket is removed.  *)

PathLeadsToDoor ==
  /\ ~stolen => \A h \in Hosts : host[h].door => path = h
  /\ \A h \in Hosts : At(h, {"up"}) => host[h].door
  /\ \A h \in Hosts : At(h, {"unlinks"}) => host[h].debris

LEMMA InitPath == Init => PathLeadsToDoor
  BY DEF Init, PathLeadsToDoor, At

LEMMA StepPath == TypeOK /\ PathLeadsToDoor /\ [Next]_vars => PathLeadsToDoor'
<1> SUFFICES ASSUME TypeOK, PathLeadsToDoor, [Next]_vars PROVE PathLeadsToDoor'
  OBVIOUS
<1> USE DEF TypeOK, PathLeadsToDoor, At, Moves, Goes
<1>1. ASSUME NEW h \in Hosts, Asks(h) \/ WritesRecord(h) PROVE PathLeadsToDoor'
  BY <1>1 DEF Asks, WritesRecord
<1>2. ASSUME NEW h \in Hosts, Binds(h) PROVE PathLeadsToDoor'
  <2>1. CASE path = None
    BY <1>2, <2>1, LaunchAssumption DEF Binds
  <2>2. CASE path # None
    <3>1. \/ host' = [host EXCEPT ![h].pc = "inUse"]
          \/ host' = [host EXCEPT ![h].pc = "clears"]
      BY <1>2, <2>2 DEF Binds
    <3> QED
      BY <1>2, <2>2, <3>1 DEF Binds
  <2> QED
    BY <2>1, <2>2
<1>3. ASSUME NEW h \in Hosts, AsksAgain(h) PROVE PathLeadsToDoor'
  <2>1. CASE Answers
    <3>1. (~Answers) = FALSE
      BY <2>1, Zenon
    <3>2. host' = [host EXCEPT ![h].pc = "clears", ![h].debris = FALSE]
      BY <1>3, <2>1, <3>1 DEF AsksAgain, IsDebris
    <3> QED
      BY <1>3, <3>2 DEF AsksAgain
  <2>2. CASE ~Answers
    <3>1. (~Answers) = TRUE
      BY <2>2, Zenon
    <3>2. host' = [host EXCEPT ![h].pc = "unlinks", ![h].debris = TRUE]
      BY <1>3, <2>2, <3>1 DEF AsksAgain, IsDebris
    <3> QED
      BY <1>3, <3>2 DEF AsksAgain
  <2> QED
    BY <2>1, <2>2
<1>4. ASSUME NEW h \in Hosts, Unlinks(h) PROVE PathLeadsToDoor'
  <2>1. CASE Answers
    <3>1. stolen'
      BY <1>4, <2>1 DEF Unlinks
    <3>2. host' = [host EXCEPT ![h].pc = "clears"]
            \/ host' = [host EXCEPT ![h].pc = "rebinds"]
      BY <1>4 DEF Unlinks
    <3> QED
      BY <3>1, <3>2
  <2>2. CASE ~Answers
    <3>1. ~stolen => \A g \in Hosts : ~host[g].door
      BY <2>2, LaunchAssumption DEF Answers
    <3>2. stolen => stolen'
      BY <1>4 DEF Unlinks
    <3>3. host' = [host EXCEPT ![h].pc = "clears"]
            \/ host' = [host EXCEPT ![h].pc = "rebinds"]
      BY <1>4 DEF Unlinks
    <3> QED
      BY <3>1, <3>2, <3>3
  <2> QED
    BY <2>1, <2>2
<1>5. ASSUME NEW h \in Hosts, Leaves(h) \/ ShutsDoor(h) \/ Stops(h)
      PROVE  PathLeadsToDoor'
  BY <1>5, LaunchAssumption DEF Leaves, ShutsDoor, Stops
<1>6. ASSUME NEW h \in Hosts, Reads(h) PROVE PathLeadsToDoor'
  BY <1>6 DEF Reads
<1>7. ASSUME NEW h \in Hosts, Removes(h) \/ Crashes(h) PROVE PathLeadsToDoor'
  BY <1>7 DEF Removes, Crashes
<1>8. ASSUME NEW c \in Clients, Calls(c) \/ Probes(c) \/ Accepts(c)
                                \/ Welcomes(c) \/ GivesUp(c) \/ Ends(c)
                                \/ FindsRecord(c)
      PROVE  PathLeadsToDoor'
  BY <1>8 DEF Calls, Probes, Accepts, Welcomes, GivesUp, Ends, FindsRecord
<1>9. ASSUME NEW c \in Clients, FindsNoRecord(c) \/ ClearsStale(c)
      PROVE  PathLeadsToDoor'
  <2>1. PICK h \in Hosts : At(h, {"off"}) /\ Moves(h, "asks")
    BY <1>9 DEF FindsNoRecord, ClearsStale, Spawns
  <2> QED
    BY <1>9, <2>1 DEF FindsNoRecord, ClearsStale
<1>10. CASE UNCHANGED vars
  BY <1>10 DEF vars
<1> QED
  BY <1>1, <1>2, <1>3, <1>4, <1>5, <1>6, <1>7, <1>8, <1>9, <1>10 DEF Next

\* Two hosts never serve at once, however many processes are started, leave or
\* are killed, unless a live socket was taken for debris.
THEOREM HostIsAlone == Spec => []OneHost
<1>1. PathLeadsToDoor => OneHost
  BY DEF PathLeadsToDoor, OneHost
<1> QED
  BY <1>1, InitTypes, StepTypes, InitPath, StepPath, PTL DEF Spec

----------------------------------------------------------------------------
(* The record of a host that serves.  Whoever has written the record and   *)
(* may yet serve (Claims) needs one on disk; a host that removes one has   *)
(* found its own name in it.                                               *)

ClaimIsRecorded ==
  /\ ~clobbered => ((\E h \in Hosts : Claims(h)) => record # None)
  /\ \A h \in Hosts : At(h, {"removes"}) => host[h].mine

LEMMA InitRecord == Init => ClaimIsRecorded
  BY DEF Init, ClaimIsRecorded, Claims, At

LEMMA StepRecord == TypeOK /\ ClaimIsRecorded /\ [Next]_vars => ClaimIsRecorded'
<1> SUFFICES ASSUME TypeOK, ClaimIsRecorded, [Next]_vars PROVE ClaimIsRecorded'
  OBVIOUS
<1> USE DEF TypeOK, ClaimIsRecorded, Claims, At, Moves, Goes
<1>1. ASSUME NEW h \in Hosts, Asks(h) PROVE ClaimIsRecorded'
  BY <1>1 DEF Asks
<1>2. ASSUME NEW h \in Hosts, WritesRecord(h) PROVE ClaimIsRecorded'
  BY <1>2, LaunchAssumption DEF WritesRecord
<1>3. ASSUME NEW h \in Hosts, Binds(h) PROVE ClaimIsRecorded'
  BY <1>3 DEF Binds
<1>4. ASSUME NEW h \in Hosts, AsksAgain(h) PROVE ClaimIsRecorded'
  BY <1>4 DEF AsksAgain
<1>5. ASSUME NEW h \in Hosts, Unlinks(h) PROVE ClaimIsRecorded'
  BY <1>5 DEF Unlinks
<1>6. ASSUME NEW h \in Hosts, Leaves(h) \/ ShutsDoor(h) \/ Stops(h)
      PROVE  ClaimIsRecorded'
  BY <1>6 DEF Leaves, ShutsDoor, Stops
<1>7. ASSUME NEW h \in Hosts, Reads(h) PROVE ClaimIsRecorded'
  <2>1. CASE record = h
    <3>1. (record = h) = TRUE
      BY <2>1, Zenon
    <3>2. host' = [host EXCEPT ![h].pc = "removes", ![h].mine = TRUE]
      BY <1>7, <2>1, <3>1 DEF Reads, IsOurs
    <3> QED
      BY <1>7, <3>2 DEF Reads
  <2>2. CASE record # h
    <3>1. (record = h) = FALSE
      BY <2>2, Zenon
    <3>2. host' = [host EXCEPT ![h].pc = "gone", ![h].mine = FALSE]
      BY <1>7, <2>2, <3>1 DEF Reads, IsOurs
    <3> QED
      BY <1>7, <3>2 DEF Reads
  <2> QED
    BY <2>1, <2>2
<1>8. ASSUME NEW h \in Hosts, Removes(h) PROVE ClaimIsRecorded'
  <2>1. ~clobbered' => ~\E g \in Hosts : Claims(g)
    BY <1>8 DEF Removes
  <2> QED
    BY <1>8, <2>1 DEF Removes
<1>9. ASSUME NEW h \in Hosts, Crashes(h) PROVE ClaimIsRecorded'
  BY <1>9 DEF Crashes
<1>10. ASSUME NEW c \in Clients, Calls(c) \/ Probes(c) \/ Accepts(c)
                                 \/ Welcomes(c) \/ GivesUp(c) \/ Ends(c)
                                 \/ FindsRecord(c)
       PROVE  ClaimIsRecorded'
  BY <1>10 DEF Calls, Probes, Accepts, Welcomes, GivesUp, Ends, FindsRecord
<1>11. ASSUME NEW c \in Clients, FindsNoRecord(c) PROVE ClaimIsRecorded'
  BY <1>11 DEF FindsNoRecord, Spawns
<1>12. ASSUME NEW c \in Clients, ClearsStale(c) PROVE ClaimIsRecorded'
  <2>1. ~clobbered' => ~\E g \in Hosts : Claims(g)
    BY <1>12 DEF ClearsStale
  <2> QED
    BY <1>12, <2>1 DEF ClearsStale, Spawns
<1>13. CASE UNCHANGED vars
  BY <1>13 DEF vars
<1> QED
  BY <1>1, <1>2, <1>3, <1>4, <1>5, <1>6, <1>7, <1>8, <1>9, <1>10, <1>11,
     <1>12, <1>13 DEF Next

\* A host that serves has a record on disk, unless one was removed that had been
\* replaced since it was read, or that had replaced that of another host.
THEOREM HostIsRecorded == Spec => []LiveHostIsRecorded
<1>1. ClaimIsRecorded => LiveHostIsRecorded
  BY DEF ClaimIsRecorded, LiveHostIsRecorded, Claims, At
<1> QED
  BY <1>1, InitTypes, StepTypes, InitRecord, StepRecord, PTL DEF Spec
=============================================================================
