---------------------------- MODULE SharedQuota ----------------------------
(***************************************************************************)
(* The two waits of a turn, one after the other: main/quota.ts (agents     *)
(* that share a credential) and main/concurrency.ts (TurnSlots), with what *)
(* sessionManager.ts does about a spent allowance: the turn is parked, and *)
(* sent again by a sweep once the allowance is there again.                *)
(*                                                                         *)
(* A seat is an agent that draws on the one credential modelled, alone in  *)
(* its session; its turns are numbers, in the order people send them.      *)
(* Other callers of acquire (no credential, or another) keep to TurnSlots. *)
(* Instants are kept as what is left until them, so that time may go on.   *)
(***************************************************************************)
EXTENDS TurnSlots, FiniteSetsExt

CONSTANTS Seats, None,
          Populations,   \* who may call acquire in one behaviour (bound)
          FIRST_BACKOFF, MAX_BACKOFF, DECAY_AFTER_SUCCESSES,
          Delays,        \* what a provider may say to wait
          MaxTurns,      \* bound: turns that people send
          MaxStops       \* bound: turns that hit a limit, appends that fail

ASSUME QuotaAssumption == /\ Seats \subseteq Ticket
                          /\ Populations \subseteq SUBSET Ticket
                          /\ Delays \subseteq Nat
                          /\ FIRST_BACKOFF \in Nat \ {0}
                          /\ MAX_BACKOFF \in Nat /\ FIRST_BACKOFF <= MAX_BACKOFF
                          /\ DECAY_AFTER_SUCCESSES \in Nat \ {0}
                          /\ MaxTurns \in Nat /\ MaxStops \in Nat

VARIABLES
  callers,   \* the members of Populations that call in this behaviour
  group,     \* the Group of the credential
  seat,      \* each agent: its queue of turns and where the first of them is
  parked,    \* live.parked of its session
  resending, \* turns a sweep has taken up and not sent yet
  over,      \* turns that ended and wait for nothing but a person
  dropped,   \* turns that are nowhere any more
  sent, stops \* bounds

quotaVars == <<group, seat, parked, resending, over, dropped, sent, stops>>
quotaAll  == <<slotVars, callers, quotaVars>>

QuotaInit ==
  /\ Init
  /\ callers \in Populations
  /\ group = [interval |-> 0, since |-> MAX_BACKOFF, hold |-> 0, successes |-> 0]
  /\ seat = [s \in Seats |-> [pc |-> "idle", left |-> 0, queue |-> <<>>]]
  /\ parked = [s \in Seats |-> None]
  /\ resending = {} /\ over = {} /\ dropped = {}
  /\ sent = 0 /\ stops = 0

\* What is under way at a seat: the turn at the head of its queue.
Current(s) == Head(seat[s].queue)
Moved(s, pc, left) == [seat EXCEPT ![s].pc = pc, ![s].left = left]
Queued(s, t) == [seat EXCEPT ![s].queue = Append(@, t)]

----------------------------------------------------------------------------
\* A person sends a turn; one more or less does not matter to a running one.
Sends(s) ==
  /\ s \in callers
  /\ sent < MaxTurns
  /\ sent' = sent + 1
  /\ seat' = Queued(s, sent + 1)
  /\ UNCHANGED <<slotVars, callers, group, parked, resending, over, dropped,
                 stops>>

\* How long QuotaScheduler.acquire still has to wait.
Wait == Max({group.hold,
             IF group.since >= group.interval THEN 0
             ELSE group.interval - group.since})

\* acquire: it looks, and looks again after each sleep.
Acquires(s) ==
  /\ \/ seat[s].pc = "idle" /\ seat[s].queue # <<>>
     \/ seat[s].pc = "asleep" /\ seat[s].left = 0
  /\ \/ /\ Wait = 0
        /\ seat' = Moved(s, "slot", 0)
        /\ group' = [group EXCEPT !.since = 0]
     \/ /\ Wait > 0
        /\ seat' = Moved(s, "asleep", Wait)
        /\ UNCHANGED group
  /\ UNCHANGED <<slotVars, callers, parked, resending, over, dropped, sent,
                 stops>>

\* acquireSlot, with the credential's turn in hand.
AsksSlot(s) ==
  /\ seat[s].pc = "slot"
  /\ TakeSlot(s) \/ JoinQueue(s)
  /\ seat' = Moved(s, "run", 0)
  /\ UNCHANGED <<callers, group, parked, resending, over, dropped, sent, stops>>

GetsSlot(s) == Resume(s) /\ UNCHANGED <<callers, quotaVars>>

----------------------------------------------------------------------------
(* The turn ends                                                           *)

\* StopReason, as far as the quota or the parking looks at it.
Limits == [kind : {"quota_exhausted", "rate_limited"}, after : Delays \cup {None}]
NoLimits == [kind : {"end_turn", "transport"}, after : {None}]

Held(stop) == IF stop.after = None THEN group.hold
              ELSE Max({group.hold, stop.after})

\* observe
Observed(stop) ==
  CASE stop.kind = "quota_exhausted" ->
         [group EXCEPT !.hold = Held(stop), !.successes = 0]
    [] stop.kind = "rate_limited" ->
         [group EXCEPT !.hold = Held(stop), !.successes = 0,
            !.interval = IF @ = 0 THEN FIRST_BACKOFF
                         ELSE Min({2 * @, MAX_BACKOFF})]
    [] stop.kind = "end_turn" /\ group.interval # 0 ->
         IF group.successes + 1 < DECAY_AFTER_SUCCESSES
         THEN [group EXCEPT !.successes = @ + 1]
         ELSE [group EXCEPT !.successes = 0,
                 !.interval = IF @ <= FIRST_BACKOFF THEN 0 ELSE @ \div 2]
    [] OTHER -> group

\* Mutant: a park that is there already is left.
ParkedOnce(s, stop) == IF parked[s] = None
                       THEN [turn |-> Current(s), left |-> stop.after]
                       ELSE parked[s]

\* live.parked: it takes the place of one that was not swept yet.
Parked(s, stop) == [turn |-> Current(s), left |-> stop.after]

\* The slot goes back, the group is told, and a turn that was stopped by a
\* spent window with a known end is parked.
LoopEnds(s) ==
  /\ seat[s].pc = "run" /\ phase[s] = "held"
  /\ Release(s)
  /\ \E stop \in Limits \cup NoLimits :
       LET parks == stop.kind = "quota_exhausted" /\ stop.after # None
       IN  /\ stop \in Limits => stops < MaxStops
           /\ stops' = IF stop \in Limits THEN stops + 1 ELSE stops
           /\ group' = Observed(stop)
           /\ parked' = IF parks THEN [parked EXCEPT ![s] = Parked(s, stop)]
                        ELSE parked
           /\ over' = IF parks THEN over ELSE over \cup {Current(s)}
           /\ dropped' = IF parks /\ parked[s] # None
                         THEN dropped \cup {parked[s].turn} ELSE dropped
  /\ seat' = [seat EXCEPT ![s].pc = "idle", ![s].queue = Tail(@)]
  /\ UNCHANGED <<callers, resending, sent>>

----------------------------------------------------------------------------
(* Parked turns                                                            *)

Due(s) == parked[s] # None /\ parked[s].left = 0

\* sweepParked: every park whose window has reset is taken away ...
Sweeps ==
  /\ \E s \in Seats : Due(s)
  /\ parked' = [s \in Seats |-> IF Due(s) THEN None ELSE parked[s]]
  /\ resending' = resending \cup {<<s, parked[s].turn>> : s \in {x \in Seats : Due(x)}}
  /\ UNCHANGED <<slotVars, callers, group, seat, over, dropped, sent, stops>>

\* ... and its turn sent again once that is in the log, behind those that were
\* sent in between.
Resends ==
  \E r \in resending :
    /\ resending' = resending \ {r}
    /\ seat' = Queued(r[1], r[2])
    /\ UNCHANGED <<slotVars, callers, group, parked, over, dropped, sent, stops>>

\* The append fails, and the error is swallowed.
ResendFails ==
  \E r \in resending :
    /\ stops < MaxStops
    /\ stops' = stops + 1
    /\ resending' = resending \ {r}
    /\ dropped' = dropped \cup {r[2]}
    /\ UNCHANGED <<slotVars, callers, group, seat, parked, over, sent>>

----------------------------------------------------------------------------
Less(n) == IF n = 0 THEN 0 ELSE n - 1

\* Time goes on.
Tick ==
  /\ group' = [group EXCEPT !.hold = Less(@), !.since = Min({@ + 1, MAX_BACKOFF})]
  /\ seat' = [s \in Seats |-> [seat[s] EXCEPT !.left = Less(@)]]
  /\ parked' = [s \in Seats |-> IF parked[s] = None THEN None
                                ELSE [parked[s] EXCEPT !.left = Less(@)]]
  /\ UNCHANGED <<slotVars, callers, resending, over, dropped, sent, stops>>

Others == callers \ Seats
OtherStep(k) == Step(k) /\ UNCHANGED <<callers, quotaVars>>

QuotaNext ==
  \/ \E k \in Others : OtherStep(k)
  \/ \E s \in Seats : \/ Sends(s) \/ Acquires(s) \/ AsksSlot(s) \/ GetsSlot(s)
                      \/ LoopEnds(s)
  \/ Sweeps \/ Resends \/ ResendFails \/ Tick

Proceeds(k) == /\ k \in callers
               /\ Resume(k) \/ Release(k)
               /\ UNCHANGED <<callers, quotaVars>>

\* Timers fire, promises that were resolved go on, turns end, and an append that
\* does not fail returns.
QuotaFairness ==
  /\ \A k \in Ticket \ Seats : WF_quotaAll(Proceeds(k))
  /\ \A s \in Seats : WF_quotaAll(Acquires(s) \/ AsksSlot(s) \/ GetsSlot(s)
                                  \/ LoopEnds(s))
  /\ WF_quotaAll(Sweeps) /\ WF_quotaAll(Resends \/ ResendFails)
  /\ WF_quotaAll(Tick)

QuotaSpec == QuotaInit /\ [][QuotaNext]_quotaAll /\ QuotaFairness

----------------------------------------------------------------------------
\* "A quota-exhausted agent parks and resumes on its own at reset": a turn that
\* was sent comes to an end of its own, however often the allowance is spent, the
\* pace is lowered, or the host has no slot.  It is dropped only where another
\* turn of its session is parked before a sweep has taken up the first, or the
\* log could not be written.
TurnsGetDone ==
  \A t \in 1..MaxTurns : (sent >= t) ~> (t \in over \cup dropped)
=============================================================================
