----------------------------- MODULE Schedules -----------------------------
(***************************************************************************)
(* main/schedules/runner.ts with store/schedules.ts: the routine that      *)
(* starts a run of a workflow every day, or every so often.  It composes   *)
(* with WorkflowRun: a sweep starts a run and waits for its first advance, *)
(* and asks isRunning before it starts another.                            *)
(*                                                                         *)
(* The schedule is in a file: a sweep reads it, decides, and writes it     *)
(* back after the run has started.  Time is counted in coarse units, Day   *)
(* of them to a day; a sweep may begin at any moment, which the runner's   *)
(* timer of a minute amounts to.                                           *)
(***************************************************************************)
EXTENDS WorkflowRun, Integers, Sequences

CONSTANTS Day,          \* units of time in a day
          Minute,       \* every.minute of a daily schedule
          Every,        \* every.ms of an interval
          MaxWriteFails \* bound: writes of the file that fail

ASSUME ScheduleAssumption == /\ Day \in Nat \ {0} /\ Minute \in 0..(Day - 1)
                             /\ Every \in Nat \ {0}
                             /\ MaxWriteFails \in Nat
                             /\ \A d \in Documents : d.until \in Nat /\ d.byHand \in Nat

Never == -1

VARIABLES
  clock,      \* the time
  kind,       \* every.kind
  lastRunAt,  \* in the file
  sweep,      \* where the sweep is: [at, now, lastRunAt, root]
  starts,     \* `now` of the sweeps that started a run, in order
  byHand,     \* runs that a person started
  writeFails

schedVars == <<clock, kind, lastRunAt, sweep, starts, byHand, writeFails>>
vars == <<runVars, schedVars>>

NoSweep == [at |-> "idle"]

\* A schedule that was just set, or one with a run behind it.
Init == /\ RunInit
        /\ clock = 0
        /\ kind \in {"daily", "interval"}
        /\ lastRunAt \in {Never, 0}
        /\ sweep = NoSweep
        /\ starts = <<>>
        /\ byHand = 0 /\ writeFails = 0

----------------------------------------------------------------------------
(* nextDue and dueNow                                                      *)

\* The day's occurrence: now with its hours and minutes set.
AtOn(now) == (now \div Day) * Day + Minute

\* Mutant: a run at the very moment of the occurrence does not count for it.
OccurrenceDue(last, now) == IF last > AtOn(now) THEN AtOn(now) + Day
                            ELSE AtOn(now)

\* Mutant: an occurrence that was missed is passed over.
OnTimeOnly(last, now) == IF last >= AtOn(now) \/ now > AtOn(now)
                         THEN AtOn(now) + Day ELSE AtOn(now)

\* An occurrence that has not been run for is due, late or not.
DailyDue(last, now) == IF last >= AtOn(now) THEN AtOn(now) + Day ELSE AtOn(now)

NextDue(last, now) ==
  IF kind = "interval"
  THEN IF last = Never THEN now ELSE last + Every
  ELSE IF last = Never
       THEN IF now < AtOn(now) THEN AtOn(now) ELSE AtOn(now) + Day
       ELSE DailyDue(last, now)

\* Mutant: it is not asked whether a run is still going.
NeverBusy == FALSE

\* isRunning; every run is of the one document.
IsRunning == live # {}

DueNow(last, now) == ~IsRunning /\ now >= NextDue(last, now)

----------------------------------------------------------------------------
(* The runner                                                              *)

\* tick: one sweep at a time, and the time is taken as it begins.
SweepBegins ==
  /\ sweep.at = "idle"
  /\ sweep' = [at |-> "reading", now |-> clock]
  /\ UNCHANGED <<runVars, clock, kind, lastRunAt, starts, byHand, writeFails>>

\* The file is read: nothing is due ...
NotDue ==
  /\ sweep.at = "reading"
  /\ ~DueNow(lastRunAt, sweep.now)
  /\ sweep' = NoSweep
  /\ UNCHANGED <<runVars, clock, kind, lastRunAt, starts, byHand, writeFails>>

\* ... or the run is begun, with lastRunAt set in memory.
Due ==
  /\ sweep.at = "reading"
  /\ DueNow(lastRunAt, sweep.now)
  /\ sweep' = [at |-> "starting", now |-> sweep.now, lastRunAt |-> sweep.now]
  /\ UNCHANGED <<runVars, clock, kind, lastRunAt, starts, byHand, writeFails>>

NewRoot == CHOOSE r \in Root : r \notin rooted

\* runWorkflowDocument: the document is read and the root session created.
RunStarts ==
  /\ sweep.at = "starting"
  /\ ~NoMoreRuns
  /\ Start(NewRoot)
  /\ sweep' = [at |-> "waiting", now |-> sweep.now,
               lastRunAt |-> sweep.lastRunAt, root |-> NewRoot]
  /\ starts' = Append(starts, sweep.now)
  /\ UNCHANGED <<clock, kind, lastRunAt, byHand, writeFails>>

Written == [at |-> "writing", lastRunAt |-> sweep.lastRunAt]

\* It throws before that: the failure is reported, and the run still counts.
RunWouldNotStart ==
  /\ sweep.at = "starting"
  /\ MayGoWrong
  /\ refusals' = refusals + 1
  /\ sweep' = Written
  /\ UNCHANGED <<doc, rooted, open, live, chained, step, over, made, state, again,
                 forgotten, crashes, reopened, clock, kind, lastRunAt, starts,
                 byHand, writeFails>>

\* The first advance settles, well or badly.
RunReturns ==
  /\ sweep.at = "waiting"
  /\ sweep.root \in over
  /\ sweep' = Written
  /\ UNCHANGED <<runVars, clock, kind, lastRunAt, starts, byHand, writeFails>>

\* The file is written.
SweepWrites ==
  /\ sweep.at = "writing"
  /\ sweep' = NoSweep
  /\ \/ /\ lastRunAt' = sweep.lastRunAt
        /\ UNCHANGED writeFails
     \/ /\ writeFails < MaxWriteFails
        /\ writeFails' = writeFails + 1
        /\ UNCHANGED lastRunAt
  /\ UNCHANGED <<runVars, clock, kind, starts, byHand>>

\* workflow.run: a person starts a run, and isRunning is not asked.
RunByHand ==
  /\ ~NoMoreRuns /\ byHand < doc.byHand
  /\ Start(NewRoot)
  /\ byHand' = byHand + 1
  /\ UNCHANGED <<clock, kind, lastRunAt, sweep, starts, writeFails>>

----------------------------------------------------------------------------
\* Time passes, up to the bound on it and while a run is left to start.
Tick == /\ clock < doc.until
        /\ ~NoMoreRuns
        /\ clock' = clock + 1
        /\ UNCHANGED <<runVars, kind, lastRunAt, sweep, starts, byHand,
                       writeFails>>

HostDies == /\ RunsDie
            /\ sweep' = NoSweep
            /\ UNCHANGED <<clock, kind, lastRunAt, starts, byHand, writeFails>>

Sweep == \/ SweepBegins \/ NotDue \/ Due
         \/ RunStarts \/ RunReturns \/ SweepWrites

Next == \/ Sweep \/ RunWouldNotStart \/ RunByHand
        \/ Tick \/ HostDies
        \/ RunNext /\ UNCHANGED schedVars

\* The timer goes on, every await returns, and time passes.
Fairness == WF_vars(Sweep) /\ WF_vars(Tick) /\ RunFairness

SafeSpec == Init /\ [][Next]_vars
Spec == SafeSpec /\ Fairness

----------------------------------------------------------------------------
\* The values of each variable, those of WorkflowRun included.
TypeOK == /\ RunTypeOK
          /\ clock \in 0..doc.until
          /\ kind \in {"daily", "interval"}
          /\ lastRunAt \in Never..doc.until
          /\ sweep.at \in {"idle", "reading", "starting", "waiting", "writing"}
          /\ starts \in Seq(0..doc.until)
          /\ byHand \in 0..doc.byHand

\* dueNow: "A run that is still going is not joined by another": a sweep starts
\* none while this host drives one, although it asks before the run is started.
\* Beside it are the runs that a person starts, and those from before the host
\* died, if they are resumed and there is something left of them.
OneRunAtATime ==
  /\ crashes = 0 => Cardinality(live) <= 1 + byHand
  /\ Cardinality({r \in live : ~Finished(r)}) <= 1 + byHand + crashes + reopened

\* Two starts that are one occurrence of a daily schedule, or closer than an
\* interval.
SameOccurrence(s, t) ==
  IF kind = "daily" THEN (s + Day - Minute) \div Day = (t + Day - Minute) \div Day
  ELSE t < s + Every

\* nextDue and the order of the sweep: an occurrence starts one run, and each
\* death of the host or failed write repeats at most one.
OccurrenceStartsOnce ==
  Cardinality({i \in 2..Len(starts) : SameOccurrence(starts[i - 1], starts[i])})
    <= crashes + writeFails

\* The occurrence of the schedule that is past, and that no run was for.
Overdue == IF kind = "daily" THEN lastRunAt < AtOn(clock) /\ AtOn(clock) <= clock
           ELSE lastRunAt + Every <= clock

\* nextDue: "an established schedule whose hour has passed is overdue rather
\* than missed": it starts a run, late or not, unless one is still going.
OverdueRuns ==
  (lastRunAt # Never /\ Overdue) ~> (~Overdue \/ live # {} \/ NoMoreRuns)

\* nextDue (store/schedules.ts 101-102): "A schedule that has never run is due
\* **now** for an interval, and at its next occurrence for a daily one": a sweep
\* at the occurrence itself starts the run.
NewScheduleRuns ==
  sweep.at = "reading" /\ lastRunAt = Never /\ ~IsRunning
    /\ (kind = "daily" => sweep.now = AtOn(sweep.now))
    => DueNow(lastRunAt, sweep.now)
=============================================================================
