---------------------------- MODULE MCSchedules ----------------------------
(***************************************************************************)
(* Schedules over two kinds of documents.  Graphs have two roots, and are  *)
(* run once: in one the third node needs both of them; in the other it     *)
(* needs one, and must start while the other is at work.  Two things may   *)
(* go wrong with them.  Routines have a single node and are run several    *)
(* times: over two days; and with something that goes wrong, within one    *)
(* day three times, or next to a run that a person starts.                 *)
(***************************************************************************)
EXTENDS Schedules

CONSTANTS build, check, docs

MCNode == {build, check, docs}

Graph(needed) == [n \in MCNode |-> IF n = check THEN needed ELSE {}]

Graphs == {[needs |-> Graph(needed), runs |-> 1, byHand |-> 0, until |-> 0,
            upsets |-> 2] : needed \in {{build, docs}, {build}}}

Routines ==
  {[needs |-> [n \in {build} |-> {}], runs |-> b.runs, byHand |-> b.byHand,
    until |-> b.until, upsets |-> b.upsets] :
     b \in {[runs |-> 2, byHand |-> 0, until |-> 5, upsets |-> 0],
            [runs |-> 3, byHand |-> 0, until |-> 1, upsets |-> 1],
            [runs |-> 2, byHand |-> 1, until |-> 1, upsets |-> 1]}}

MCDocuments == Graphs \cup Routines
=============================================================================
