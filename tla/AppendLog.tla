----------------------------- MODULE AppendLog -----------------------------
(***************************************************************************)
(* What a session's event log promises (store/eventLog.ts): records that   *)
(* are in the log stay there, in the order of their sequence numbers, and  *)
(* a record whose append returned is one of them.                          *)
(***************************************************************************)
EXTENDS Naturals, Sequences

CONSTANT Record  \* the records that may be appended, with an id and a seq

VARIABLES log,    \* the records of the log
          known   \* the ids of those whose append has returned

logVars == <<log, known>>

IdsOf(s) == {s[i].id : i \in 1..Len(s)}

Init == log = <<>> /\ known = {}

\* A record is in the log for good.
Commit(r) == /\ r.id \notin IdsOf(log)
             /\ \A i \in 1..Len(log) : log[i].seq < r.seq
             /\ log' = Append(log, r)

\* Its writer is told, in the same step or never: a crash may come between.
Next == \E r \in Record : /\ Commit(r)
                          /\ known' \in {known, known \cup {r.id}}

Spec == Init /\ [][Next]_logVars
=============================================================================
