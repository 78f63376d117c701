--------------------------- MODULE FifoSemaphore ---------------------------
(***************************************************************************)
(* What concurrency.ts promises the turns of one host: at most Cap of them *)
(* hold a slot, a turn waits only while the host is full, and slots go to  *)
(* the waiters in the order in which they asked.                           *)
(*                                                                         *)
(* There is no counter, no closure and no wake-up here: the holders are a  *)
(* set and the waiters a line.  TurnSlots implements this.                 *)
(***************************************************************************)
EXTENDS Naturals, Sequences, FiniteSets

CONSTANTS Ticket,   \* the callers of acquire
          Cap       \* slots of the host

VARIABLES holders,  \* the tickets that own a slot
          line      \* the tickets that wait, in order of arrival

semVars == <<holders, line>>

InLine == {line[i] : i \in 1..Len(line)}

Init == /\ holders = {}
        /\ line = <<>>

\* A slot is free and nobody waits for it.
Admit(k) == /\ k \notin holders
            /\ line = <<>>
            /\ Cardinality(holders) < Cap
            /\ holders' = holders \cup {k}
            /\ UNCHANGED line

\* The host is full: the ticket goes to the end of the line.
Wait(k) == /\ k \notin holders \cup InLine
           /\ Cardinality(holders) = Cap
           /\ line' = Append(line, k)
           /\ UNCHANGED holders

\* A slot comes back and nobody is in line for it.
Return(k) == /\ k \in holders
             /\ line = <<>>
             /\ holders' = holders \ {k}
             /\ UNCHANGED line

\* A slot comes back and is handed to the head of the line.
HandOver(k) == /\ k \in holders
               /\ line # <<>>
               /\ holders' = (holders \ {k}) \cup {Head(line)}
               /\ line' = Tail(line)

Next == \E k \in Ticket : Admit(k) \/ Wait(k) \/ Return(k) \/ HandOver(k)

Spec == Init /\ [][Next]_semVars
=============================================================================
