--------------------------- MODULE MCSessionTurns ---------------------------
(***************************************************************************)
(* SessionTurns on the smallest host, whose cap is one slot: the case that *)
(* defaultTurnCap gives a machine of three cores or fewer, and the one in  *)
(* which every wait for a slot happens.  Two sessions compete for it.      *)
(***************************************************************************)
EXTENDS SessionTurns

CONSTANTS a1, a2

MCAgent == {a1, a2}

\* One agent with a queue, and one that competes with it for the slot.
MCSends == [a \in MCAgent |-> IF a = a1 THEN 2 ELSE 1]
=============================================================================
