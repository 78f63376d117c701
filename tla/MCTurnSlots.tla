---------------------------- MODULE MCTurnSlots ----------------------------
(***************************************************************************)
(* TurnSlots on a host of two slots, with the credential wait before it.   *)
(* Either five callers, each of which may ask again as often as it likes:  *)
(* enough for a line of three, for a woken ticket to be overtaken if it    *)
(* can be, and for repeated releases.  Or two seats that share a           *)
(* credential and three others: enough for a seat to wait for either.      *)
(***************************************************************************)
EXTENDS SharedQuota

CONSTANTS t1, t2, t3, t4, t5, s1, s2

MCTicket == {t1, t2, t3, t4, t5, s1, s2}
MCSeats == {s1, s2}
MCPopulations == {{t1, t2, t3, t4, t5}, {s1, s2, t1}}
MCDelays == {2}
=============================================================================
