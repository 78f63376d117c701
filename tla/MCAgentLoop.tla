----------------------------- MODULE MCAgentLoop -----------------------------
(***************************************************************************)
(* AgentLoop for two agents that share one file.                           *)
(***************************************************************************)
EXTENDS AgentLoop

CONSTANTS a1, a2, f1

MCAgent == {a1, a2}
MCFile  == {f1}
=============================================================================
