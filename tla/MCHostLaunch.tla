---------------------------- MODULE MCHostLaunch ----------------------------
(***************************************************************************)
(* HostLaunch with a few processes and clients; which is which does not    *)
(* matter.                                                                 *)
(***************************************************************************)
EXTENDS HostLaunch, TLC

CONSTANTS h1, h2, h3, c1, c2

MCHosts == {h1, h2, h3}
MCClients == {c1, c2}
MCSymmetry == Permutations(MCHosts) \cup Permutations(MCClients)
=============================================================================
