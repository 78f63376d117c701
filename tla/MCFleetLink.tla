---------------------------- MODULE MCFleetLink ----------------------------
(***************************************************************************)
(* FleetLink with two workspaces of one machine.                           *)
(***************************************************************************)
EXTENDS FleetLink

CONSTANTS a, b

MCWorkspaces == {a, b}
MCLogLimit == a :> 3 @@ b :> 0
MCMaxAttaches == a :> 2 @@ b :> 1
=============================================================================
