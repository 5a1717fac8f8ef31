--------------------------- MODULE MCDriveTarget ---------------------------
(***************************************************************************)
(* Lists of one and three waypoints: a tick that recurses, and a list that *)
(* a new one shortens or lengthens under the index.                        *)
(***************************************************************************)
EXTENDS DriveTarget, TLC

CONSTANTS r1, r3

MCRoute == {r1, r3}
MCWpCount == (r1 :> 1) @@ (r3 :> 3)
=============================================================================
