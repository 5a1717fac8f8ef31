--------------------------- MODULE MCAgvControl ---------------------------
(***************************************************************************)
(* Two orders: one of two waypoints, so that a tick can recurse once (it   *)
(* unlocks between the first and the second), and one of a single          *)
(* waypoint, so that a new order can shorten the list under the planner.   *)
(***************************************************************************)
EXTENDS AgvControl, TLC

CONSTANTS long, short, cut

MCRoute == {long, short}
MCWpCount == (long :> 2) @@ (short :> 1)

\* The id of the long order exceeds what the firmware keeps of it.
MCKept == (long :> cut) @@ (short :> short)

\* Liveness: the one order of two waypoints.
MCOneRoute == {long}
MCOneWpCount == [r \in MCOneRoute |-> 2]
=============================================================================
