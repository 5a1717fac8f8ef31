--------------------------- MODULE MCBenchMotion ---------------------------
(***************************************************************************)
(* One order of each kind: fast then slow on a short segment, a heading, a *)
(* last waypoint that cannot be met (no tolerance), one that cannot be     *)
(* driven to (no speed).  Ticks take one unit of time or two, in any order;*)
(* braking is as strong as the assumption on the dead band allows.         *)
(***************************************************************************)
EXTENDS BenchMotion

MCWp(gap, max_speed, tolerance) ==
    [gap |-> gap, max_speed |-> max_speed, tolerance |-> tolerance,
     has_theta |-> FALSE, theta |-> 0, tolerance_theta |-> 1]

MCFacing(w, angle, tol) ==
    [w EXCEPT !.has_theta = TRUE, !.theta = angle, !.tolerance_theta = tol]

MCOrders == {
    <<MCWp(24, 5, 3)>>,
    <<MCWp(12, 5, 5), MCWp(5, 1, 3), MCWp(3, 3, 3)>>,
    <<MCFacing(MCWp(4, 2, 3), 4, 1), MCFacing(MCWp(8, 3, 3), -3, 2)>>,
    <<MCWp(7, 3, 0), MCWp(9, 3, 0)>>,
    <<MCFacing(MCWp(3, 2, 3), 2, 0)>>,
    <<MCWp(5, 0, 3)>>}
=============================================================================
