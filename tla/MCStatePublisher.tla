-------------------------- MODULE MCStatePublisher --------------------------
(***************************************************************************)
(* One order of one waypoint, sent any number of times: what is published  *)
(* does not depend on the waypoint reached, and an order sent again is not *)
(* done again, so its second COMPLETED can come too early like another's.  *)
(* Its id is longer than what the firmware keeps of it.                    *)
(***************************************************************************)
EXTENDS StatePublisher, TLC

CONSTANTS o1, cut

MCOneOrder == {o1}
MCOneWpCount == o1 :> 1
MCKept == o1 :> cut
=============================================================================
