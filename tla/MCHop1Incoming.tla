--------------------------- MODULE MCHop1Incoming ---------------------------
(***************************************************************************)
(* An order, one with an id too long for the acknowledgment, so that       *)
(* halves can be mixed, one without waypoints and one too large; two       *)
(* messages in flight, one behind the one being received.                  *)
(***************************************************************************)
EXTENDS Hop1Incoming, TLC

CONSTANTS o1, long_id, empty, outsize

MCMsg == {o1, long_id, empty, outsize}
MCKind == (o1 :> "order") @@ (long_id :> "long_id") @@ (empty :> "empty")
       @@ (outsize :> "outsize")
=============================================================================
