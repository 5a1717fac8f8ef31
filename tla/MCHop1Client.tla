---------------------------- MODULE MCHop1Client ----------------------------
(***************************************************************************)
(* The model is finite as it is.  CutSends is TRUE: a send may time out    *)
(* (SO_SNDTIMEO) on a connection that is up.                               *)
(***************************************************************************)
EXTENDS Hop1Client
=============================================================================
