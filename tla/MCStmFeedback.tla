--------------------------- MODULE MCStmFeedback ---------------------------
(***************************************************************************)
(* A clock of twelve values for 2^32 milliseconds, ages of three and five  *)
(* for 300 and 500: the stamp, the copy and the clock wrap in every        *)
(* relative position, and silence and stall together are the longest that  *)
(* FeedbackAssumption admits.                                              *)
(***************************************************************************)
EXTENDS StmFeedback
=============================================================================
