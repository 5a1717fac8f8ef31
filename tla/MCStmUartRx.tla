---------------------------- MODULE MCStmUartRx ----------------------------
(***************************************************************************)
(* Feedbacks of two bytes, safety events of one, a longest payload of      *)
(* eight: a length field made of noise can swallow a frame and a half.  The *)
(* sequence number and every payload byte may be the start byte, so a task *)
(* out of step finds a frame inside a frame; that the CRC may contain it   *)
(* too is left to the proofs.                                              *)
(***************************************************************************)
EXTENDS StmUartRx
=============================================================================
