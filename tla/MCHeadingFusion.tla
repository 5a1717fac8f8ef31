-------------------------- MODULE MCHeadingFusion --------------------------
(***************************************************************************)
(* Six headings: enough for a correction of more than one unit either way, *)
(* and for two headings on either side of the half turn.                   *)
(***************************************************************************)
EXTENDS HeadingFusion
=============================================================================
