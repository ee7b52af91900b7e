----------------------------- MODULE MCDkwStages -----------------------------
(***************************************************************************)
(* Instances of DkwStages for TLC.  With a base of one, five samples make  *)
(* three stages, of one, four and five samples.                            *)
(***************************************************************************)
EXTENDS DkwStages
=============================================================================
