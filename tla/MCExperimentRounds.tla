------------------------- MODULE MCExperimentRounds -------------------------
(***************************************************************************)
(* Instances of ExperimentRounds for TLC.                                  *)
(***************************************************************************)
EXTENDS ExperimentRounds, TLC

Symmetry == Permutations(Roots)
=============================================================================
