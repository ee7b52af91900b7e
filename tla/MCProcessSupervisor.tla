------------------------- MODULE MCProcessSupervisor -------------------------
(***************************************************************************)
(* Instances of ProcessSupervisor for TLC.                                 *)
(***************************************************************************)
EXTENDS ProcessSupervisor, TLC

Symmetry == Permutations(Requests)
=============================================================================
