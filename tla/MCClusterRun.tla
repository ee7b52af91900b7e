----------------------------- MODULE MCClusterRun -----------------------------
(***************************************************************************)
(* Instances of ClusterRun for TLC.  Workers are interchangeable, which    *)
(* the safety runs use; the liveness runs do not.                          *)
(***************************************************************************)
EXTENDS ClusterRun, TLC

Symmetry == Permutations(Workers)
=============================================================================
