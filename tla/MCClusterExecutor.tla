-------------------------- MODULE MCClusterExecutor --------------------------
(***************************************************************************)
(* Instances of ClusterExecutor for TLC.  Workers are interchangeable,     *)
(* which the safety runs use; the liveness runs do not.                    *)
(***************************************************************************)
EXTENDS ClusterExecutor, TLC

Symmetry == Permutations(Workers)
=============================================================================
