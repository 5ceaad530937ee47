-------------------------- MODULE MCProgressTracker --------------------------
(* ProgressTracker for TLC: ids are only compared for equality. *)
EXTENDS ProgressTracker, TLC

NodeSymmetry == Permutations(Node)
=============================================================================
