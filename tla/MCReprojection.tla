---------------------------- MODULE MCReprojection ----------------------------
(* Instances of Reprojection for TLC. *)
EXTENDS Reprojection, TLC

WorkerSymmetry == Permutations(Worker)
=============================================================================
