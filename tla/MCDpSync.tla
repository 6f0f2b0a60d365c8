------------------------------ MODULE MCDpSync ------------------------------
(* Instances of DpSync for TLC. *)
EXTENDS DpSyncRefinement, TLC

Symmetry == Permutations(Child)
=============================================================================
