------------------------------ MODULE MCSched ------------------------------
(* Instances of Sched for TLC. *)
EXTENDS SchedRefinement, TLC

Symmetry == Permutations(Proc \ {Root})
=============================================================================
