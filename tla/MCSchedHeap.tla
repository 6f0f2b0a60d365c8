---------------------------- MODULE MCSchedHeap ----------------------------
(* Instances of SchedHeap for TLC. *)
EXTENDS SchedHeap, TLC

Symmetry == Permutations(Proc)
=============================================================================
