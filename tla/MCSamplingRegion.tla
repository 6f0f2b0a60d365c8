-------------------------- MODULE MCSamplingRegion --------------------------
(* Instances of SamplingRegion for TLC. *)
EXTENDS SamplingRegion
=============================================================================
