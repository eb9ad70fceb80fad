---------------------------- MODULE MCGpuPermits ----------------------------
(* Instances of GpuPermits for TLC.                                           *)
EXTENDS GpuPermits, TLC

Symmetric == Permutations(Child)

=============================================================================
