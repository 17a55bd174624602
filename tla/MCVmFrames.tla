----------------------------- MODULE MCVmFrames -----------------------------
(* Instances of VmFrames.                                                  *)
EXTENDS VmFrames, TLC

Symmetric == Permutations(Frames) \cup Permutations(Generators)
=============================================================================
