------------------------------- MODULE MCAlloc -------------------------------
(* Instances of Alloc for TLC. *)
EXTENDS Alloc, TLC
CONSTANTS p1, p2, p3, b1, b2, b3

Symmetric == Permutations(Proc) \cup Permutations(Block)
==============================================================================
