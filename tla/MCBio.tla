-------------------------------- MODULE MCBio --------------------------------
(* Small instances of the buffer cache for TLC. *)
EXTENDS BioStore
CONSTANTS d1, d2, k1, k2, k3

TwoDevs == k1 :> d1 @@ k2 :> d2
TwoOnOne == TwoDevs @@ k3 :> d2

Symmetric == Permutations(Buf) \cup Permutations(Proc) \cup Permutations(Val)
SymmetricBlocks == Symmetric \cup Permutations({k2, k3})
=============================================================================
