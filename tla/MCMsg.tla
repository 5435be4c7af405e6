-------------------------------- MODULE MCMsg --------------------------------
(* Instances of Msg for TLC. *)
EXTENDS Msg, TLC
CONSTANTS p1, p2, p3

EmptyAndLong == {<<0, 1>>, <<3, 2>>}
AnyOneLeast == {0, 1, -2}

Perms == Permutations(Proc)
==============================================================================
