-------------------------------- MODULE MCPipe --------------------------------
(* Instances of Pipe for TLC. *)
EXTENDS Pipe, TLC
CONSTANTS p1, p2

Symmetric == Permutations(Proc)
=============================================================================
