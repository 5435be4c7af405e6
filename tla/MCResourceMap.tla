---------------------------- MODULE MCResourceMap ----------------------------
(* An instance of ResourceMap for TLC. *)
EXTENDS ResourceMap
=============================================================================
