------------------------------ MODULE MCCallout ------------------------------
(* Instances of Callout for TLC. *)
EXTENDS Callout
=============================================================================
