------------------------------ MODULE MCClient ------------------------------
(* Instances of the client for TLC. *)
EXTENDS ClientProperties

CONSTANTS amy, bob
=============================================================================
