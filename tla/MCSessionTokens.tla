---------------------------- MODULE MCSessionTokens ----------------------------
(* Instances of SessionTokens for TLC. *)
EXTENDS SessionTokens
===============================================================================
