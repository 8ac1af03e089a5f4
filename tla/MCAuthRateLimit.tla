--------------------------- MODULE MCAuthRateLimit ----------------------------
(* A small instance of AuthRateLimit for TLC. *)
EXTENDS AuthRateLimit
===============================================================================
