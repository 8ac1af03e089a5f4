------------------------------ MODULE MCLifespan ------------------------------
(* A small instance of Lifespan for TLC. *)
EXTENDS Lifespan
===============================================================================
