-------------------------- MODULE MCRequestLifecycle --------------------------
(* Instances of RequestLifecycle for TLC.  Requests share no state here, so   *)
(* one stands for any number of them.                                         *)
EXTENDS RequestLifecycle
===============================================================================
