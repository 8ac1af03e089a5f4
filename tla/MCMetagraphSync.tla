---------------------------- MODULE MCMetagraphSync ----------------------------
(* Instances of MetagraphSync for TLC. *)
EXTENDS MetagraphSync

CONSTANTS s1, s2

TwoSubnets == <<s1, s2>>
===============================================================================
