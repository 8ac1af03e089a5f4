---------------------------- MODULE MCUsageRollup ----------------------------
(* Instances of UsageRollup for TLC. *)
EXTENDS UsageRollup
===============================================================================
