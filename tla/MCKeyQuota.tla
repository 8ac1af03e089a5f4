------------------------------ MODULE MCKeyQuota ------------------------------
(* Small instances of KeyQuota for TLC. *)
EXTENDS KeyQuota, TLC

Symmetry == Permutations(Sessions)
===============================================================================
