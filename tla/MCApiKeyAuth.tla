----------------------------- MODULE MCApiKeyAuth -----------------------------
(* A small instance of ApiKeyAuth for TLC. *)
EXTENDS ApiKeyAuth, TLC

Symmetry == Permutations(Requests) \cup Permutations(Admins)
===============================================================================
