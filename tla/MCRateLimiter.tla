---------------------------- MODULE MCRateLimiter -----------------------------
(* Small instances of RateLimiter for TLC: three windows in the code's order  *)
(* of length and limit.                                                       *)
EXTENDS RateLimiter

MCWindows == {"m", "d", "M"}
MCLimit   == [w \in MCWindows |-> CASE w = "m" -> 2 [] w = "d" -> 3 [] w = "M" -> 4]
MCLength  == [w \in MCWindows |-> CASE w = "m" -> 1 [] w = "d" -> 2 [] w = "M" -> 4]
===============================================================================
