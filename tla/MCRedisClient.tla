---------------------------- MODULE MCRedisClient ----------------------------
(* Instances of RedisClient for TLC. *)
EXTENDS RedisClient
===============================================================================
