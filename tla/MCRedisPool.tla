------------------------------- MODULE MCRedisPool -------------------------------
(***************************************************************************)
(* Instances of RedisPool: the constants are given in the .cfg files.      *)
(***************************************************************************)
EXTENDS RedisPool
================================================================================
