---------------------------- MODULE MCRedisQueue ----------------------------
(* TLC instance of RedisQueue: two slots of the pool "general". *)
EXTENDS RedisQueue, TLC

CONSTANTS r1, r2, w1, w2, general

OnePool == w1 :> general @@ w2 :> general
=============================================================================
