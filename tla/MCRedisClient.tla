--------------------------- MODULE MCRedisClient ---------------------------
(* An instance of RedisClient for TLC: three calls in the first loop, as   *)
(* in the API, and two loops of one call each, as in the worker.           *)
EXTENDS RedisClient, TLC

CONSTANTS a1, a2, a3, t1, t2

MCCalls == {a1, a2, a3, t1, t2}
MCLoopOf == (a1 :> 0 @@ a2 :> 0 @@ a3 :> 0 @@ t1 :> 1 @@ t2 :> 2)
=============================================================================
