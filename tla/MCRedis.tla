------------------------------ MODULE MCRedis ------------------------------
(***************************************************************************)
(* The users of Redis' single keys, for TLC: the ids of DistributeId and   *)
(* the methods of Cache.  They use different keys and clients, so a        *)
(* behaviour has one of the two.                                           *)
(***************************************************************************)
EXTENDS DistributeId, Cache, TLC

SwapCallers == Permutations(Callers)

RedisInit == Init /\ CacheInit
RedisNext ==
    \/ Next /\ life = "new" /\ UNCHANGED cacheVars
    \/ CacheNext /\ key = None /\ (\A p \in Procs : pc[p] = "idle")
       /\ UNCHANGED vars
RedisSpec == RedisInit /\ [][RedisNext]_<<vars, cacheVars>>
=============================================================================
