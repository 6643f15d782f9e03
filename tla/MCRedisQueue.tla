---------------------------- MODULE MCRedisQueue ----------------------------
(* Instances of RedisQueue for TLC: nodes and items are interchangeable.   *)
EXTENDS RedisQueue, TLC

Symmetric == Permutations(Node) \cup Permutations(Item)
=============================================================================
