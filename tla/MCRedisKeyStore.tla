-------------------------- MODULE MCRedisKeyStore --------------------------
(* RedisKeyStore on small sets of calls and ids.                           *)
EXTENDS RedisKeyStore, TLC

(* Calls of a kind, and ids the rate limiter does not own, are             *)
(* interchangeable: they are only compared for equality.                   *)
Symmetry ==
  Permutations(Savers) \cup Permutations(Loaders) \cup Permutations(Ids \ CounterKeys)
=============================================================================
