---------------------------- MODULE MCRedisCache ----------------------------
(* The redis cache for TLC: two patterns, Empty and a proper prefix.       *)
EXTENDS RedisCache, TLC

CONSTANTS k1, k2

MCKeys == {k1, k2}
MCPatterns == {"all", "a"}
MCMatching == [p \in MCPatterns |-> IF p = "all" THEN MCKeys ELSE MCKeys \ {k1}]
=============================================================================
