--------------------------- MODULE MCBadgerCache ---------------------------
(* The badger cache for TLC: two patterns, Empty and a proper prefix.      *)
EXTENDS BadgerCache, TLC

CONSTANTS k1, k2, k3, k4

MCKeys == {k1, k2, k3, k4}
MCPatterns == {"all", "a"}
MCMatching == [p \in MCPatterns |-> IF p = "all" THEN MCKeys ELSE MCKeys \ {k1}]
MCRefused == {k4}

Symmetry == Permutations(Clients)

=============================================================================
