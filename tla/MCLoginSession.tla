--------------------------- MODULE MCLoginSession ---------------------------
(* Login and sessions for TLC: the bounds are in the .cfg files.           *)
EXTENDS LoginSession, TLC

Symmetry == UNION {Permutations(S) : S \in {Users, Browsers, Slots, Tokens, Hashes}}

=============================================================================
