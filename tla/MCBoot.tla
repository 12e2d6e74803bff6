------------------------------- MODULE MCBoot -------------------------------
(* What TLC needs to check Boot: every environment.                        *)
EXTENDS Boot, TLC

AllEnvs == [db : DbTypes, cache : CacheTypes, session : SessionTypes]
Symmetry == Permutations(Apps)
=============================================================================
