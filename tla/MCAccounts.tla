----------------------------- MODULE MCAccounts -----------------------------
(* What TLC needs to check Accounts on small instances.                    *)
EXTENDS Accounts, TLC

Symmetry == Permutations(Calls) \union Permutations(Values) \union Permutations(Secrets)
=============================================================================
