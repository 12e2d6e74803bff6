---------------------------- MODULE MCMailQueue ----------------------------
(* The mail queue for TLC: the bounds are in the .cfg files.               *)
EXTENDS MailQueue, TLC

Symmetry == Permutations(Requests)

=============================================================================
