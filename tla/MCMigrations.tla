---------------------------- MODULE MCMigrations ----------------------------
(* What TLC needs to check Migrations on small instances.                  *)
EXTENDS Migrations, TLC

(* "down all" is the first half of "reset", and "migration" makes a file as *)
(* "session" does, but leaves running it to another command.               *)
MostCommands == {"up", "down", "reset", "session", "auth"}
=============================================================================
