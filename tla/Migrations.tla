----------------------------- MODULE Migrations -----------------------------
(***************************************************************************)
(* The command line of celeritas (celeritas/cli) and the migrations it     *)
(* runs with golang-migrate (celeritas/migrations.go) on a postgres        *)
(* database.  Several developers or deployments run commands at once on    *)
(* one directory and one database; a process or its connection may die     *)
(* between any two steps.                                                  *)
(***************************************************************************)
EXTENDS Naturals, FiniteSets, FiniteSetsExt

CONSTANTS
    Processes,
    MaxVersion,  \* bound: migrations ever made
    Templates,   \* number of Go files and pages that make auth copies
    Commands,    \* the commands that may be given
    None

ASSUME MigrationsAssumption ==
    /\ MaxVersion \in Nat /\ Templates \in Nat \ {0}
    /\ Commands \subseteq {"up", "down", "down all", "reset",
                           "migration", "session", "auth"}
    /\ None \notin Processes

VARIABLES
    clock,      \* the newest timestamp taken as a version
    files,      \* the directory migrations: version -> what it holds
    generated,  \* how many of the templates of make auth are in place
    version,    \* table schema_migrations; 0 is migrate's -1, no version
    dirty,
    tables,     \* what migrations have created
    holder,     \* who holds migrate's advisory lock
    proc,       \* the processes
    (* history, which no guard reads *)
    shaken      \* a file appeared out of order, or a down file was missing

vars == <<clock, files, generated, version, dirty, tables, holder, proc, shaken>>
-----------------------------------------------------------------------------
Versions == 1 .. MaxVersion
Makes == {"migration", "session", "auth"}
File == [kind : Makes \union {None}, has : {"nothing", "up", "both"}]
NoFile == [kind |-> None, has |-> "nothing"]

(* kind, mine: the migration it makes; list: what New saw of the directory;*)
(* way: the direction in which it migrates; then: what follows; at: the    *)
(* migration or the copy under way.  A process exits with status 0 whether *)
(* it failed or not, so that its end leaves nothing else behind.           *)
Idle == [pc |-> "idle", kind |-> None, mine |-> 0,
         list |-> [v \in Versions |-> NoFile], way |-> "up", then |-> "nothing", at |-> 0]
Busy(p) == proc[p].pc # "idle"
Migrating(p) == proc[p].pc \in {"run", "clean"}

Listed(list) == {v \in Versions : list[v].has # "nothing"}

(* auth and session tables have one name; every other migration has its own. *)
Created(list, v) == <<list[v].kind, IF list[v].kind = "migration" THEN v ELSE 0>>

Init ==
    /\ clock = 0 /\ generated = 0 /\ version = 0 /\ dirty = FALSE
    /\ files = [v \in Versions |-> NoFile]
    /\ tables = {} /\ shaken = FALSE
    /\ holder = None
    /\ proc = [p \in Processes |-> Idle]

Become(p, c) == proc' = [proc EXCEPT ![p] = c]
Exit(p) == Become(p, Idle)
Goto(p, pc) == Become(p, [proc[p] EXCEPT !.pc = pc])
At(p, pc) == proc[p].pc = pc
Database == <<version, dirty, tables>>
Directory == <<clock, files, generated>>
-----------------------------------------------------------------------------
(* Commands.  Those that make a migration first take the time as version;  *)
(* the others begin with migrate.New, which lists the directory.           *)
Run(p, command) ==
    /\ ~Busy(p)
    /\ IF command \in Makes
       THEN /\ clock < MaxVersion
            /\ clock' = clock + 1
            /\ Become(p, [Idle EXCEPT
                 !.pc = "write up", !.kind = command, !.mine = clock',
                 !.then = IF command = "auth" THEN "copy" ELSE "nothing"])
       ELSE /\ Become(p, [Idle EXCEPT
                 !.pc = "ensure", !.list = files,
                 !.way = CASE command = "up" -> "up"
                           [] command = "down" -> "one"
                           [] OTHER -> "down",
                 !.then = IF command = "reset" THEN "up" ELSE "nothing"])
            /\ UNCHANGED clock
    /\ UNCHANGED <<files, generated, Database, holder, shaken>>

WriteUp(p) ==
    LET v == proc[p].mine IN
    /\ At(p, "write up")
    /\ files' = [files EXCEPT ![v] = [kind |-> proc[p].kind, has |-> "up"]]
    /\ shaken' = (shaken \/ \E w \in Listed(files) : w > v)
    /\ Goto(p, "write down")
    /\ UNCHANGED <<clock, generated, Database, holder>>

(* make migration leaves running it to the developer. *)
WriteDown(p) ==
    /\ At(p, "write down")
    /\ files' = [files EXCEPT ![proc[p].mine].has = "both"]
    /\ IF proc[p].kind = "migration" THEN Exit(p)
       ELSE Become(p, [proc[p] EXCEPT !.pc = "list", !.kind = None])
    /\ UNCHANGED <<clock, generated, Database, holder, shaken>>

(* The rest of make auth: a file that exists ends the command. *)
Copy(p) ==
    LET n == proc[p].at + 1 IN
    /\ At(p, "copy")
    /\ IF generated >= n THEN Exit(p) /\ UNCHANGED generated
       ELSE /\ generated' = n
            /\ IF n = Templates THEN Exit(p) ELSE Become(p, [proc[p] EXCEPT !.at = n])
    /\ UNCHANGED <<clock, files, Database, holder, shaken>>
-----------------------------------------------------------------------------
(* migrate.New lists the directory, then ensures that the version table    *)
(* exists, under the lock and without a timeout.                           *)
List(p) ==
    /\ At(p, "list")
    /\ Become(p, [proc[p] EXCEPT !.list = files, !.pc = "ensure"])
    /\ UNCHANGED <<Directory, Database, holder, shaken>>

EnsureVersionTable(p) ==
    /\ At(p, "ensure") /\ holder = None
    /\ Goto(p, "lock")
    /\ UNCHANGED <<Directory, Database, holder, shaken>>

(* Mutant: the command goes on without the lock. *)
LockNot(p) ==
    /\ At(p, "lock") /\ Goto(p, "check")
    /\ UNCHANGED <<holder, Directory, Database, shaken>>

(* The lock is waited for until LockTimeout. *)
Lock(p) ==
    /\ At(p, "lock") /\ holder = None
    /\ holder' = p /\ Goto(p, "check")
    /\ UNCHANGED <<Directory, Database, shaken>>

LockTimeout(p) ==
    /\ At(p, "lock") /\ holder # None
    /\ Exit(p)
    /\ UNCHANGED <<Directory, Database, holder, shaken>>

Unlock(p) == holder' = IF holder = p THEN None ELSE holder

Pending(p) ==
    IF proc[p].way = "up" THEN {v \in Listed(proc[p].list) : v > version}
    ELSE {v \in Listed(proc[p].list) : v <= version}

(* Mutant: the dirty flag is not looked at. *)
RefusedButDirty(p) ==
    \/ version # 0 /\ version \notin Listed(proc[p].list)
    \/ Pending(p) = {}

(* A dirty database, a version without a file and nothing to do are errors. *)
Refused(p) ==
    \/ dirty
    \/ version # 0 /\ version \notin Listed(proc[p].list)
    \/ Pending(p) = {}

(* What follows the last migration of a pass.  reset goes down, then up.   *)
After(p) ==
    CASE proc[p].then = "up" -> [Idle EXCEPT !.pc = "list"]
      [] proc[p].then = "copy" -> [Idle EXCEPT !.pc = "copy", !.mine = proc[p].mine]
      [] OTHER -> Idle

(* Mutant: make auth drops the error of doMigrate. *)
RefuseUnnoticed(p) ==
    /\ At(p, "check") /\ Refused(p)
    /\ Become(p, After(p)) /\ Unlock(p)
    /\ UNCHANGED <<Directory, Database, shaken>>

Refuse(p) ==
    /\ At(p, "check") /\ Refused(p)
    /\ Exit(p) /\ Unlock(p)
    /\ UNCHANGED <<Directory, Database, shaken>>
-----------------------------------------------------------------------------
(* runMigrations: for each migration the version it leads to is written    *)
(* with the dirty flag, its body run, and the flag cleared.  The check,    *)
(* made once, holds for all of the pass under the lock.                    *)

(* Mutant: the version written is the one after the migration. *)
TargetBeyond(p) ==
    IF proc[p].way = "up" THEN [at |-> Min(Pending(p)), version |-> Min(Pending(p)) + 1]
    ELSE [at |-> Max(Pending(p)), version |-> Max(Pending(p))]

Target(p) ==
    IF proc[p].way = "up" THEN [at |-> Min(Pending(p)), version |-> Min(Pending(p))]
    ELSE [at |-> Max(Pending(p)),
          version |-> Max({0} \union {v \in Pending(p) : v < Max(Pending(p))})]

(* Mutant: the version is written without the dirty flag. *)
SetVersionOnly(p) ==
    /\ At(p, "check") /\ ~Refused(p)
    /\ version' = Target(p).version /\ dirty' = FALSE
    /\ Become(p, [proc[p] EXCEPT !.at = Target(p).at, !.pc = "run"])
    /\ UNCHANGED <<Directory, tables, holder, shaken>>

SetDirty(p) ==
    /\ At(p, "check") /\ ~Refused(p)
    /\ version' = Target(p).version /\ dirty' = TRUE
    /\ Become(p, [proc[p] EXCEPT !.at = Target(p).at, !.pc = "run"])
    /\ UNCHANGED <<Directory, tables, holder, shaken>>

(* The tables of make auth are dropped if they exist, going up or down;    *)
(* others are created and dropped without asking, which may fail.          *)
BodyFails(p) ==
    LET table == Created(proc[p].list, proc[p].at) IN
    /\ table[1] # "auth"
    /\ (proc[p].way = "up") <=> (table \in tables)

(* A migration of which New saw no down file has no body and is passed over. *)
RunBody(p) ==
    LET v == proc[p].at  table == Created(proc[p].list, v)  up == proc[p].way = "up" IN
    /\ At(p, "run")
    /\ IF ~up /\ proc[p].list[v].has = "up"
       THEN /\ shaken' = TRUE
            /\ Goto(p, "clean") /\ UNCHANGED <<tables, holder>>
       ELSE /\ UNCHANGED shaken
            /\ IF BodyFails(p)
               THEN Exit(p) /\ Unlock(p) /\ UNCHANGED tables
               ELSE /\ tables' = IF up THEN tables \union {table} ELSE tables \ {table}
                    /\ Goto(p, "clean") /\ UNCHANGED holder
    /\ UNCHANGED <<Directory, version, dirty>>

(* Mutant: the lock is not given back at the end of a pass, which keeps    *)
(* its connection open (m.Close missing), while reset goes on.             *)
SetCleanKeepsLock(p) ==
    LET last == proc[p].way = "one" \/ Pending(p) = {} IN
    /\ At(p, "clean")
    /\ dirty' = FALSE
    /\ IF last THEN Become(p, After(p)) ELSE Goto(p, "check")
    /\ IF last /\ ~(After(p).pc = "list") THEN Unlock(p) ELSE UNCHANGED holder
    /\ UNCHANGED <<Directory, version, tables, shaken>>

SetClean(p) ==
    LET last == proc[p].way = "one" \/ Pending(p) = {} IN
    /\ At(p, "clean")
    /\ dirty' = FALSE
    /\ IF last THEN Become(p, After(p)) /\ Unlock(p) ELSE Goto(p, "check") /\ UNCHANGED holder
    /\ UNCHANGED <<Directory, version, tables, shaken>>

(* The process is killed, or an error of the disk or the database ends it. *)
(* The server gives the lock back with the connection.                     *)
Die(p) ==
    /\ Busy(p)
    /\ Exit(p) /\ Unlock(p)
    /\ UNCHANGED <<Directory, Database, shaken>>
-----------------------------------------------------------------------------
Step(p) ==
    \/ WriteUp(p) \/ WriteDown(p) \/ Copy(p)
    \/ List(p) \/ EnsureVersionTable(p) \/ Lock(p) \/ LockTimeout(p)
    \/ Refuse(p) \/ SetDirty(p) \/ RunBody(p) \/ SetClean(p)

Next == \E p \in Processes : Step(p) \/ Die(p) \/ \E c \in Commands : Run(p, c)

Spec == Init /\ [][Next]_vars

(* A process that can go on does so, and the server serves those who wait  *)
(* for the lock in turn: strong fairness.  Nobody has to die.              *)
FairSpec == Spec /\ \A p \in Processes : SF_vars(Step(p))
-----------------------------------------------------------------------------
Process ==
    [pc : {"idle", "write up", "write down", "copy", "list", "ensure", "lock", "check",
           "run", "clean"},
     kind : Makes \union {None}, mine : 0 .. MaxVersion, list : [Versions -> File],
     way : {"up", "down", "one"}, then : {"nothing", "up", "copy"}, at : Nat]

(* Versions and tables are those that migrations can have made; no        *)
(* migration leads past the last file (migrate.go:665).                    *)
TypeOK ==
    /\ clock \in 0 .. MaxVersion /\ files \in [Versions -> File]
    /\ generated \in 0 .. Templates
    /\ version \in 0 .. MaxVersion /\ dirty \in BOOLEAN
    /\ tables \subseteq Makes \X (0 .. MaxVersion)
    /\ holder \in Processes \union {None}
    /\ proc \in [Processes -> Process]
    /\ shaken \in BOOLEAN

(* Only the holder of the lock is between the check of the version and the *)
(* end of its migrations (golang-migrate holds it across all of a pass).   *)
OnlyHolderMigrates ==
    \A p \in Processes : proc[p].pc \in {"check", "run", "clean"} => holder = p

(* A version that is not dirty says which tables there are, whoever died   *)
(* or failed and wherever, unless two migrations make the same table, a    *)
(* file came too late or without its down file.                            *)
SingleKinds ==
    \A v, w \in Listed(files) : Created(files, v) = Created(files, w) => v = w
CleanVersionTellsSchema ==
    ~dirty /\ ~shaken /\ SingleKinds =>
        tables = {Created(files, v) : v \in {w \in Listed(files) : w <= version}}

(* make auth begins to copy its files only when its tables are there:      *)
(* otherwise it stops (auth.go:29-32).                                     *)
CopiesAfterMigration ==
    [][\A p \in Processes :
          ~At(p, "copy") /\ proc'[p].pc = "copy" /\ ~shaken /\ SingleKinds
          => <<"auth", 0>> \in tables]_vars

(* A database that a failed migration left dirty stays as it is, whatever  *)
(* commands follow: none of them reaches MigrateForce.                     *)
DirtyIsLeftAlone ==
    [][dirty /\ (\A p \in Processes : ~Migrating(p)) => UNCHANGED Database]_vars

(* Every command ends: who cannot have the lock gives up or gets it. *)
EveryCommandEnds == \A p \in Processes : Busy(p) ~> ~Busy(p)
=============================================================================
