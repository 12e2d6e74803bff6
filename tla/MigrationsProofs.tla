-------------------------- MODULE MigrationsProofs --------------------------
(***************************************************************************)
(* Theorems about the migrations, for every number of processes, versions  *)
(* and templates and every set of commands.                                *)
(***************************************************************************)
EXTENDS Migrations, FiniteSetTheorems, TLAPS

(* A set and a proper subset of it are in the library's ordering.          *)
LEMMA StrictSubset ==
    ASSUME NEW S, NEW A, NEW B, A \subseteq B, B \subseteq S, NEW y \in B, y \notin A
    PROVE  <<A, B>> \in StrictSubsetOrdering(S)
<1>1. A \in SUBSET S /\ B \in SUBSET S
  OBVIOUS
<1> QED BY <1>1 DEF StrictSubsetOrdering

(* A set of numbers below a bound that is not empty has a least and a      *)
(* greatest number.  The subsets of 0 .. n are well founded under strict   *)
(* inclusion, and the numbers above (below) the wanted one are such a set. *)
LEMMA Extremes ==
    ASSUME NEW n \in Nat, NEW S \in SUBSET (0 .. n), S # {}
    PROVE  /\ Min(S) \in S /\ \A y \in S : Min(S) <= y
           /\ Max(S) \in S /\ \A y \in S : y <= Max(S)
<1> DEFINE I == 0 .. n
           Below(z) == {y \in I : y < z}
           Above(z) == {y \in I : y > z}
<1>1. IsWellFoundedOn(StrictSubsetOrdering(I), SUBSET I)
  <2>1. IsFiniteSet(I)
    BY FS_Interval
  <2> HIDE DEF I
  <2>2. FiniteSubsetsOf(I) = SUBSET I
    BY <2>1, FS_FiniteSubsetsOfFinite
  <2> QED BY <2>2, FS_StrictSubsetOrderingWellFounded
<1>2. \E x \in S : \A y \in S : x <= y
  <2> DEFINE T == {Below(z) : z \in S}
  <2>1. PICK X \in T : \A Y \in T : <<Y, X>> \notin StrictSubsetOrdering(I)
    <3>1. T \subseteq SUBSET I /\ T # {}
      OBVIOUS
    <3> HIDE DEF T
    <3> QED BY <1>1, <3>1, WFMin
  <2>2. PICK x \in S : X = Below(x)
    OBVIOUS
  <2>3. ASSUME NEW y \in S, y < x PROVE FALSE
    <3>1. /\ Below(y) \subseteq Below(x) /\ y \in Below(x) /\ y \notin Below(y)
          /\ Below(x) \subseteq I /\ Below(y) \in T
      BY <2>3
    <3> HIDE DEF T, Below, I
    <3>2. <<Below(y), Below(x)>> \in StrictSubsetOrdering(I)
      BY <3>1, StrictSubset
    <3> QED BY <2>1, <2>2, <3>1, <3>2
  <2> QED BY <2>3
<1>3. \E x \in S : \A y \in S : x >= y
  <2> DEFINE T == {Above(z) : z \in S}
  <2>1. PICK X \in T : \A Y \in T : <<Y, X>> \notin StrictSubsetOrdering(I)
    <3>1. T \subseteq SUBSET I /\ T # {}
      OBVIOUS
    <3> HIDE DEF T
    <3> QED BY <1>1, <3>1, WFMin
  <2>2. PICK x \in S : X = Above(x)
    OBVIOUS
  <2>3. ASSUME NEW y \in S, y > x PROVE FALSE
    <3>1. /\ Above(y) \subseteq Above(x) /\ y \in Above(x) /\ y \notin Above(y)
          /\ Above(x) \subseteq I /\ Above(y) \in T
      BY <2>3
    <3> HIDE DEF T, Above, I
    <3>2. <<Above(y), Above(x)>> \in StrictSubsetOrdering(I)
      BY <3>1, StrictSubset
    <3> QED BY <2>1, <2>2, <3>1, <3>2
  <2> QED BY <2>3
<1>4. Min(S) \in S /\ \A y \in S : Min(S) <= y
  BY <1>2 DEF Min
<1>5. Max(S) \in S /\ \A y \in S : Max(S) >= y
  BY <1>3 DEF Max
<1> QED BY <1>4, <1>5

(* What the assumptions say, for the leaves that need nothing else.        *)
LEMMA Bounds == MaxVersion \in Nat /\ Templates \in Nat \ {0} /\ None \notin Processes
BY MigrationsAssumption DEF MigrationsAssumption

(* The order of numbers is transitive.                                     *)
LEMMA AtMost ==
    ASSUME NEW x \in Nat, NEW k \in Nat, NEW m \in Nat, x <= k, k <= m PROVE x <= m
OBVIOUS

(* Everything up to MaxVersion is a number.                                *)
LEMMA NatUpTo == 0 .. MaxVersion \subseteq Nat
BY Bounds

(* Versions are numbers, and only versions are listed.                     *)
LEMMA ListedNat == Versions \subseteq Nat /\ \A f : Listed(f) \subseteq Versions
<1>1. Versions \subseteq Nat
  BY Bounds DEF Versions
<1>2. \A f : Listed(f) \subseteq Versions
  BY DEF Listed
<1> QED BY <1>1, <1>2

(* A database without a version has 0, which comes before all of them.     *)
LEMMA VersionsBound == Versions \subseteq 0 .. MaxVersion /\ 0 \in 0 .. MaxVersion
<1>1. Versions \subseteq 0 .. MaxVersion
  BY Bounds DEF Versions
<1>2. 0 \in 0 .. MaxVersion
  BY Bounds
<1> QED BY <1>1, <1>2

(* The directory is empty at first.                                        *)
LEMMA NoFilesType == [v \in Versions |-> NoFile] \in [Versions -> File]
<1>1. NoFile \in File
  BY DEF NoFile, File
<1> QED BY <1>1

(* A process that does nothing is a process.                               *)
LEMMA IdleType == Idle \in Process
<1>1. 0 \in 0 .. MaxVersion /\ 0 \in Nat
  BY Bounds
<1> QED BY <1>1, NoFilesType DEF Idle, Process

(* A step that changes only its process, and that to a process, keeps the  *)
(* type invariant.                                                         *)
LEMMA BecomeType ==
    ASSUME TypeOK, NEW p \in Processes, NEW c \in Process, Become(p, c)
    PROVE  proc' \in [Processes -> Process]
BY DEF TypeOK, Become

(* Giving the lock back leaves it to a process or to nobody.               *)
LEMMA UnlockType ==
    ASSUME TypeOK, NEW p \in Processes, Unlock(p) \/ UNCHANGED holder
    PROVE  holder' \in Processes \union {None}
BY DEF TypeOK, Unlock

(* A process that goes on to another step stays a process.                 *)
LEMMA GotoType ==
    ASSUME TypeOK, NEW p \in Processes, NEW pc, Goto(p, pc),
           pc \in {"idle", "write up", "write down", "copy", "list", "ensure", "lock", "check",
                   "run", "clean"}
    PROVE  proc' \in [Processes -> Process]
<1>1. proc[p] \in Process
  BY DEF TypeOK
<1>2. [proc[p] EXCEPT !.pc = pc] \in Process
  BY <1>1 DEF Process
<1> QED BY <1>2, BecomeType DEF Goto

(* So does one that ends a pass.                                           *)
LEMMA AfterType ==
    ASSUME TypeOK, NEW p \in Processes
    PROVE  After(p) \in Process
<1>1. proc[p] \in Process
  BY DEF TypeOK
<1>2. [Idle EXCEPT !.pc = "list"] \in Process
  BY IdleType DEF Process
<1>3. [Idle EXCEPT !.pc = "copy", !.mine = proc[p].mine] \in Process
  BY <1>1, IdleType DEF Process
<1> QED BY <1>2, <1>3, IdleType DEF After

(* The migration that a pass takes next, and the version it leads to.      *)
LEMMA TargetType ==
    ASSUME TypeOK, NEW p \in Processes, Pending(p) # {}
    PROVE  Target(p).at \in Pending(p) /\ Target(p).version \in 0 .. MaxVersion
<1> DEFINE Lower == {0} \union {v \in Pending(p) : v < Max(Pending(p))}
<1>1. Pending(p) \in SUBSET (0 .. MaxVersion) /\ MaxVersion \in Nat
  BY Bounds DEF Pending, Listed, Versions
<1>2. Min(Pending(p)) \in Pending(p) /\ Max(Pending(p)) \in Pending(p)
  BY <1>1, Extremes
<1>3. Lower \in SUBSET (0 .. MaxVersion) /\ Lower # {}
  BY <1>1
<1>4. Max(Lower) \in 0 .. MaxVersion
  <2> HIDE DEF Lower
  <2>1. Max(Lower) \in Lower
    BY <1>1, <1>3, Extremes
  <2> QED BY <1>3, <2>1
<1> QED BY <1>1, <1>2, <1>4 DEF Target

(* The initial state is of the types.                                      *)
LEMMA TypeInit == Init => TypeOK
<1>1. Init => proc \in [Processes -> Process]
  BY IdleType DEF Init
<1>2. 0 \in 0 .. MaxVersion /\ 0 \in 0 .. Templates
  BY Bounds
<1> QED BY <1>1, <1>2, NoFilesType DEF Init, TypeOK

(* What a process c knows of the directory fs, made up to the clock k:     *)
(* nobody else has its version; the files that it saw are still there, and *)
(* unless something was shaken (s) they come before the ones it did not    *)
(* see.  It copies but the templates there are.                            *)
Reading == {"ensure", "lock", "check", "run", "clean"}
Knows(c, fs, k, s) ==
    /\ c.pc = "write up" => /\ c.mine \in Versions /\ c.mine <= k
                            /\ c.mine \notin Listed(fs) /\ c.kind \in Makes
    /\ c.pc = "write down" => c.mine \in Listed(fs)
    /\ c.pc \in Reading =>
         /\ \A v \in Listed(c.list) : v \in Listed(fs) /\ c.list[v].kind = fs[v].kind
         /\ ~s => \A v \in Listed(c.list), w \in Listed(fs) \ Listed(c.list) : v < w
    /\ c.pc \in {"run", "clean"} => c.at \in Listed(c.list)
    /\ c.pc = "copy" => c.at + 1 <= Templates

OwnVersions ==
    \A p, q \in Processes :
        At(p, "write up") /\ At(q, "write up") /\ proc[p].mine = proc[q].mine => p = q

FilesInv ==
    /\ \A v \in Listed(files) : v <= clock /\ files[v].kind \in Makes
    /\ \A p \in Processes : Knows(proc[p], files, clock, shaken)
    /\ OwnVersions

(* What the tables are at each point of a migration, as long as nothing    *)
(* was shaken: the holder of the lock alone changes them, marks what it    *)
(* begins and takes every file in its turn.                                *)
Applied(fs, w) == {Created(fs, v) : v \in {x \in Listed(fs) : x <= w}}
Before(fs, w) == {Created(fs, v) : v \in {x \in Listed(fs) : x < w}}
Underway(p) ==
    LET up == proc[p].way = "up"  at == proc[p].at IN
    /\ tables = IF up THEN Before(files, at) ELSE Applied(files, at)
    /\ \A v \in Listed(files) : v <= version <=> IF up THEN v <= at ELSE v < at

SchemaInv ==
    /\ version \in {0} \union Listed(files)
    /\ \A p \in Processes : Migrating(p) => dirty
    /\ ~shaken /\ SingleKinds =>
         /\ ~dirty => tables = Applied(files, version)
         /\ \A p \in Processes : At(p, "run") => Underway(p)
         /\ \A p \in Processes : At(p, "clean") => tables = Applied(files, version)

(* Every action keeps the type invariant.                                  *)
LEMMA TypeStep ==
    ASSUME TypeOK, FilesInv, NEW p \in Processes, Step(p) \/ Die(p) \/ \E c \in Commands : Run(p, c)
    PROVE  TypeOK'
<1> DEFINE HolderOK == holder' \in Processes \union {None}
           ProcOK == proc' \in [Processes -> Process]
<1>0. proc[p] \in Process
  BY DEF TypeOK
<1>1. ASSUME NEW c \in Commands, Run(p, c) PROVE TypeOK'
  <2>1. CASE c \in Makes
    <3>1. clock' \in 0 .. MaxVersion
      <4>1. clock < MaxVersion /\ clock' = clock + 1
        BY <1>1, <2>1 DEF Run
      <4>2. clock \in 0 .. MaxVersion
        BY DEF TypeOK
      <4> QED BY <4>1, <4>2, Bounds
    <3>2. [Idle EXCEPT !.pc = "write up", !.kind = c, !.mine = clock',
                       !.then = IF c = "auth" THEN "copy" ELSE "nothing"] \in Process
      BY <2>1, <3>1, IdleType DEF Process
    <3>3. ProcOK
      BY <1>1, <2>1, <3>2, BecomeType DEF Run
    <3> QED BY <1>1, <2>1, <3>1, <3>3 DEF Run, TypeOK, Database
  <2>2. CASE c \notin Makes
    <3>1. [Idle EXCEPT !.pc = "ensure", !.list = files,
             !.way = CASE c = "up" -> "up" [] c = "down" -> "one" [] OTHER -> "down",
             !.then = IF c = "reset" THEN "up" ELSE "nothing"] \in Process
      <4>1. ASSUME NEW w \in {"up", "down", "one"}, NEW t \in {"nothing", "up", "copy"}
            PROVE  [Idle EXCEPT !.pc = "ensure", !.list = files, !.way = w, !.then = t]
                   \in Process
        BY IdleType DEF Process, TypeOK
      <4>2. (CASE c = "up" -> "up" [] c = "down" -> "one" [] OTHER -> "down")
            \in {"up", "down", "one"}
        OBVIOUS
      <4>3. (IF c = "reset" THEN "up" ELSE "nothing") \in {"nothing", "up", "copy"}
        OBVIOUS
      <4> QED BY <4>1, <4>2, <4>3
    <3>2. ProcOK
      BY <1>1, <2>2, <3>1, BecomeType DEF Run
    <3> QED BY <1>1, <2>2, <3>2 DEF Run, TypeOK, Database
  <2> QED BY <2>1, <2>2
<1>2. CASE Die(p)
  <2>1. ProcOK /\ HolderOK
    BY <1>2, IdleType, BecomeType, UnlockType DEF Die, Exit
  <2> QED BY <1>2, <2>1 DEF Die, TypeOK, Directory, Database
<1>3. CASE WriteUp(p)
  <2>1. ProcOK
    BY <1>3, GotoType DEF WriteUp
  <2>2. [kind |-> proc[p].kind, has |-> "up"] \in File
    BY <1>0 DEF Process, File
  <2>3. files' \in [Versions -> File]
    BY <1>3, <2>2 DEF WriteUp, TypeOK
  <2> QED BY <1>3, <2>1, <2>3 DEF WriteUp, TypeOK, Database
<1>4. CASE WriteDown(p)
  <2>1. [proc[p] EXCEPT !.pc = "list", !.kind = None] \in Process
    BY <1>0 DEF Process
  <2>2. ProcOK
    BY <1>4, <2>1, IdleType, BecomeType DEF WriteDown, Exit
  <2>3. files' \in [Versions -> File]
    <3>1. \A v \in Versions : [files[v] EXCEPT !.has = "both"] \in File
      BY DEF TypeOK, File
    <3> QED BY <1>4, <3>1 DEF WriteDown, TypeOK
  <2> QED BY <1>4, <2>2, <2>3 DEF WriteDown, TypeOK, Database
<1>5. CASE Copy(p)
  <2> DEFINE n == proc[p].at + 1
  <2>5. proc[p].at \in Nat
    BY <1>0 DEF Process
  <2>1. n \in Nat
    BY <2>5
  <2>4. [proc[p] EXCEPT !.at = n] \in Process
    <3> HIDE DEF n
    <3> QED BY <1>0, <2>1 DEF Process
  <2>2. ProcOK
    BY <1>5, <2>4, IdleType, BecomeType DEF Copy, Exit
  <2>3. generated' \in 0 .. Templates
    <3>1. CASE generated >= n
      BY <1>5, <3>1 DEF Copy, TypeOK
    <3>2. CASE ~(generated >= n)
      <4>1. generated' = n
        BY <1>5, <3>2 DEF Copy
      <4>2. n <= Templates
        BY <1>5 DEF Copy, At, FilesInv, Knows
      <4> QED BY <4>1, <4>2, <2>1, Bounds
    <3> QED BY <3>1, <3>2
  <2> QED BY <1>5, <2>2, <2>3 DEF Copy, TypeOK, Database
<1>6. CASE List(p)
  <2>1. [proc[p] EXCEPT !.list = files, !.pc = "ensure"] \in Process
    BY <1>0 DEF Process, TypeOK
  <2>2. ProcOK
    BY <1>6, <2>1, BecomeType DEF List
  <2> QED BY <1>6, <2>2 DEF List, TypeOK, Directory, Database
<1>7. CASE EnsureVersionTable(p)
  <2>1. ProcOK
    BY <1>7, GotoType DEF EnsureVersionTable
  <2> QED BY <1>7, <2>1 DEF EnsureVersionTable, TypeOK, Directory, Database
<1>8. CASE Lock(p)
  <2>1. ProcOK
    BY <1>8, GotoType DEF Lock
  <2> QED BY <1>8, <2>1 DEF Lock, TypeOK, Directory, Database
<1>9. CASE LockTimeout(p)
  <2>1. ProcOK
    BY <1>9, IdleType, BecomeType DEF LockTimeout, Exit
  <2> QED BY <1>9, <2>1 DEF LockTimeout, TypeOK, Directory, Database
<1>10. CASE Refuse(p)
  <2>1. ProcOK /\ HolderOK
    BY <1>10, IdleType, BecomeType, UnlockType DEF Refuse, Exit
  <2> QED BY <1>10, <2>1 DEF Refuse, TypeOK, Directory, Database
<1>11. CASE SetDirty(p)
  <2>1. Target(p).at \in Nat /\ version' \in 0 .. MaxVersion
    <3>1. Pending(p) # {} /\ version' = Target(p).version
      BY <1>11 DEF SetDirty, Refused
    <3>2. Pending(p) \subseteq Nat
      BY DEF Pending, Listed, Versions
    <3> QED BY <3>1, <3>2, TargetType
  <2>2. [proc[p] EXCEPT !.at = Target(p).at, !.pc = "run"] \in Process
    BY <1>0, <2>1 DEF Process
  <2>3. ProcOK
    BY <1>11, <2>2, BecomeType DEF SetDirty
  <2> QED BY <1>11, <2>1, <2>3 DEF SetDirty, TypeOK, Directory
<1>12. CASE RunBody(p)
  <2>1. ProcOK
    BY <1>12, IdleType, BecomeType, GotoType DEF RunBody, Exit
  <2>2. HolderOK
    BY <1>12, UnlockType DEF RunBody
  <2>3. shaken' \in BOOLEAN
    BY <1>12 DEF RunBody, TypeOK
  <2>4. Created(proc[p].list, proc[p].at) \in Makes \X (0 .. MaxVersion)
    <3> DEFINE v == proc[p].at  l == proc[p].list
    <3>1. v \in Listed(l) /\ v \in Listed(files) /\ l[v].kind = files[v].kind
      BY <1>12 DEF RunBody, At, FilesInv, Knows, Reading
    <3> HIDE DEF l, v
    <3>4. v \in Versions
      BY <3>1 DEF Listed
    <3>2. l[v].kind \in Makes /\ v \in 0 .. MaxVersion
      <4>1. l[v].kind \in Makes
        BY <3>1 DEF FilesInv
      <4>2. v \in 0 .. MaxVersion
        BY <3>4, Bounds DEF Versions
      <4> QED BY <4>1, <4>2
    <3>3. 0 \in 0 .. MaxVersion
      BY Bounds
    <3>5. Created(l, v) \in Makes \X (0 .. MaxVersion)
      BY <3>2, <3>3 DEF Created
    <3> QED BY <3>5 DEF l, v
  <2>5. tables' \subseteq Makes \X (0 .. MaxVersion)
    <3> HIDE DEF Created
    <3>1. \/ tables' = tables
          \/ tables' = tables \union {Created(proc[p].list, proc[p].at)}
          \/ tables' = tables \ {Created(proc[p].list, proc[p].at)}
      BY <1>12 DEF RunBody
    <3> QED BY <2>4, <3>1 DEF TypeOK
  <2>6. UNCHANGED <<clock, files, generated, version, dirty>>
    BY <1>12 DEF RunBody, Directory
  <2> QED BY <2>1, <2>2, <2>3, <2>5, <2>6 DEF TypeOK
<1>13. CASE SetClean(p)
  <2>1. ProcOK
    BY <1>13, AfterType, BecomeType, GotoType DEF SetClean
  <2>2. HolderOK
    BY <1>13, UnlockType DEF SetClean
  <2> QED BY <1>13, <2>1, <2>2 DEF SetClean, TypeOK, Directory
<1> QED BY <1>1, <1>2, <1>3, <1>4, <1>5, <1>6, <1>7, <1>8, <1>9, <1>10, <1>11, <1>12, <1>13
        DEF Step
-----------------------------------------------------------------------------
Locked == {"check", "run", "clean"}

(* A process that leaves or stays out of the locked part keeps the others  *)
(* out of it, whether it gives back the lock it had or leaves it alone.    *)
LEMMA OutsideKeepsLock ==
    ASSUME TypeOK, OnlyHolderMigrates, NEW p \in Processes, NEW c, Become(p, c),
           c.pc \notin Locked, Unlock(p) \/ UNCHANGED holder
    PROVE  OnlyHolderMigrates'
<1> SUFFICES ASSUME NEW q \in Processes, proc'[q].pc \in Locked
             PROVE  holder' = q
  BY DEF OnlyHolderMigrates, Locked
<1>1. q # p /\ proc'[q] = proc[q]
  BY DEF TypeOK, Become
<1>2. holder = q
  BY <1>1 DEF OnlyHolderMigrates, Locked
<1> QED BY <1>1, <1>2 DEF Unlock

(* One that has the lock or takes a free one is alone in the locked part.  *)
LEMMA InsideKeepsLock ==
    ASSUME TypeOK, OnlyHolderMigrates, NEW p \in Processes, NEW c, Become(p, c),
           holder \in {p, None}, holder' = p
    PROVE  OnlyHolderMigrates'
<1> SUFFICES ASSUME NEW q \in Processes, proc'[q].pc \in Locked, q # p
             PROVE  FALSE
  BY DEF OnlyHolderMigrates, Locked
<1>1. proc'[q] = proc[q]
  BY DEF TypeOK, Become
<1>2. holder = q
  BY <1>1 DEF OnlyHolderMigrates, Locked
<1> QED BY <1>2, Bounds

(* What follows a pass is outside of the locked part.                      *)
LEMMA AfterIsOutside ==
    ASSUME NEW p PROVE After(p).pc \notin Locked
<1>1. Idle.pc \notin Locked
  BY DEF Idle, Locked
<1>2. [Idle EXCEPT !.pc = "list"].pc \notin Locked
  BY DEF Idle, Locked
<1>3. [Idle EXCEPT !.pc = "copy", !.mine = proc[p].mine].pc \notin Locked
  BY DEF Idle, Locked
<1> QED BY <1>1, <1>2, <1>3 DEF After

(* Every action keeps the migrations to the holder of the lock.            *)
LEMMA LockStep ==
    ASSUME TypeOK, OnlyHolderMigrates, NEW p \in Processes,
           Step(p) \/ Die(p) \/ \E c \in Commands : Run(p, c)
    PROVE  OnlyHolderMigrates'
<1>0. proc[p] \in Process /\ Idle \in Process /\ Idle.pc \notin Locked
  BY IdleType DEF TypeOK, Idle, Locked
<1> DEFINE To(pc) == [proc[p] EXCEPT !.pc = pc]
<1>a. ASSUME NEW pc PROVE To(pc).pc = pc
  BY <1>0 DEF Process
<1>b. At(p, "check") \/ At(p, "run") \/ At(p, "clean") => holder = p
  BY DEF At, OnlyHolderMigrates
<1>1. ASSUME NEW c \in Commands, Run(p, c) PROVE OnlyHolderMigrates'
  <2>1. CASE c \in Makes
    <3>1. [Idle EXCEPT !.pc = "write up", !.kind = c, !.mine = clock',
             !.then = IF c = "auth" THEN "copy" ELSE "nothing"].pc = "write up"
      BY <1>0 DEF Process
    <3> QED BY <1>1, <2>1, <3>1, OutsideKeepsLock DEF Run, Locked
  <2>2. CASE c \notin Makes
    <3> DEFINE e == [Idle EXCEPT !.pc = "ensure", !.list = files,
                 !.way = CASE c = "up" -> "up" [] c = "down" -> "one" [] OTHER -> "down",
                 !.then = IF c = "reset" THEN "up" ELSE "nothing"]
    <3>1. e.pc = "ensure"
      BY <1>0, Zenon DEF Idle
    <3>2. Become(p, e) /\ UNCHANGED holder
      BY <1>1, <2>2 DEF Run
    <3> HIDE DEF e
    <3> QED BY <3>1, <3>2, OutsideKeepsLock DEF Locked
  <2> QED BY <2>1, <2>2
<1>2. CASE Die(p)
  BY <1>0, <1>2, OutsideKeepsLock DEF Die, Exit
<1>3. CASE WriteUp(p)
  BY <1>a, <1>3, OutsideKeepsLock DEF WriteUp, Goto, Locked
<1>4. CASE WriteDown(p)
  <2>1. [proc[p] EXCEPT !.pc = "list", !.kind = None].pc = "list"
    BY <1>0 DEF Process
  <2> QED BY <1>0, <1>4, <2>1, OutsideKeepsLock DEF WriteDown, Exit, Locked
<1>5. CASE Copy(p)
  <2>1. [proc[p] EXCEPT !.at = proc[p].at + 1].pc = proc[p].pc
    BY <1>0 DEF Process
  <2>2. proc[p].pc = "copy" /\ "copy" \notin Locked
    BY <1>5 DEF Copy, At, Locked
  <2> QED BY <1>0, <1>5, <2>1, <2>2, OutsideKeepsLock DEF Copy, Exit
<1>6. CASE List(p)
  <2>1. [proc[p] EXCEPT !.list = files, !.pc = "ensure"].pc = "ensure"
    BY <1>0 DEF Process
  <2> QED BY <1>6, <2>1, OutsideKeepsLock DEF List, Locked
<1>7. CASE EnsureVersionTable(p)
  BY <1>a, <1>7, OutsideKeepsLock DEF EnsureVersionTable, Goto, Locked
<1>8. CASE Lock(p)
  BY <1>8, InsideKeepsLock DEF Lock, Goto
<1>9. CASE LockTimeout(p)
  BY <1>0, <1>9, OutsideKeepsLock DEF LockTimeout, Exit
<1>10. CASE Refuse(p)
  BY <1>0, <1>10, OutsideKeepsLock DEF Refuse, Exit
<1>11. CASE SetDirty(p)
  BY <1>b, <1>11, InsideKeepsLock DEF SetDirty
<1>12. CASE RunBody(p)
  <2>1. \/ Exit(p) /\ Unlock(p)
        \/ Goto(p, "clean") /\ UNCHANGED holder
    BY <1>12 DEF RunBody
  <2>2. holder = p
    BY <1>b, <1>12 DEF RunBody
  <2> QED BY <1>0, <2>1, <2>2, OutsideKeepsLock, InsideKeepsLock DEF Exit, Goto
<1>13. CASE SetClean(p)
  <2>1. \/ Become(p, After(p)) /\ Unlock(p)
        \/ Goto(p, "check") /\ UNCHANGED holder
    BY <1>13 DEF SetClean
  <2>2. holder = p
    BY <1>b, <1>13 DEF SetClean
  <2> QED BY <2>1, <2>2, AfterIsOutside, OutsideKeepsLock, InsideKeepsLock DEF Goto
<1> QED BY <1>1, <1>2, <1>3, <1>4, <1>5, <1>6, <1>7, <1>8, <1>9, <1>10, <1>11, <1>12, <1>13
        DEF Step
-----------------------------------------------------------------------------
(* A process knows no less when files come after those that were there.    *)
LEMMA KnowsMore ==
    ASSUME NEW c, NEW f, NEW g, NEW k \in Nat, NEW m \in Nat, NEW s, NEW t,
           Knows(c, f, k, s), k <= m, Listed(f) \subseteq Listed(g),
           \A v \in Listed(f) : g[v].kind = f[v].kind,
           ~t => ~s /\ \A v \in Listed(f), w \in Listed(g) \ Listed(f) : v < w,
           c.pc = "write up" => c.mine \notin Listed(g)
    PROVE  Knows(c, g, m, t)
<1>2. ASSUME c.pc = "write up" PROVE c.mine \in Versions /\ c.mine <= m /\ c.kind \in Makes
  <2>1. c.mine \in Versions /\ c.mine <= k /\ c.kind \in Makes
    BY <1>2 DEF Knows
  <2>2. c.mine \in Nat
    BY <2>1, ListedNat
  <2>3. c.mine <= m
    BY <2>1, <2>2, AtMost
  <2> QED BY <2>1, <2>3
<1>3. ASSUME c.pc \in Reading
      PROVE  /\ \A v \in Listed(c.list) : v \in Listed(g) /\ c.list[v].kind = g[v].kind
             /\ ~t => \A v \in Listed(c.list), w \in Listed(g) \ Listed(c.list) : v < w
  BY <1>3 DEF Knows
<1> QED BY <1>2, <1>3 DEF Knows

(* A process that does nothing knows nothing.                              *)
LEMMA KnowsIdle ==
    ASSUME NEW f, NEW k, NEW s PROVE Knows(Idle, f, k, s)
<1>1. Idle.pc = "idle"
  BY DEF Idle
<1> QED BY <1>1 DEF Knows, Reading

(* The directory only grows; whatever came first, unless it is recorded.   *)
Grows ==
    /\ clock <= clock'
    /\ Listed(files) \subseteq Listed(files)'
    /\ \A v \in Listed(files) : files'[v].kind = files[v].kind
    /\ ~shaken' => ~shaken /\ \A v \in Listed(files), w \in Listed(files)' \ Listed(files) : v < w

(* A directory that stays the same grows.                                  *)
LEMMA SameGrows ==
    ASSUME TypeOK, UNCHANGED files, clock' = clock \/ clock' = clock + 1, ~shaken' => ~shaken
    PROVE  Grows
BY Bounds DEF TypeOK, Grows, Listed

(* A step that writes no version of another process keeps FilesInv, given  *)
(* what its own process knows afterwards.                                  *)
LEMMA FilesFrame ==
    ASSUME TypeOK, TypeOK', FilesInv, Grows, NEW p \in Processes, NEW c, Become(p, c),
           \A v \in Listed(files)' : v <= clock' /\ files'[v].kind \in Makes,
           \A q \in Processes \ {p} : At(q, "write up") => proc[q].mine \notin Listed(files)',
           c.pc = "write up" =>
              \A q \in Processes : At(q, "write up") => proc[q].mine # c.mine,
           Knows(c, files', clock', shaken')
    PROVE  FilesInv'
<1>1. proc'[p] = c /\ \A q \in Processes \ {p} : proc'[q] = proc[q]
  BY DEF TypeOK, Become
<1>2. ASSUME NEW q \in Processes PROVE Knows(proc'[q], files', clock', shaken')
  <2>1. CASE q = p
    BY <1>1, <2>1
  <2>2. CASE q # p
    <3>1. Knows(proc[q], files, clock, shaken)
      BY DEF FilesInv
    <3>4. clock \in Nat /\ clock' \in Nat
      <4>1. clock \in 0 .. MaxVersion /\ clock' \in 0 .. MaxVersion
        BY DEF TypeOK
      <4> QED BY <4>1, NatUpTo
    <3>2. proc[q].pc = "write up" => proc[q].mine \notin Listed(files')
      BY <2>2 DEF At, Listed
    <3>3. Knows(proc[q], files', clock', shaken')
      BY <3>1, <3>2, <3>4, KnowsMore DEF Grows, Listed
    <3> QED BY <1>1, <2>2, <3>3
  <2> QED BY <2>1, <2>2
<1>3. OwnVersions'
  BY <1>1 DEF FilesInv, OwnVersions, At
<1> QED BY <1>2, <1>3 DEF FilesInv

(* The steps that leave the directory alone.                               *)
LEMMA FilesStay ==
    ASSUME TypeOK, TypeOK', FilesInv, NEW p \in Processes, NEW c, Become(p, c),
           UNCHANGED <<clock, files>>, ~shaken' => ~shaken, c.pc # "write up",
           Knows(c, files, clock, shaken')
    PROVE  FilesInv'
<1>1. Grows
  BY SameGrows
<1>2. \A q \in Processes \ {p} : At(q, "write up") => proc[q].mine \notin Listed(files)'
  BY DEF FilesInv, Knows, At, Listed
<1>3. \A v \in Listed(files)' : v <= clock' /\ files'[v].kind \in Makes
  BY DEF FilesInv, Listed
<1> QED BY <1>1, <1>2, <1>3, FilesFrame

(* A file written joins the others, and is recorded if it comes late.      *)
LEMMA WriteUpGrows ==
    ASSUME TypeOK, FilesInv, NEW p \in Processes, WriteUp(p)
    PROVE  /\ Grows /\ Listed(files)' = Listed(files) \union {proc[p].mine}
           /\ proc[p].mine \notin Listed(files) /\ files'[proc[p].mine].kind = proc[p].kind
           /\ \A w \in Listed(files)' : w <= clock' /\ files'[w].kind \in Makes
<1> DEFINE v == proc[p].mine  f == [kind |-> proc[p].kind, has |-> "up"]
<1>0. proc[p] \in Process /\ Knows(proc[p], files, clock, shaken)
  BY DEF TypeOK, FilesInv
<1>1. v \in Versions /\ v <= clock /\ v \notin Listed(files) /\ proc[p].kind \in Makes
  BY <1>0 DEF WriteUp, At, Knows
<1>2. /\ files' = [files EXCEPT ![v] = f] /\ UNCHANGED clock
      /\ shaken' = (shaken \/ \E w \in Listed(files) : w > v)
  BY DEF WriteUp
<1>3. f.kind = proc[p].kind /\ f.has # "nothing"
  OBVIOUS
<1>4. files'[v] = f /\ \A w \in Versions \ {v} : files'[w] = files[w]
  BY <1>1, <1>2 DEF TypeOK
<1> HIDE DEF v, f
<1>5. Listed(files)' = Listed(files) \union {v}
  BY <1>1, <1>3, <1>4 DEF Listed
<1>6. Grows
  <2>1. \A w \in Listed(files) : files'[w].kind = files[w].kind
    BY <1>1, <1>4 DEF Listed
  <2>2. Listed(files) \subseteq Nat /\ v \in Nat
    BY <1>1, ListedNat
  <2>3. ASSUME ~shaken', NEW w \in Listed(files) PROVE ~shaken /\ w < v
    <3>1. ~shaken /\ ~(w > v)
      BY <1>2, <2>3
    <3>2. w # v /\ w \in Nat /\ v \in Nat
      BY <1>1, <2>2
    <3> QED BY <3>1, <3>2
  <2>4. ~shaken' => ~shaken
    BY <1>2
  <2>5. clock <= clock'
    BY <1>2 DEF TypeOK
  <2> QED BY <1>5, <2>1, <2>3, <2>4, <2>5 DEF Grows
<1>7. ASSUME NEW w \in Listed(files) PROVE w <= clock' /\ files'[w].kind \in Makes
  BY <1>1, <1>2, <1>4, <1>7 DEF FilesInv, Listed
<1> QED BY <1>1, <1>2, <1>3, <1>4, <1>5, <1>6, <1>7 DEF v

(* The down file joins the version that has its up file.                   *)
LEMMA WriteDownGrows ==
    ASSUME TypeOK, FilesInv, NEW p \in Processes, WriteDown(p)
    PROVE  /\ Grows /\ Listed(files)' = Listed(files)
           /\ \A w \in Listed(files)' : w <= clock' /\ files'[w].kind \in Makes
<1> DEFINE v == proc[p].mine
<1>1. v \in Listed(files)
  BY DEF WriteDown, At, FilesInv, Knows
<1>2. files' = [files EXCEPT ![v].has = "both"] /\ UNCHANGED <<clock, shaken>>
  BY DEF WriteDown
<1>3. \A w \in Versions : files[w] \in File
  BY DEF TypeOK
<1> HIDE DEF v
<1>4. /\ files'[v] = [files[v] EXCEPT !.has = "both"]
      /\ \A w \in Versions \ {v} : files'[w] = files[w]
  BY <1>1, <1>2 DEF TypeOK, Listed
<1>5. files'[v].kind = files[v].kind /\ files'[v].has = "both"
  BY <1>1, <1>3, <1>4 DEF Listed, File
<1>6. Listed(files)' = Listed(files) /\ \A w \in Versions : files'[w].kind = files[w].kind
  BY <1>1, <1>4, <1>5 DEF Listed
<1>7. Grows
  BY <1>2, <1>6 DEF TypeOK, Grows, Listed
<1>8. \A w \in Listed(files)' : w <= clock' /\ files'[w].kind \in Makes
  BY <1>2, <1>6 DEF FilesInv, Listed
<1> QED BY <1>6, <1>7, <1>8

(* Every action keeps what the processes know of the directory.            *)
LEMMA FilesStep ==
    ASSUME TypeOK, TypeOK', FilesInv, NEW p \in Processes,
           Step(p) \/ Die(p) \/ \E c \in Commands : Run(p, c)
    PROVE  FilesInv'
<1>0. proc[p] \in Process /\ Idle \in Process /\ Knows(proc[p], files, clock, shaken)
  BY IdleType DEF TypeOK, FilesInv
<1>e. ASSUME Exit(p), UNCHANGED <<clock, files>>, ~shaken' => ~shaken PROVE FilesInv'
  <2>1. Idle.pc # "write up"
    BY DEF Idle
  <2> QED BY <1>e, <2>1, KnowsIdle, FilesStay DEF Exit
<1>g. ASSUME NEW pc \in Reading, Goto(p, pc), proc[p].pc \in Reading,
             pc \in {"run", "clean"} => proc[p].pc = "run",
             UNCHANGED <<clock, files>>, ~shaken' => ~shaken
      PROVE  FilesInv'
  <2> DEFINE c == [proc[p] EXCEPT !.pc = pc]
  <2>1. c.pc = pc /\ c.list = proc[p].list /\ c.at = proc[p].at
    BY <1>0 DEF Process
  <2>2. Become(p, c)
    BY <1>g DEF Goto
  <2>3. pc # "write up" /\ pc # "write down" /\ pc # "copy"
    BY <1>g DEF Reading
  <2> HIDE DEF c
  <2>4. Knows(c, files, clock, shaken')
    BY <1>0, <1>g, <2>1, <2>3 DEF Knows
  <2> QED BY <1>g, <2>1, <2>2, <2>3, <2>4, FilesStay
<1>1. ASSUME NEW c \in Commands, Run(p, c) PROVE FilesInv'
  <2>1. CASE c \in Makes
    <3> DEFINE d == [Idle EXCEPT !.pc = "write up", !.kind = c, !.mine = clock',
                       !.then = IF c = "auth" THEN "copy" ELSE "nothing"]
    <3>1. clock' = clock + 1 /\ clock < MaxVersion /\ Become(p, d) /\ UNCHANGED <<files, shaken>>
      BY <1>1, <2>1 DEF Run
    <3>2. d.pc = "write up" /\ d.kind = c /\ d.mine = clock'
      BY <1>0 DEF Process
    <3> HIDE DEF d
    <3>3. clock \in Nat /\ clock' \in Versions /\ clock < clock'
      BY <3>1, Bounds DEF TypeOK, Versions
    <3>4. ASSUME NEW v \in Listed(files) PROVE v <= clock
      BY DEF FilesInv
    <3>5. clock' \notin Listed(files)
      <4>1. ASSUME clock' \in Listed(files) PROVE FALSE
        <5>1. clock' <= clock
          BY <3>4, <4>1
        <5> QED BY <3>1, <3>3, <5>1
      <4> QED BY <4>1
    <3>6. Listed(files)' = Listed(files) /\ \A v \in Listed(files) : v <= clock'
      <4>1. Listed(files) \subseteq Nat
        BY DEF Listed, Versions
      <4>2. \A v \in Listed(files) : v <= clock'
        BY <3>3, <3>4, <4>1 DEF Versions
      <4>3. Listed(files)' = Listed(files)
        BY <3>1 DEF Listed
      <4> QED BY <4>2, <4>3
    <3>7. Knows(d, files', clock', shaken')
      <4>1. clock' <= clock' /\ files' = files
        BY <3>1, <3>3 DEF Versions
      <4> QED BY <2>1, <3>2, <3>3, <3>5, <4>1 DEF Knows, Reading
    <3>8. ASSUME NEW q \in Processes, At(q, "write up")
          PROVE  proc[q].mine # d.mine /\ proc[q].mine \notin Listed(files)
      <4>1. /\ proc[q].mine <= clock /\ proc[q].mine \in Versions
            /\ proc[q].mine \notin Listed(files)
        BY <3>8 DEF FilesInv, Knows, At
      <4>2. proc[q].mine # clock'
        BY <3>3, <4>1 DEF Versions
      <4> QED BY <3>2, <4>1, <4>2
    <3>9. Grows
      BY <3>1, SameGrows
    <3>10. \A v \in Listed(files)' : v <= clock' /\ files'[v].kind \in Makes
      BY <3>1, <3>6 DEF FilesInv
    <3> QED BY <3>1, <3>2, <3>6, <3>7, <3>8, <3>9, <3>10, FilesFrame
  <2>2. CASE c \notin Makes
    <3> DEFINE d == [Idle EXCEPT !.pc = "ensure", !.list = files,
                 !.way = CASE c = "up" -> "up" [] c = "down" -> "one" [] OTHER -> "down",
                 !.then = IF c = "reset" THEN "up" ELSE "nothing"]
    <3>1. d.pc = "ensure" /\ d.list = files
      BY Zenon DEF Idle
    <3>2. Become(p, d) /\ UNCHANGED <<clock, files, shaken>>
      BY <1>1, <2>2 DEF Run
    <3> HIDE DEF d
    <3>3. Knows(d, files, clock, shaken')
      BY <3>1 DEF Knows, Reading
    <3> QED BY <3>1, <3>2, <3>3, FilesStay
  <2> QED BY <2>1, <2>2
<1>2. CASE Die(p)
  BY <1>2, <1>e DEF Die, Directory
<1>3. CASE WriteUp(p)
  <2> DEFINE v == proc[p].mine  c == [proc[p] EXCEPT !.pc = "write down"]
  <2>1. Grows /\ Listed(files)' = Listed(files) \union {v} /\ v \notin Listed(files)
    BY <1>3, WriteUpGrows
  <2>2. Become(p, c)
    BY <1>3 DEF WriteUp, Goto
  <2>3. c.pc = "write down" /\ c.mine = v
    BY <1>0 DEF Process
  <2>4. ASSUME NEW q \in Processes \ {p}, At(q, "write up")
        PROVE  proc[q].mine # v /\ proc[q].mine \notin Listed(files)
    BY <1>3, <2>4 DEF WriteUp, FilesInv, OwnVersions, Knows, At
  <2>5. \A w \in Listed(files)' : w <= clock' /\ files'[w].kind \in Makes
    BY <1>3, WriteUpGrows
  <2> HIDE DEF v, c
  <2>6. Knows(c, files', clock', shaken')
    BY <2>1, <2>3 DEF Knows, Reading, Listed
  <2> QED BY <2>1, <2>2, <2>3, <2>4, <2>5, <2>6, FilesFrame
<1>4. CASE WriteDown(p)
  <2> DEFINE c == IF proc[p].kind = "migration" THEN Idle
                  ELSE [proc[p] EXCEPT !.pc = "list", !.kind = None]
  <2>1. /\ Grows /\ Listed(files)' = Listed(files)
        /\ \A w \in Listed(files)' : w <= clock' /\ files'[w].kind \in Makes
    BY <1>4, WriteDownGrows
  <2>2. Become(p, c)
    BY <1>4 DEF WriteDown, Exit
  <2>3. c.pc \in {"idle", "list"}
    BY <1>0 DEF Process, Idle
  <2> HIDE DEF c
  <2>4. \A q \in Processes \ {p} : At(q, "write up") => proc[q].mine \notin Listed(files)'
    BY <2>1 DEF FilesInv, Knows, At
  <2>5. Knows(c, files', clock', shaken')
    BY <2>3 DEF Knows, Reading
  <2> QED BY <2>1, <2>2, <2>3, <2>4, <2>5, FilesFrame
<1>5. CASE Copy(p)
  <2> DEFINE n == proc[p].at + 1  c == [proc[p] EXCEPT !.at = n]
  <2>1. proc[p].at \in Nat /\ n <= Templates
    BY <1>0, <1>5 DEF Copy, At, Knows, Process
  <2>2. CASE Exit(p)
    BY <1>5, <2>2, <1>e DEF Copy
  <2>3. CASE Become(p, c) /\ n # Templates
    <3>1. c.pc = "copy" /\ c.at = n
      BY <1>0, <1>5 DEF Process, Copy, At
    <3>2. n + 1 <= Templates
      BY <2>1, <2>3, Bounds
    <3> HIDE DEF c, n
    <3>3. Knows(c, files, clock, shaken')
      BY <3>1, <3>2 DEF Knows, Reading
    <3> QED BY <1>5, <2>3, <3>1, <3>3, FilesStay DEF Copy
  <2> QED BY <1>5, <2>2, <2>3 DEF Copy
<1>6. CASE List(p)
  <2> DEFINE c == [proc[p] EXCEPT !.list = files, !.pc = "ensure"]
  <2>1. c.pc = "ensure" /\ c.list = files
    BY <1>0 DEF Process
  <2>2. Become(p, c) /\ UNCHANGED <<clock, files, shaken>>
    BY <1>6 DEF List, Directory
  <2> HIDE DEF c
  <2>3. Knows(c, files, clock, shaken')
    BY <2>1 DEF Knows, Reading
  <2> QED BY <2>1, <2>2, <2>3, FilesStay
<1>7. CASE EnsureVersionTable(p)
  BY <1>7, <1>g DEF EnsureVersionTable, At, Reading, Directory
<1>8. CASE Lock(p)
  BY <1>8, <1>g DEF Lock, At, Reading, Directory
<1>9. CASE LockTimeout(p)
  BY <1>9, <1>e DEF LockTimeout, Directory
<1>10. CASE Refuse(p)
  BY <1>10, <1>e DEF Refuse, Directory
<1>11. CASE SetDirty(p)
  <2> DEFINE c == [proc[p] EXCEPT !.at = Target(p).at, !.pc = "run"]
  <2>1. c.pc = "run" /\ c.at = Target(p).at /\ c.list = proc[p].list
    BY <1>0 DEF Process
  <2>2. Target(p).at \in Listed(proc[p].list)
    BY <1>11, TargetType DEF SetDirty, Refused, Pending
  <2>3. Become(p, c) /\ UNCHANGED <<clock, files, shaken>> /\ proc[p].pc = "check"
    BY <1>11 DEF SetDirty, At, Directory
  <2> HIDE DEF c
  <2>4. Knows(c, files, clock, shaken')
    BY <1>0, <2>1, <2>2, <2>3 DEF Knows, Reading
  <2> QED BY <2>1, <2>3, <2>4, FilesStay
<1>12. CASE RunBody(p)
  <2>1. Exit(p) \/ Goto(p, "clean")
    BY <1>12 DEF RunBody
  <2>2. UNCHANGED <<clock, files>> /\ (~shaken' => ~shaken) /\ proc[p].pc = "run"
    BY <1>12 DEF RunBody, Directory, At
  <2> QED BY <2>1, <2>2, <1>e, <1>g DEF Reading
<1>13. CASE SetClean(p)
  <2>1. Become(p, After(p)) \/ Goto(p, "check")
    BY <1>13 DEF SetClean
  <2>2. UNCHANGED <<clock, files, shaken>> /\ proc[p].pc = "clean"
    BY <1>13 DEF SetClean, Directory, At
  <2>3. Knows(After(p), files, clock, shaken') /\ After(p).pc # "write up"
    <3>1. ASSUME NEW c \in Process, c.pc = "copy", c.at = 0
          PROVE  Knows(c, files, clock, shaken') /\ c.pc # "write up"
      <4>1. 0 + 1 <= Templates
        BY Bounds
      <4>2. c.pc = "copy" => c.at + 1 <= Templates
        BY <3>1, <4>1
      <4> QED BY <3>1, <4>2 DEF Knows, Reading
    <3> DEFINE l == [Idle EXCEPT !.pc = "list"]
               d == [Idle EXCEPT !.pc = "copy", !.mine = proc[p].mine]
    <3>2. l \in Process /\ l.pc = "list"
      BY <1>0 DEF Process
    <3>3. d \in Process /\ d.pc = "copy" /\ d.at = 0
      BY <1>0 DEF Process, Idle
    <3>4. Idle.pc # "write up"
      BY DEF Idle
    <3>5. After(p) = l \/ After(p) = d \/ After(p) = Idle
      BY Zenon DEF After
    <3> HIDE DEF l, d
    <3>6. /\ Knows(l, files, clock, shaken') /\ l.pc # "write up"
          /\ Knows(d, files, clock, shaken') /\ d.pc # "write up"
      <4>1. Knows(l, files, clock, shaken') /\ l.pc # "write up"
        BY <3>2 DEF Knows, Reading
      <4>2. Knows(d, files, clock, shaken') /\ d.pc # "write up"
        BY <3>1, <3>3, Zenon
      <4> QED BY <4>1, <4>2
    <3>7. Knows(Idle, files, clock, shaken')
      BY KnowsIdle
    <3> QED BY <3>4, <3>5, <3>6, <3>7, Zenon
  <2> QED BY <2>1, <2>2, <2>3, <1>g, FilesStay DEF Reading
<1> QED BY <1>1, <1>2, <1>3, <1>4, <1>5, <1>6, <1>7, <1>8, <1>9, <1>10, <1>11, <1>12, <1>13
        DEF Step
-----------------------------------------------------------------------------
(* No action takes a file away.                                            *)
LEMMA GrowsStep ==
    ASSUME TypeOK, FilesInv, NEW p \in Processes,
           Step(p) \/ Die(p) \/ \E c \in Commands : Run(p, c)
    PROVE  Grows
<1>1. CASE WriteUp(p)
  BY <1>1, WriteUpGrows
<1>2. CASE WriteDown(p)
  BY <1>2, WriteDownGrows
<1>3. ASSUME NEW c \in Commands, Run(p, c) PROVE Grows
  <2>1. UNCHANGED files /\ (clock' = clock \/ clock' = clock + 1) /\ UNCHANGED shaken
    BY <1>3 DEF Run
  <2> QED BY <2>1, SameGrows
<1>4. CASE \/ Die(p) \/ Copy(p) \/ List(p) \/ EnsureVersionTable(p) \/ Lock(p)
           \/ LockTimeout(p) \/ Refuse(p) \/ SetDirty(p) \/ RunBody(p) \/ SetClean(p)
  <2>1. UNCHANGED <<clock, files>> /\ (~shaken' => ~shaken)
    BY <1>4 DEF Die, Copy, List, EnsureVersionTable, Lock, LockTimeout, Refuse, SetDirty,
                RunBody, SetClean, Directory
  <2> QED BY <2>1, SameGrows
<1> QED BY <1>1, <1>2, <1>3, <1>4 DEF Step

(* Files that come later make no difference to what is applied up to a     *)
(* version that there was.                                                 *)
LEMMA GrowsApplied ==
    ASSUME TypeOK, Grows, ~shaken', NEW w \in {0} \union Listed(files)
    PROVE  /\ Applied(files', w) = Applied(files, w) /\ Before(files', w) = Before(files, w)
           /\ \A v \in Listed(files)' \ Listed(files) : w < v
<1>1. Listed(files)' = Listed(files')
  BY DEF Listed
<1>2. ASSUME NEW v \in Listed(files') \ Listed(files) PROVE w < v
  <2>1. v \in Versions
    BY DEF Listed
  <2>2. w \in Listed(files) => w < v
    BY <1>1, <1>2 DEF Grows
  <2>3. 0 < v
    BY <2>1 DEF Versions
  <2> QED BY <2>2, <2>3
<1>3. Listed(files) \subseteq Nat /\ Listed(files') \subseteq Nat /\ w \in Nat
  <2>1. Listed(files) \subseteq Nat
    BY ListedNat
  <2>2. Listed(files') \subseteq Nat
    BY ListedNat, Zenon
  <2> QED BY <2>1, <2>2
<1>4. \A v \in Listed(files) : v \in Listed(files') /\ Created(files', v) = Created(files, v)
  BY <1>1 DEF Grows, Created
<1>5. {x \in Listed(files') : x <= w} = {x \in Listed(files) : x <= w}
  BY <1>2, <1>3, <1>4
<1>6. {x \in Listed(files') : x < w} = {x \in Listed(files) : x < w}
  BY <1>2, <1>3, <1>4
<1>7. Applied(files', w) = Applied(files, w) /\ Before(files', w) = Before(files, w)
  BY <1>4, <1>5, <1>6 DEF Applied, Before
<1> QED BY <1>1, <1>2, <1>7

(* Two files that make one table stay two.                                 *)
LEMMA GrowsKinds ==
    ASSUME Grows, SingleKinds' PROVE SingleKinds
<1> SUFFICES ASSUME NEW v \in Listed(files), NEW w \in Listed(files),
                    Created(files, v) = Created(files, w)
             PROVE  v = w
  BY DEF SingleKinds
<1>1. v \in Listed(files)' /\ w \in Listed(files)'
  BY DEF Grows
<1>2. Created(files, v)' = Created(files, v) /\ Created(files, w)' = Created(files, w)
  BY DEF Grows, Created
<1> QED BY <1>1, <1>2 DEF SingleKinds

(* A step that leaves the database alone, of a process that is in no       *)
(* migration after it, keeps SchemaInv.                                    *)
LEMMA SchemaFrame ==
    ASSUME TypeOK, FilesInv, SchemaInv, Grows, UNCHANGED Database,
           NEW p \in Processes, NEW c, Become(p, c), c.pc \notin {"run", "clean"}
    PROVE  SchemaInv'
<1>1. UNCHANGED version /\ UNCHANGED dirty /\ UNCHANGED tables
  BY DEF Database
<1>2. \A q \in Processes : proc'[q].pc \in {"run", "clean"} => proc'[q] = proc[q]
  BY DEF TypeOK, Become
<1>3. version' \in {0} \union Listed(files)'
  BY <1>1 DEF SchemaInv, Grows
<1>4. \A q \in Processes : Migrating(q)' => dirty'
  BY <1>1, <1>2 DEF SchemaInv, Migrating
<1>5. ASSUME ~shaken', SingleKinds'
      PROVE  /\ ~dirty' => tables' = Applied(files', version')
             /\ \A q \in Processes : At(q, "run")' => Underway(q)'
             /\ \A q \in Processes : At(q, "clean")' => tables' = Applied(files', version')
  <2>1. ~shaken /\ SingleKinds
    BY <1>5, GrowsKinds DEF Grows
  <2>2. Applied(files', version) = Applied(files, version)
    BY <1>5, GrowsApplied DEF SchemaInv
  <2>3. ~dirty' => tables' = Applied(files', version')
    BY <1>1, <2>1, <2>2 DEF SchemaInv
  <2>4. ASSUME NEW q \in Processes, At(q, "clean")' PROVE tables' = Applied(files', version')
    <3>1. At(q, "clean")
      BY <1>2, <2>4 DEF At
    <3> QED BY <1>1, <2>1, <2>2, <3>1 DEF SchemaInv
  <2>5. ASSUME NEW q \in Processes, At(q, "run")' PROVE Underway(q)'
    <3> DEFINE at == proc[q].at  up == proc[q].way = "up"
    <3>1. At(q, "run") /\ proc'[q] = proc[q]
      BY <1>2, <2>5 DEF At
    <3>2. at \in Listed(files)
      BY <3>1 DEF FilesInv, Knows, At, Reading
    <3>3. /\ tables = IF up THEN Before(files, at) ELSE Applied(files, at)
          /\ \A v \in Listed(files) : v <= version <=> IF up THEN v <= at ELSE v < at
      BY <2>1, <3>1 DEF SchemaInv, Underway
    <3> HIDE DEF at, up
    <3>4. /\ Applied(files', at) = Applied(files, at) /\ Before(files', at) = Before(files, at)
          /\ \A v \in Listed(files)' \ Listed(files) : at < v /\ version < v
      BY <1>5, <3>2, GrowsApplied DEF SchemaInv
    <3>5. ASSUME NEW v \in Listed(files)' PROVE v <= version <=> IF up THEN v <= at ELSE v < at
      <4>1. v \in Nat /\ at \in Nat /\ version \in Nat
        <5>1. Listed(files)' = Listed(files')
          BY DEF Listed
        <5>2. version \in 0 .. MaxVersion
          BY DEF TypeOK
        <5> QED BY <3>2, <5>1, <5>2, ListedNat, NatUpTo
      <4>2. CASE v \in Listed(files)
        BY <3>3, <4>2
      <4>3. CASE v \notin Listed(files)
        <5>1. at < v /\ version < v
          BY <3>4, <4>3
        <5>2. ~(v <= at) /\ ~(v < at) /\ ~(v <= version)
          BY <4>1, <5>1
        <5> QED BY <5>2
      <4> QED BY <4>2, <4>3
    <3>6. tables' = IF up THEN Before(files', at) ELSE Applied(files', at)
      BY <1>1, <3>3, <3>4
    <3> QED BY <1>1, <3>1, <3>5, <3>6 DEF Underway, at, up
  <2> QED BY <2>3, <2>4, <2>5
<1> QED BY <1>3, <1>4, <1>5 DEF SchemaInv
(* The next migration m up from x, the least of P, of the files L that New *)
(* saw: no file at all, of F, lies between.                                *)
LEMMA NextUp ==
    ASSUME NEW F \in SUBSET Versions, NEW L \in SUBSET F, \A v \in L, w \in F \ L : v < w,
           NEW x \in Nat, NEW P, \A v \in L : v \in P <=> v > x,
           NEW m \in L, m \in P, \A v \in P : m <= v,
           NEW v \in F
    PROVE  v <= x <=> v < m
<1>1. m \in Nat /\ m > x /\ v \in Nat
  BY ListedNat
<1>2. v <= x => v < m
  BY <1>1
<1>3. ASSUME v < m, ~(v <= x) PROVE FALSE
  <2>1. CASE v \in L
    <3>1. v \in P
      BY <1>1, <1>3, <2>1
    <3>2. m <= v
      BY <3>1
    <3> QED BY <1>1, <1>3, <3>2
  <2>2. CASE v \notin L
    <3>1. m < v
      BY <2>2
    <3> QED BY <1>1, <1>3, <3>1
  <2> QED BY <2>1, <2>2
<1> QED BY <1>2, <1>3

(* The next migration m down from x, the greatest of P, and the version y  *)
(* that it leads to, the one below m in P or none.                         *)
LEMMA NextDown ==
    ASSUME NEW F \in SUBSET Versions, NEW L \in SUBSET F, \A v \in L, w \in F \ L : v < w,
           NEW x \in {0} \union L, NEW P, \A v \in L : v \in P <=> v <= x,
           NEW m \in L, m \in P, \A v \in P : v <= m,
           NEW y \in {0} \union L, y < m, \A v \in P : v < m => v <= y,
           NEW v \in F
    PROVE  (v <= x <=> v <= m) /\ (v <= y <=> v < m)
<1>1. m \in Nat /\ m <= x /\ x \in Nat /\ y \in Nat /\ v \in Nat
  <2>1. m \in Nat /\ v \in Nat /\ m <= x
    BY ListedNat
  <2>2. \A z \in {0} \union L : z \in Nat
    BY ListedNat
  <2> QED BY <2>1, <2>2
<1>2. m > 0 /\ v > 0
  <2>1. m \in Versions /\ v \in Versions
    OBVIOUS
  <2> QED BY <2>1 DEF Versions
<1>3. (v <= m => v <= x) /\ (v <= y => v < m)
  BY <1>1
<1>4. ASSUME v \notin L PROVE ~(v <= x) /\ ~(v < m)
  <2>1. m < v /\ x < v
    BY <1>2, <1>4
  <2> QED BY <1>1, <2>1
<1>5. ASSUME v \in L, v <= x PROVE v <= m
  BY <1>5
<1>6. ASSUME v \in L, v < m PROVE v <= y
  <2>1. v <= x
    BY <1>1, <1>6
  <2> QED BY <1>6, <2>1
<1> QED BY <1>3, <1>4, <1>5, <1>6

(* The step that marks the next migration: what it finds is what its body  *)
(* expects.                                                                *)
LEMMA SchemaSetDirty ==
    ASSUME TypeOK, FilesInv, OnlyHolderMigrates, SchemaInv, NEW p \in Processes, SetDirty(p)
    PROVE  SchemaInv'
<1> DEFINE L == Listed(proc[p].list)  F == Listed(files)  up == proc[p].way = "up"
           P == Pending(p)  at == Target(p).at  next == Target(p).version
           c == [proc[p] EXCEPT !.at = at, !.pc = "run"]
<1>0. proc[p] \in Process
  BY DEF TypeOK
<1>1. /\ ~dirty /\ P # {} /\ (version # 0 => version \in L)
      /\ version' = next /\ dirty' = TRUE /\ Become(p, c)
      /\ UNCHANGED <<clock, files, tables, shaken>> /\ proc[p].pc = "check"
  BY DEF SetDirty, Refused, Directory, At
<1>2. L \subseteq F /\ (~shaken => \A v \in L, w \in F \ L : v < w)
  BY <1>1 DEF FilesInv, Knows, Reading
<1>3. P = IF up THEN {v \in L : v > version} ELSE {v \in L : v <= version}
  BY DEF Pending
<1>4. /\ up => at = Min(P) /\ next = at
      /\ ~up => at = Max(P) /\ next = Max({0} \union {v \in P : v < at})
  BY DEF Target
<1>5. c.pc = "run" /\ c.at = at /\ c.way = proc[p].way
  <2> HIDE DEF at
  <2> QED BY <1>0 DEF Process
<1>6. proc'[p] = c /\ \A q \in Processes \ {p} : ~Migrating(q)'
  <2>1. holder = p
    BY <1>1 DEF OnlyHolderMigrates
  <2>2. \A q \in Processes \ {p} : ~Migrating(q) /\ proc'[q] = proc[q]
    BY <1>1, <2>1 DEF OnlyHolderMigrates, Migrating, TypeOK, Become
  <2> QED BY <1>1, <2>2 DEF Migrating, TypeOK, Become
<1>7. version \in Nat /\ F \in SUBSET Versions /\ L \in SUBSET F
  <2>1. version \in 0 .. MaxVersion
    BY DEF TypeOK
  <2> QED BY <1>2, <2>1, NatUpTo, ListedNat
<1> HIDE DEF L, F, P, at, next, c, up
<1>8. /\ at \in P /\ P \subseteq L
      /\ up => next = at /\ \A v \in P : at <= v
      /\ ~up => /\ \A v \in P : v <= at
               /\ next \in {0} \union L /\ next < at
               /\ \A v \in P : v < at => v <= next
  <2>1. P \subseteq L
    BY <1>3
  <2>2. P \in SUBSET (0 .. MaxVersion) /\ MaxVersion \in Nat
    BY <1>7, <2>1, VersionsBound, Bounds
  <2>3. /\ Min(P) \in P /\ \A v \in P : Min(P) <= v
        /\ Max(P) \in P /\ \A v \in P : v <= Max(P)
    BY <1>1, <2>2, Extremes
  <2>4. CASE up
    BY <1>4, <2>1, <2>3, <2>4
  <2>5. CASE ~up
    <3> DEFINE Q == {0} \union {v \in P : v < at}
    <3>1. Q \in SUBSET (0 .. MaxVersion) /\ Q # {}
      BY <2>2, VersionsBound
    <3>2. next = Max(Q) /\ at = Max(P)
      BY <1>4, <2>5
    <3>3. at > 0
      <4>1. at \in Versions
        BY <1>7, <2>1, <2>3, <3>2
      <4> QED BY <4>1 DEF Versions
    <3>4. \A v \in Q : v \in {0} \union L /\ v < at
      BY <2>1, <3>3
    <3>5. \A v \in P : v < at => v \in Q
      OBVIOUS
    <3> HIDE DEF Q
    <3>6. next \in Q /\ \A v \in Q : v <= next
      BY <2>2, <3>1, <3>2, Extremes
    <3> QED BY <2>1, <2>3, <2>5, <3>2, <3>4, <3>5, <3>6
  <2> QED BY <2>4, <2>5
<1>9. ASSUME ~shaken', SingleKinds'
      PROVE  /\ tables = IF up THEN Before(files, at) ELSE Applied(files, at)
             /\ \A v \in F : v <= next <=> IF up THEN v <= at ELSE v < at
  <2>1. ~shaken /\ SingleKinds
    BY <1>1, <1>9 DEF SingleKinds, Listed, Created
  <2>2. tables = Applied(files, version)
    BY <1>1, <2>1 DEF SchemaInv
  <2>3. \A v \in L, w \in F \ L : v < w
    BY <1>2, <2>1
  <2>4. at \in L /\ at \in P
    BY <1>8
  <2>5. CASE up
    <3>1. (\A v \in L : v \in P <=> v > version) /\ \A v \in P : at <= v
      BY <1>3, <1>8, <2>5
    <3>2. \A v \in F : v <= version <=> v < at
      BY <1>7, <2>3, <2>4, <3>1, NextUp
    <3>3. {v \in F : v <= version} = {v \in F : v < at}
      BY <3>2
    <3>4. Applied(files, version) = Before(files, at)
      BY <3>3 DEF Applied, Before, F
    <3> QED BY <1>8, <2>2, <2>5, <3>4
  <2>6. CASE ~up
    <3>1. \A v \in L : v \in P <=> v <= version
      BY <1>3, <2>6
    <3>2. version \in {0} \union L
      BY <1>1
    <3>3. /\ \A v \in P : v <= at
          /\ next \in {0} \union L /\ next < at
          /\ \A v \in P : v < at => v <= next
      BY <1>8, <2>6
    <3>4. \A v \in F : (v <= version <=> v <= at) /\ (v <= next <=> v < at)
      BY <1>7, <2>3, <2>4, <3>1, <3>2, <3>3, NextDown
    <3>5. {v \in F : v <= version} = {v \in F : v <= at}
      BY <3>4
    <3>6. Applied(files, version) = Applied(files, at)
      BY <3>5 DEF Applied, F
    <3> QED BY <2>2, <2>6, <3>4, <3>6
  <2> QED BY <2>5, <2>6
<1>10. Listed(files)' = F
  BY <1>1 DEF F, Listed
<1>11. version' \in {0} \union Listed(files)' /\ \A q \in Processes : Migrating(q)' => dirty'
  <2>1. next \in {0} \union F
    BY <1>7, <1>8
  <2> QED BY <1>1, <1>10, <2>1
<1>12. ASSUME ~shaken', SingleKinds', NEW q \in Processes, At(q, "run")' PROVE Underway(q)'
  <2>1. q = p
    BY <1>6, <1>12 DEF At, Migrating
  <2>2. proc'[q].at = at /\ (proc'[q].way = "up" <=> up)
    BY <1>5, <1>6, <2>1 DEF up
  <2>3. tables' = IF up THEN Before(files', at) ELSE Applied(files', at)
    BY <1>1, <1>9, <1>12
  <2>4. \A v \in Listed(files)' : v <= version' <=> IF up THEN v <= at ELSE v < at
    BY <1>1, <1>9, <1>10, <1>12
  <2> QED BY <2>2, <2>3, <2>4 DEF Underway
<1>13. ASSUME NEW q \in Processes PROVE ~At(q, "clean")'
  BY <1>5, <1>6 DEF At, Migrating
<1> QED BY <1>1, <1>11, <1>12, <1>13 DEF SchemaInv
(* The table of a migration that a process knows is the one of its file.   *)
LEMMA KnownTable ==
    ASSUME FilesInv, NEW p \in Processes, At(p, "run")
    PROVE  /\ proc[p].at \in Listed(files)
           /\ Created(proc[p].list, proc[p].at) = Created(files, proc[p].at)
<1>1. proc[p].at \in Listed(proc[p].list)
  BY DEF FilesInv, Knows, At
<1>2. /\ proc[p].at \in Listed(files)
      /\ proc[p].list[proc[p].at].kind = files[proc[p].at].kind
  BY <1>1 DEF FilesInv, Knows, At, Reading
<1> QED BY <1>2 DEF Created

(* The body of a migration makes the tables those of the version written.  *)
LEMMA SchemaRunBody ==
    ASSUME TypeOK, FilesInv, OnlyHolderMigrates, SchemaInv, Grows,
           NEW p \in Processes, RunBody(p)
    PROVE  SchemaInv'
<1> DEFINE at == proc[p].at  up == proc[p].way = "up"  table == Created(proc[p].list, at)
           c == [proc[p] EXCEPT !.pc = "clean"]
<1>0. proc[p] \in Process
  BY DEF TypeOK
<1>1. At(p, "run") /\ UNCHANGED <<files, version, dirty>>
  BY DEF RunBody, Directory
<1>2. CASE Exit(p) /\ UNCHANGED tables
  <2>1. UNCHANGED Database /\ Become(p, Idle)
    BY <1>1, <1>2 DEF Database, Exit
  <2>2. Idle.pc \notin {"run", "clean"}
    BY DEF Idle
  <2> QED BY <2>1, <2>2, SchemaFrame
<1>3. CASE /\ Become(p, c)
           /\ \/ shaken'
              \/ ~shaken' /\ tables' = IF up THEN tables \union {table} ELSE tables \ {table}
  <2>1. c.pc = "clean"
    BY <1>0 DEF Process
  <2>2. \A q \in Processes \ {p} : ~Migrating(q)'
    <3>1. holder = p
      BY <1>1 DEF OnlyHolderMigrates, At
    <3>2. \A q \in Processes \ {p} : ~Migrating(q) /\ proc'[q] = proc[q]
      BY <1>3, <3>1 DEF OnlyHolderMigrates, Migrating, TypeOK, Become
    <3> QED BY <3>2 DEF Migrating
  <2>3. proc'[p] = c
    BY <1>3 DEF TypeOK, Become
  <2>4. dirty' /\ version' \in {0} \union Listed(files)'
    BY <1>1 DEF SchemaInv, Migrating, At, Listed
  <2>5. ASSUME ~shaken', SingleKinds' PROVE tables' = Applied(files', version')
    <3>1. ~shaken /\ SingleKinds
      BY <2>5, GrowsKinds DEF Grows
    <3>2. tables' = IF up THEN tables \union {table} ELSE tables \ {table}
      BY <1>3, <2>5
    <3>3. at \in Listed(files) /\ table = Created(files, at)
      BY <1>1, KnownTable
    <3>4. /\ tables = IF up THEN Before(files, at) ELSE Applied(files, at)
          /\ \A v \in Listed(files) : v <= version <=> IF up THEN v <= at ELSE v < at
      BY <1>1, <3>1 DEF SchemaInv, Underway
    <3> HIDE DEF at, up, table
    <3>5. tables' = Applied(files, version)
      <4>1. Listed(files) \subseteq Nat
        BY ListedNat
      <4>2. \A v \in Listed(files) : v <= at <=> v < at \/ v = at
        BY <3>3, <4>1
      <4>3. CASE up
        <5>1. \A v \in Listed(files) : v <= version <=> v < at \/ v = at
          BY <3>4, <4>2, <4>3
        <5>2. {v \in Listed(files) : v <= version} = {v \in Listed(files) : v < at} \union {at}
          BY <3>3, <5>1
        <5>3. Applied(files, version) = Before(files, at) \union {Created(files, at)}
          BY <5>2 DEF Applied, Before
        <5> QED BY <3>2, <3>3, <3>4, <4>3, <5>3
      <4>4. CASE ~up
        <5>1. \A v \in Listed(files) : v <= version <=> v < at
          BY <3>4, <4>4
        <5>2. \A v \in Listed(files) : v <= version <=> v <= at /\ v # at
          <6>1. \A v \in Listed(files) : v < at <=> v <= at /\ v # at
            BY <3>3, <4>1
          <6> QED BY <5>1, <6>1
        <5>3. \A v \in Listed(files) : v # at => Created(files, v) # Created(files, at)
          BY <3>1, <3>3 DEF SingleKinds
        <5>4. Applied(files, version) = Applied(files, at) \ {Created(files, at)}
          <6> HIDE DEF SingleKinds
          <6> QED BY <5>2, <5>3 DEF Applied
        <5> QED BY <3>2, <3>3, <3>4, <4>4, <5>4
      <4> QED BY <4>3, <4>4
    <3> QED BY <1>1, <3>5
  <2>6. ASSUME NEW q \in Processes PROVE ~At(q, "run")'
    BY <2>1, <2>2, <2>3 DEF At, Migrating
  <2> QED BY <2>4, <2>5, <2>6 DEF SchemaInv
<1>4. \/ Exit(p) /\ UNCHANGED tables
      \/ /\ Become(p, c)
         /\ \/ shaken'
            \/ UNCHANGED shaken /\ tables' = IF up THEN tables \union {table} ELSE tables \ {table}
  BY DEF RunBody, Goto
<1> QED BY <1>2, <1>3, <1>4 DEF TypeOK

(* Clearing the flag says what is true by then.                            *)
LEMMA SchemaSetClean ==
    ASSUME TypeOK, OnlyHolderMigrates, SchemaInv, NEW p \in Processes, SetClean(p)
    PROVE  SchemaInv'
<1>0. proc[p] \in Process
  BY DEF TypeOK
<1>1. /\ At(p, "clean") /\ dirty' = FALSE /\ UNCHANGED <<files, version, tables, shaken>>
      /\ Become(p, After(p)) \/ Become(p, [proc[p] EXCEPT !.pc = "check"])
  BY DEF SetClean, Directory, Goto
<1>2. ~Migrating(p)'
  <2>1. [proc[p] EXCEPT !.pc = "check"].pc = "check"
    BY <1>0 DEF Process
  <2>2. proc'[p].pc \notin {"run", "clean"}
    BY <1>1, <2>1, AfterIsOutside DEF TypeOK, Become, Locked
  <2> QED BY <2>2 DEF Migrating
<1>3. \A q \in Processes : ~Migrating(q)'
  <2>1. holder = p
    BY <1>1 DEF OnlyHolderMigrates, At
  <2>2. \A q \in Processes \ {p} : ~Migrating(q) /\ proc'[q] = proc[q]
    BY <1>1, <2>1 DEF OnlyHolderMigrates, Migrating, TypeOK, Become
  <2> QED BY <1>2, <2>2 DEF Migrating
<1>4. version' \in {0} \union Listed(files)'
  BY <1>1 DEF SchemaInv, Listed
<1>5. ASSUME ~shaken', SingleKinds' PROVE tables' = Applied(files', version')
  <2>1. ~shaken /\ SingleKinds
    BY <1>1, <1>5 DEF SingleKinds, Listed, Created
  <2> QED BY <1>1, <2>1 DEF SchemaInv
<1>6. \A q \in Processes : ~At(q, "run")' /\ ~At(q, "clean")'
  BY <1>3 DEF At, Migrating
<1> QED BY <1>3, <1>4, <1>5, <1>6 DEF SchemaInv

(* Every action keeps what the tables are.                                 *)
LEMMA SchemaStep ==
    ASSUME TypeOK, FilesInv, OnlyHolderMigrates, SchemaInv, NEW p \in Processes,
           Step(p) \/ Die(p) \/ \E c \in Commands : Run(p, c)
    PROVE  SchemaInv'
<1> DEFINE Out == {"run", "clean"}
<1>0. proc[p] \in Process /\ Idle \in Process /\ Idle.pc \notin Out /\ Grows
  BY IdleType, GrowsStep DEF TypeOK, Idle
<1>a. ASSUME NEW pc, pc \notin Out, Goto(p, pc), UNCHANGED Database PROVE SchemaInv'
  <2>1. [proc[p] EXCEPT !.pc = pc].pc = pc
    BY <1>0 DEF Process
  <2> QED BY <1>0, <1>a, <2>1, SchemaFrame DEF Goto
<1>e. ASSUME Exit(p), UNCHANGED Database PROVE SchemaInv'
  BY <1>0, <1>e, SchemaFrame DEF Exit
<1>1. ASSUME NEW k \in Commands, Run(p, k) PROVE SchemaInv'
  <2>1. CASE k \in Makes
    <3> DEFINE d == [Idle EXCEPT !.pc = "write up", !.kind = k, !.mine = clock',
                       !.then = IF k = "auth" THEN "copy" ELSE "nothing"]
    <3>1. d.pc = "write up"
      BY <1>0 DEF Process
    <3>2. Become(p, d) /\ UNCHANGED Database
      BY <1>1, <2>1 DEF Run
    <3> HIDE DEF d
    <3> QED BY <1>0, <3>1, <3>2, SchemaFrame
  <2>2. CASE k \notin Makes
    <3> DEFINE e == [Idle EXCEPT !.pc = "ensure", !.list = files,
                 !.way = CASE k = "up" -> "up" [] k = "down" -> "one" [] OTHER -> "down",
                 !.then = IF k = "reset" THEN "up" ELSE "nothing"]
    <3>1. e.pc = "ensure"
      BY Zenon DEF Idle
    <3>2. Become(p, e) /\ UNCHANGED Database
      BY <1>1, <2>2 DEF Run
    <3> HIDE DEF e
    <3> QED BY <1>0, <3>1, <3>2, SchemaFrame
  <2> QED BY <2>1, <2>2
<1>2. CASE Die(p)
  BY <1>2, <1>e DEF Die
<1>3. CASE WriteUp(p)
  BY <1>3, <1>a DEF WriteUp
<1>4. CASE WriteDown(p)
  <2>1. [proc[p] EXCEPT !.pc = "list", !.kind = None].pc = "list"
    BY <1>0 DEF Process
  <2> QED BY <1>0, <1>4, <2>1, SchemaFrame DEF WriteDown, Exit
<1>5. CASE Copy(p)
  <2>1. [proc[p] EXCEPT !.at = proc[p].at + 1].pc = "copy"
    BY <1>0, <1>5 DEF Process, Copy, At
  <2> QED BY <1>0, <1>5, <2>1, SchemaFrame DEF Copy, Exit
<1>6. CASE List(p)
  <2>1. [proc[p] EXCEPT !.list = files, !.pc = "ensure"].pc = "ensure"
    BY <1>0 DEF Process
  <2> QED BY <1>0, <1>6, <2>1, SchemaFrame DEF List
<1>7. CASE EnsureVersionTable(p)
  BY <1>7, <1>a DEF EnsureVersionTable
<1>8. CASE Lock(p)
  BY <1>8, <1>a DEF Lock
<1>9. CASE LockTimeout(p)
  BY <1>9, <1>e DEF LockTimeout
<1>10. CASE Refuse(p)
  BY <1>10, <1>e DEF Refuse
<1>11. CASE SetDirty(p)
  BY <1>11, SchemaSetDirty
<1>12. CASE RunBody(p)
  BY <1>0, <1>12, SchemaRunBody
<1>13. CASE SetClean(p)
  BY <1>13, SchemaSetClean
<1> QED BY <1>1, <1>2, <1>3, <1>4, <1>5, <1>6, <1>7, <1>8, <1>9, <1>10, <1>11, <1>12, <1>13
        DEF Step
-----------------------------------------------------------------------------
(* The inductive invariant. *)
IInv == TypeOK /\ FilesInv /\ OnlyHolderMigrates /\ SchemaInv

(* The inductive invariant holds at first.                                 *)
LEMMA InvInit == Init => IInv
<1> SUFFICES ASSUME Init PROVE IInv
  OBVIOUS
<1>1. /\ files = [v \in Versions |-> NoFile] /\ version = 0 /\ tables = {}
      /\ proc = [p \in Processes |-> Idle]
  BY DEF Init
<1>2. Listed(files) = {}
  BY <1>1 DEF Listed, NoFile
<1>3. \A p \in Processes : proc[p] = Idle /\ proc[p].pc = "idle"
  BY <1>1 DEF Idle
<1>4. FilesInv
  BY <1>2, <1>3, KnowsIdle DEF FilesInv, OwnVersions, At
<1>5. OnlyHolderMigrates
  BY <1>3 DEF OnlyHolderMigrates
<1>6. SchemaInv
  <2>1. Applied(files, version) = {}
    BY <1>2 DEF Applied
  <2> QED BY <1>1, <1>2, <1>3, <2>1 DEF SchemaInv, At, Migrating
<1> QED BY <1>4, <1>5, <1>6, TypeInit DEF IInv

(* Every step and every stutter keeps it.                                  *)
LEMMA InvNext == IInv /\ [Next]_vars => IInv'
<1> SUFFICES ASSUME IInv, [Next]_vars PROVE IInv'
  OBVIOUS
<1> USE DEF IInv
<1>1. CASE Next
  <2>1. PICK p \in Processes : Step(p) \/ Die(p) \/ \E c \in Commands : Run(p, c)
    BY <1>1 DEF Next
  <2>2. TypeOK'
    BY <2>1, TypeStep
  <2>3. FilesInv'
    BY <2>1, <2>2, FilesStep
  <2>4. OnlyHolderMigrates'
    BY <2>1, LockStep
  <2>5. SchemaInv'
    BY <2>1, SchemaStep
  <2> QED BY <2>2, <2>3, <2>4, <2>5
<1>2. CASE UNCHANGED vars
  <2>1. TypeOK'
    BY <1>2 DEF vars, TypeOK
  <2>2. FilesInv'
    BY <1>2 DEF vars, FilesInv, OwnVersions, At, Listed
  <2>3. OnlyHolderMigrates'
    BY <1>2 DEF vars, OnlyHolderMigrates
  <2>4. SchemaInv'
    BY <1>2 DEF vars, SchemaInv, SingleKinds, Underway, Migrating, At, Listed, Created
  <2> QED BY <2>1, <2>2, <2>3, <2>4
<1> QED BY <1>1, <1>2

(* It holds always.                                                        *)
LEMMA InvAlways == Spec => []IInv
BY InvInit, InvNext, PTL DEF Spec

(* Every state is one of the types, the versions and the tables among them *)
(* (golang-migrate's readUp and readDown lead to files or to none).        *)
THEOREM Types == Spec => []TypeOK
<1>1. IInv => TypeOK
  BY DEF IInv
<1> QED BY <1>1, InvAlways, PTL

(* Two processes are never in the migrations at once, whoever dies.        *)
THEOREM OneMigratesAtATime == Spec => []OnlyHolderMigrates
<1>1. IInv => OnlyHolderMigrates
  BY DEF IInv
<1> QED BY <1>1, InvAlways, PTL

(* A version without the dirty flag tells the tables, whatever commands    *)
(* were run at once and wherever they died, unless two migrations make the *)
(* same table or the schema is shaken.                                     *)
THEOREM CleanVersions == Spec => []CleanVersionTellsSchema
<1>1. IInv => CleanVersionTellsSchema
  BY DEF IInv, SchemaInv, CleanVersionTellsSchema, Applied
<1> QED BY <1>1, InvAlways, PTL

(* What a migration left dirty, no later command touches.                  *)
THEOREM DirtyStays == Spec => DirtyIsLeftAlone
<1>1. IInv /\ [Next]_vars =>
        [dirty /\ (\A p \in Processes : ~Migrating(p)) => UNCHANGED Database]_vars
  <2> SUFFICES ASSUME Next, dirty, \A q \in Processes : ~Migrating(q)
               PROVE  UNCHANGED Database
    BY DEF vars, Database
  <2>1. PICK p \in Processes : Step(p) \/ Die(p) \/ \E c \in Commands : Run(p, c)
    BY DEF Next
  <2>2. ~At(p, "run") /\ ~At(p, "clean")
    BY DEF Migrating, At
  <2>3. ~SetDirty(p) /\ ~RunBody(p) /\ ~SetClean(p)
    BY <2>2 DEF SetDirty, Refused, RunBody, SetClean
  <2> QED BY <2>1, <2>3 DEF Step, Die, Run, WriteUp, WriteDown, Copy, List, EnsureVersionTable,
                Lock, LockTimeout, Refuse
<1> QED BY <1>1, InvAlways, PTL DEF Spec, DirtyIsLeftAlone
-----------------------------------------------------------------------------
(* What make auth has brought about by each of its steps: the migration    *)
(* that it wrote is among those of the pass it makes.                      *)
Brings(c, fs) ==
    c.then = "copy" =>
        /\ c.way = "up"
        /\ c.pc = "write up" => c.kind = "auth"
        /\ c.pc \in {"write down", "list"} => c.mine \in Listed(fs) /\ fs[c.mine].kind = "auth"
        /\ c.pc \in Reading => c.mine \in Listed(c.list) /\ c.list[c.mine].kind = "auth"

AuthInv == \A p \in Processes : Brings(proc[p], files)

(* A process that will not copy has nothing to bring.                      *)
LEMMA BringsIdle ==
    ASSUME NEW c, c.then # "copy", NEW f PROVE Brings(c, f)
BY DEF Brings

(* A step of one process leaves what the others have brought.              *)
LEMMA AuthFrame ==
    ASSUME TypeOK, AuthInv, Grows, NEW p \in Processes, NEW c, Become(p, c), Brings(c, files')
    PROVE  AuthInv'
<1> SUFFICES ASSUME NEW q \in Processes, q # p PROVE Brings(proc'[q], files')
  BY DEF AuthInv, TypeOK, Become
<1>1. Brings(proc[q], files) /\ proc'[q] = proc[q]
  BY DEF AuthInv, TypeOK, Become
<1>2. \A v \in Listed(files) : v \in Listed(files') /\ files'[v].kind = files[v].kind
  BY DEF Grows, Listed
<1> HIDE DEF Listed
<1> QED BY <1>1, <1>2 DEF Brings

(* Every action keeps AuthInv.                                             *)
LEMMA AuthStep ==
    ASSUME TypeOK, FilesInv, AuthInv, NEW p \in Processes,
           Step(p) \/ Die(p) \/ \E c \in Commands : Run(p, c)
    PROVE  AuthInv'
<1>0. proc[p] \in Process /\ Idle \in Process /\ Brings(proc[p], files) /\ Grows
  BY IdleType, GrowsStep DEF TypeOK, AuthInv
<1>i. Idle.then # "copy"
  BY DEF Idle
<1>e. ASSUME Exit(p) PROVE AuthInv'
  BY <1>0, <1>i, <1>e, BringsIdle, AuthFrame DEF Exit
<1>g. ASSUME NEW pc, Goto(p, pc), pc \in Reading, proc[p].pc \in Reading, UNCHANGED files
      PROVE  AuthInv'
  <2> DEFINE c == [proc[p] EXCEPT !.pc = pc]
  <2>1. /\ c.pc = pc /\ c.list = proc[p].list /\ c.mine = proc[p].mine
        /\ c.then = proc[p].then /\ c.way = proc[p].way
    BY <1>0 DEF Process
  <2>2. Become(p, c) /\ pc \notin {"write up", "write down", "list"}
    BY <1>g DEF Goto, Reading
  <2> HIDE DEF c
  <2>3. Brings(c, files')
    BY <1>0, <1>g, <2>1, <2>2 DEF Brings
  <2> QED BY <1>0, <2>2, <2>3, AuthFrame
<1>1. ASSUME NEW k \in Commands, Run(p, k) PROVE AuthInv'
  <2>1. CASE k \in Makes
    <3> DEFINE d == [Idle EXCEPT !.pc = "write up", !.kind = k, !.mine = clock',
                       !.then = IF k = "auth" THEN "copy" ELSE "nothing"]
    <3>1. /\ d.pc = "write up" /\ d.kind = k /\ d.way = "up"
          /\ d.then = IF k = "auth" THEN "copy" ELSE "nothing"
      BY <1>0 DEF Process, Idle
    <3>2. Become(p, d)
      BY <1>1, <2>1 DEF Run
    <3> HIDE DEF d
    <3>3. Brings(d, files')
      BY <3>1 DEF Brings, Reading
    <3> QED BY <1>0, <3>2, <3>3, AuthFrame
  <2>2. CASE k \notin Makes
    <3> DEFINE t == IF k = "reset" THEN "up" ELSE "nothing"
               e == [Idle EXCEPT !.pc = "ensure", !.list = files,
                 !.way = CASE k = "up" -> "up" [] k = "down" -> "one" [] OTHER -> "down",
                 !.then = t]
    <3>1. e.then = t
      <4> HIDE DEF t
      <4> QED BY Zenon DEF Idle
    <3>2. t # "copy"
      OBVIOUS
    <3>3. Become(p, e)
      BY <1>1, <2>2 DEF Run
    <3> HIDE DEF e, t
    <3> QED BY <1>0, <3>1, <3>2, <3>3, BringsIdle, AuthFrame
  <2> QED BY <2>1, <2>2
<1>2. CASE Die(p)
  BY <1>2, <1>e DEF Die
<1>3. CASE WriteUp(p)
  <2> DEFINE c == [proc[p] EXCEPT !.pc = "write down"]
  <2>1. Become(p, c) /\ proc[p].pc = "write up"
    BY <1>3 DEF WriteUp, Goto, At
  <2>2. /\ c.pc = "write down" /\ c.mine = proc[p].mine /\ c.then = proc[p].then
        /\ c.way = proc[p].way
    BY <1>0 DEF Process
  <2>3. proc[p].mine \in Listed(files') /\ files'[proc[p].mine].kind = proc[p].kind
    BY <1>3, WriteUpGrows DEF Listed
  <2> HIDE DEF c
  <2>4. Brings(c, files')
    BY <1>0, <2>1, <2>2, <2>3 DEF Brings, Reading
  <2> QED BY <1>0, <2>1, <2>4, AuthFrame
<1>4. CASE WriteDown(p)
  <2> DEFINE c == [proc[p] EXCEPT !.pc = "list", !.kind = None]
  <2>1. Exit(p) \/ Become(p, c)
    BY <1>4 DEF WriteDown
  <2>2. /\ c.pc = "list" /\ c.mine = proc[p].mine /\ c.then = proc[p].then
        /\ c.way = proc[p].way /\ proc[p].pc = "write down"
    BY <1>0, <1>4 DEF Process, WriteDown, At
  <2>3. \A v \in Listed(files) : v \in Listed(files') /\ files'[v].kind = files[v].kind
    BY <1>0 DEF Grows, Listed
  <2> HIDE DEF c
  <2>4. Brings(c, files')
    BY <1>0, <2>2, <2>3 DEF Brings, Reading
  <2> QED BY <1>0, <1>e, <2>1, <2>4, AuthFrame
<1>5. CASE Copy(p)
  <2> DEFINE c == [proc[p] EXCEPT !.at = proc[p].at + 1]
  <2>1. Exit(p) \/ Become(p, c)
    BY <1>5 DEF Copy
  <2>2. c.pc = "copy" /\ c.then = proc[p].then /\ c.way = proc[p].way
    BY <1>0, <1>5 DEF Process, Copy, At
  <2> HIDE DEF c
  <2>3. Brings(c, files')
    BY <1>0, <2>2 DEF Brings, Reading
  <2> QED BY <1>0, <1>e, <2>1, <2>3, AuthFrame
<1>6. CASE List(p)
  <2> DEFINE c == [proc[p] EXCEPT !.list = files, !.pc = "ensure"]
  <2>1. Become(p, c) /\ UNCHANGED files /\ proc[p].pc = "list"
    BY <1>6 DEF List, Directory, At
  <2>2. /\ c.pc = "ensure" /\ c.list = files /\ c.mine = proc[p].mine
        /\ c.then = proc[p].then /\ c.way = proc[p].way
    BY <1>0 DEF Process
  <2> HIDE DEF c
  <2>3. Brings(c, files')
    BY <1>0, <2>1, <2>2 DEF Brings, Reading
  <2> QED BY <1>0, <2>1, <2>3, AuthFrame
<1>7. CASE EnsureVersionTable(p)
  BY <1>7, <1>g DEF EnsureVersionTable, At, Reading, Directory
<1>8. CASE Lock(p)
  BY <1>8, <1>g DEF Lock, At, Reading, Directory
<1>9. CASE LockTimeout(p)
  BY <1>9, <1>e DEF LockTimeout
<1>10. CASE Refuse(p)
  BY <1>10, <1>e DEF Refuse
<1>11. CASE SetDirty(p)
  <2> DEFINE at == Target(p).at  c == [proc[p] EXCEPT !.at = at, !.pc = "run"]
  <2>1. Become(p, c) /\ UNCHANGED files /\ proc[p].pc = "check"
    BY <1>11 DEF SetDirty, Directory, At
  <2>2. /\ c.pc = "run" /\ c.list = proc[p].list /\ c.mine = proc[p].mine
        /\ c.then = proc[p].then /\ c.way = proc[p].way
    <3> HIDE DEF at
    <3> QED BY <1>0 DEF Process
  <2> HIDE DEF c
  <2>3. Brings(c, files')
    BY <1>0, <2>1, <2>2 DEF Brings, Reading
  <2> QED BY <1>0, <2>1, <2>3, AuthFrame
<1>12. CASE RunBody(p)
  <2>1. /\ Exit(p) \/ Goto(p, "clean")
        /\ UNCHANGED files /\ proc[p].pc = "run"
    BY <1>12 DEF RunBody, Directory, At
  <2> QED BY <2>1, <1>e, <1>g DEF Reading
<1>13. CASE SetClean(p)
  <2>1. /\ Become(p, After(p)) \/ Goto(p, "check")
        /\ UNCHANGED files /\ proc[p].pc = "clean"
    BY <1>13 DEF SetClean, Directory, At
  <2>2. After(p).then # "copy"
    <3>1. [Idle EXCEPT !.pc = "list"].then # "copy"
      BY DEF Idle
    <3>2. [Idle EXCEPT !.pc = "copy", !.mine = proc[p].mine].then # "copy"
      BY DEF Idle
    <3> QED BY <1>i, <3>1, <3>2 DEF After
  <2> QED BY <1>0, <2>1, <2>2, <1>g, BringsIdle, AuthFrame DEF Reading
<1> QED BY <1>1, <1>2, <1>3, <1>4, <1>5, <1>6, <1>7, <1>8, <1>9, <1>10, <1>11, <1>12, <1>13
        DEF Step

(* The step with which make auth begins to copy is the end of a pass in    *)
(* which nothing was left to do.                                           *)
LEMMA CopyBegins ==
    ASSUME IInv, AuthInv, ~shaken, SingleKinds, NEW p \in Processes, ~At(p, "copy"),
           proc'[p].pc = "copy", Step(p) \/ Die(p) \/ \E c \in Commands : Run(p, c)
    PROVE  <<"auth", 0>> \in tables
<1>0. proc[p] \in Process /\ Idle \in Process
  BY IdleType DEF IInv, TypeOK
<1>b. ASSUME NEW c, Become(p, c) PROVE c.pc = "copy"
  BY <1>b DEF IInv, TypeOK, Become
<1>e. ~Exit(p)
  <2>1. Idle.pc # "copy"
    BY DEF Idle
  <2> QED BY <1>b, <2>1 DEF Exit
<1>g. \A pc : Goto(p, pc) => pc = "copy"
  <2> SUFFICES ASSUME NEW pc, Goto(p, pc) PROVE pc = "copy"
    OBVIOUS
  <2>1. [proc[p] EXCEPT !.pc = pc].pc = pc
    BY <1>0 DEF Process
  <2> QED BY <1>b, <2>1 DEF Goto
<1>1. ASSUME NEW k \in Commands, Run(p, k) PROVE FALSE
  <2>1. CASE k \in Makes
    <3> DEFINE d == [Idle EXCEPT !.pc = "write up", !.kind = k, !.mine = clock',
                       !.then = IF k = "auth" THEN "copy" ELSE "nothing"]
    <3>1. d.pc = "write up"
      BY <1>0 DEF Process
    <3>2. Become(p, d)
      BY <1>1, <2>1 DEF Run
    <3> HIDE DEF d
    <3> QED BY <1>b, <3>1, <3>2
  <2>2. CASE k \notin Makes
    <3> DEFINE e == [Idle EXCEPT !.pc = "ensure", !.list = files,
                 !.way = CASE k = "up" -> "up" [] k = "down" -> "one" [] OTHER -> "down",
                 !.then = IF k = "reset" THEN "up" ELSE "nothing"]
    <3>1. e.pc = "ensure"
      BY Zenon DEF Idle
    <3>2. Become(p, e)
      BY <1>1, <2>2 DEF Run
    <3> HIDE DEF e
    <3> QED BY <1>b, <3>1, <3>2
  <2> QED BY <2>1, <2>2
<1>2. ~Die(p) /\ ~LockTimeout(p) /\ ~Refuse(p)
  BY <1>e DEF Die, LockTimeout, Refuse
<1>3. ~WriteUp(p) /\ ~EnsureVersionTable(p) /\ ~Lock(p) /\ ~RunBody(p)
  BY <1>e, <1>g DEF WriteUp, EnsureVersionTable, Lock, RunBody
<1>4. ~WriteDown(p)
  <2>1. [proc[p] EXCEPT !.pc = "list", !.kind = None].pc = "list"
    BY <1>0 DEF Process
  <2> QED BY <1>b, <1>e, <2>1 DEF WriteDown
<1>5. ~Copy(p)
  BY DEF Copy
<1>6. ~List(p)
  <2>1. [proc[p] EXCEPT !.list = files, !.pc = "ensure"].pc = "ensure"
    BY <1>0 DEF Process
  <2> QED BY <1>b, <2>1 DEF List
<1>7. ~SetDirty(p)
  <2> DEFINE at == Target(p).at  d == [proc[p] EXCEPT !.at = at, !.pc = "run"]
  <2>1. d.pc = "run"
    <3> HIDE DEF at
    <3> QED BY <1>0 DEF Process
  <2>2. SetDirty(p) => Become(p, d)
    BY DEF SetDirty
  <2> HIDE DEF d
  <2> QED BY <1>b, <2>1, <2>2
<1>8. SetClean(p)
  BY <1>1, <1>2, <1>3, <1>4, <1>5, <1>6, <1>7 DEF Step
<1>9. proc[p].then = "copy"
  <2>1. Become(p, After(p)) \/ Goto(p, "check")
    BY <1>8 DEF SetClean
  <2>2. After(p).pc = "copy"
    BY <1>b, <1>g, <2>1
  <2>3. [Idle EXCEPT !.pc = "list"].pc # "copy" /\ Idle.pc # "copy"
    BY <1>0 DEF Process, Idle
  <2>4. proc[p].then # "copy" => After(p) = Idle \/ After(p) = [Idle EXCEPT !.pc = "list"]
    BY Zenon DEF After
  <2> QED BY <2>2, <2>3, <2>4
<1>10. At(p, "clean") /\ (proc[p].way = "one" \/ Pending(p) = {})
  <2>1. ~Goto(p, "check")
    BY <1>g
  <2> QED BY <1>8, <2>1 DEF SetClean
<1> DEFINE v == proc[p].mine
<1>11. /\ proc[p].way = "up" /\ v \in Listed(proc[p].list) /\ proc[p].list[v].kind = "auth"
  BY <1>9, <1>10 DEF AuthInv, Brings, At, Reading
<1>12. v \in Listed(files) /\ files[v].kind = "auth"
  BY <1>10, <1>11 DEF IInv, FilesInv, Knows, At, Reading
<1>13. ~(v > version)
  BY <1>10, <1>11 DEF Pending
<1>14. v <= version
  <2>1. v \in Nat
    BY <1>12, ListedNat
  <2>2. version \in 0 .. MaxVersion
    BY DEF IInv, TypeOK
  <2>3. version \in Nat
    BY <2>2, NatUpTo
  <2> QED BY <1>13, <2>1, <2>3
<1>15. tables = Applied(files, version)
  BY <1>10 DEF IInv, SchemaInv
<1>16. Created(files, v) = <<"auth", 0>>
  BY <1>12 DEF Created
<1> QED BY <1>12, <1>14, <1>15, <1>16 DEF Applied

(* make auth copies its files only over tables that are there.             *)
THEOREM CopiesFollow == Spec => CopiesAfterMigration
<1> DEFINE Full == IInv /\ AuthInv
<1>1. Init => Full
  <2>1. Init => AuthInv
    <3>1. Idle.then # "copy"
      BY DEF Idle
    <3> QED BY <3>1, BringsIdle DEF Init, AuthInv
  <2> QED BY <2>1, InvInit
<1>2. Full /\ [Next]_vars => Full'
  <2>1. ASSUME IInv, AuthInv, Next PROVE AuthInv'
    <3>1. TypeOK /\ FilesInv
      BY <2>1 DEF IInv
    <3>2. PICK p \in Processes : Step(p) \/ Die(p) \/ \E c \in Commands : Run(p, c)
      BY <2>1 DEF Next
    <3> QED BY <2>1, <3>1, <3>2, AuthStep
  <2>2. AuthInv /\ UNCHANGED vars => AuthInv'
    BY DEF vars, AuthInv, Brings, Listed
  <2> QED BY <2>1, <2>2, InvNext
<1>3. Full /\ [Next]_vars =>
        [\A p \in Processes :
            ~At(p, "copy") /\ proc'[p].pc = "copy" /\ ~shaken /\ SingleKinds
            => <<"auth", 0>> \in tables]_vars
  <2> SUFFICES ASSUME Full, Next, NEW q \in Processes, ~At(q, "copy"), proc'[q].pc = "copy",
                      ~shaken, SingleKinds
               PROVE  <<"auth", 0>> \in tables
    OBVIOUS
  <2>1. PICK p \in Processes : Step(p) \/ Die(p) \/ \E c \in Commands : Run(p, c)
    BY DEF Next
  <2>2. \E c : Become(p, c)
    BY <2>1 DEF Step, Die, Run, WriteUp, WriteDown, Copy, List, EnsureVersionTable, Lock,
                LockTimeout, Refuse, SetDirty, RunBody, SetClean, Exit, Goto
  <2>3. p = q
    BY <2>2 DEF IInv, TypeOK, Become, At
  <2> QED BY <2>1, <2>3, CopyBegins
<1> QED BY <1>1, <1>2, <1>3, PTL DEF Spec, CopiesAfterMigration
=============================================================================
