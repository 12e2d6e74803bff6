----------------------------- MODULE BootProofs -----------------------------
(***************************************************************************)
(* Theorems about the start of an application, for every number of         *)
(* applications on a machine and every set of environments.                *)
(***************************************************************************)
EXTENDS Boot, TLAPS

(* The fields that are assigned whatever the environment, once the start   *)
(* has come as far as n.                                                   *)
AssignedBy(n) ==
    (IF n >= 6 THEN {"ErrorLog", "Debug", "RootPath"} ELSE {})
    \union (IF n >= 7 THEN {"Mail", "Routes"} ELSE {})
    \union (IF n >= 8 THEN {"config", "Server"} ELSE {})
    \union (IF n >= 9 THEN {"Session"} ELSE {})
    \union (IF n >= 10 THEN {"Render"} ELSE {})
    \union (IF n >= 12 THEN {"chain"} ELSE {})
    \union (IF n >= 13 THEN {"Models"} ELSE {})

(* What is true of an application at stage n, with environment e, fields   *)
(* s, connections h and store st; w says whether its mail worker runs, d   *)
(* whether it found the directory of badger taken.                         *)
AppInv(n, e, s, h, st, w, d) ==
    /\ AssignedBy(n) \subseteq s
    /\ n >= 3 /\ e.db # "none" => "DB" \in s /\ "db" \in h
    /\ n >= 4 /\ (e.cache = "redis" \/ e.session = "redis") => "Cache" \in s /\ "redis" \in h
    /\ n <= 4 => "badger" \notin h /\ ~d
    /\ n >= 5 /\ e.cache = "badger" => ("badger" \in h <=> ~d)
    /\ n >= 9 /\ Coherent(e) => st \notin {"unset", "nil pool"}
    /\ n >= 11 => w

Known(a) == AppInv(pc[a], env[a], set[a], handles[a], store[a], a \in workers, a \in denied)

(* The inductive invariant. *)
IInv == TypeOK /\ OnlyKnownEarlyReads /\ \A a \in Apps : Known(a)
-----------------------------------------------------------------------------
(* Which stage has which number.                                           *)
LEMMA StageNumbers ==
    ASSUME TypeOK, NEW a \in Apps
    PROVE  /\ pc[a] \in 0 .. 14
           /\ Stage(a, "folders") => pc[a] = 1
           /\ Stage(a, "database") => pc[a] = 2
           /\ Stage(a, "redis") => pc[a] = 3
           /\ Stage(a, "badger") => pc[a] = 4
           /\ Stage(a, "settings") => pc[a] = 5
           /\ Stage(a, "mailer") => pc[a] = 6
           /\ Stage(a, "config") => pc[a] = 7
           /\ Stage(a, "session") => pc[a] = 8
           /\ Stage(a, "render") => pc[a] = 9
           /\ Stage(a, "worker") => pc[a] = 10
           /\ Stage(a, "routes") => pc[a] = 11
           /\ Stage(a, "models") => pc[a] = 12
           /\ Stage(a, "listen") => pc[a] = 13
           /\ Stage(a, "serving") => pc[a] = 14
<1>1. pc[a] \in 0 .. 14  BY DEF TypeOK
<1>2. \/ pc[a] = 0 \/ pc[a] = 1 \/ pc[a] = 2 \/ pc[a] = 3 \/ pc[a] = 4 \/ pc[a] = 5
      \/ pc[a] = 6 \/ pc[a] = 7 \/ pc[a] = 8 \/ pc[a] = 9 \/ pc[a] = 10 \/ pc[a] = 11
      \/ pc[a] = 12 \/ pc[a] = 13 \/ pc[a] = 14
  BY <1>1, SMT
<1>3. /\ Stages[1] = "folders" /\ Stages[2] = "database" /\ Stages[3] = "redis"
      /\ Stages[4] = "badger" /\ Stages[5] = "settings" /\ Stages[6] = "mailer"
      /\ Stages[7] = "config" /\ Stages[8] = "session" /\ Stages[9] = "render"
      /\ Stages[10] = "worker" /\ Stages[11] = "routes" /\ Stages[12] = "models"
      /\ Stages[13] = "listen" /\ Stages[14] = "serving"
  BY DEF Stages
<1>4. QED  BY <1>1, <1>2, <1>3 DEF Stage, Off

(* A stretch of the start moves one application on, adds what it assigns   *)
(* and nothing else, and reads early only what was not assigned.           *)
LEMMA GoesOn ==
    ASSUME TypeOK, NEW a \in Apps, pc[a] \in 1 .. 13, NEW reads, NEW assigns \in SUBSET Fields,
           Goes(a, reads, assigns)
    PROVE  /\ env' = env /\ pc' \in [Apps -> 0 .. 14] /\ set' \in [Apps -> SUBSET Fields]
           /\ pc'[a] = pc[a] + 1 /\ set'[a] = set[a] \union assigns
           /\ \A b \in Apps \ {a} : pc'[b] = pc[b] /\ set'[b] = set[b]
           /\ \A x \in early' : x \in early \/ \E f \in reads \ set[a] : x = <<Stages[pc[a]], f>>
<1>0. pc[a] \in 0 .. 14  BY DEF TypeOK
<1>1. pc[a] + 1 \in 0 .. 14  BY <1>0
<1>2. pc' \in [Apps -> 0 .. 14] /\ pc'[a] = pc[a] + 1 /\ \A b \in Apps \ {a} : pc'[b] = pc[b]
  BY <1>1 DEF TypeOK, Goes
<1>3. set' \in [Apps -> SUBSET Fields] /\ set'[a] = set[a] \union assigns
      /\ \A b \in Apps \ {a} : set'[b] = set[b]
  BY DEF TypeOK, Goes
<1>4. QED  BY <1>2, <1>3 DEF Goes

(* Reads of what is assigned add nothing to early.                         *)
LEMMA NothingEarly ==
    ASSUME TypeOK, OnlyKnownEarlyReads, NEW a \in Apps, NEW reads, NEW assigns,
           Goes(a, reads, assigns), reads \subseteq set[a]
    PROVE  OnlyKnownEarlyReads'
<1>1. early' = early  BY DEF Goes
<1>2. QED  BY <1>1 DEF OnlyKnownEarlyReads
-----------------------------------------------------------------------------
(* What a stretch that opens nothing leaves alone.                         *)
Quiet(a, reads, assigns) == Goes(a, reads, assigns) /\ UNCHANGED Connections

(* An application that somebody else's stretch does not touch stays known. *)
LEMMA OthersKnown ==
    ASSUME NEW a \in Apps, NEW b \in Apps, b # a, Known(b),
           pc'[b] = pc[b], env'[b] = env[b], set'[b] = set[b], handles'[b] = handles[b],
           store'[b] = store[b], b \in workers' <=> b \in workers, b \in denied' <=> b \in denied
    PROVE  Known(b)'
BY DEF Known

(* What is assigned from the mailer on, from the session on, and at the    *)
(* end.                                                                    *)
LEMMA Assigned ==
    ASSUME NEW n \in Nat, NEW e, NEW s, NEW h, NEW st, NEW w, NEW d, AppInv(n, e, s, h, st, w, d)
    PROVE  /\ n >= 6 => {"ErrorLog", "Debug", "RootPath"} \subseteq s
           /\ n >= 7 => {"Mail", "Routes"} \subseteq s
           /\ n >= 8 => {"config", "Server"} \subseteq s
           /\ n >= 9 => {"Session"} \subseteq s
           /\ n >= 10 => {"Render"} \subseteq s
           /\ n >= 12 => {"chain"} \subseteq s
           /\ n >= 13 => {"Models"} \subseteq s
           /\ n >= 3 /\ e.db # "none" => "DB" \in s
<1>1. AssignedBy(n) \subseteq s /\ (n >= 3 /\ e.db # "none" => "DB" \in s)  BY DEF AppInv
<1>2. QED  BY <1>1 DEF AssignedBy

(* What is not about assigned fields survives a stretch that opens nothing. *)
LEMMA RestStays ==
    ASSUME NEW n \in {1, 5, 6, 7, 9, 11, 12, 13}, NEW e, NEW s, NEW f, NEW h, NEW st, NEW w, NEW d,
           AppInv(n, e, s, h, st, w, d), AssignedBy(n + 1) \subseteq s \union f
    PROVE  AppInv(n + 1, e, s \union f, h, st, w, d)
<1>1. /\ n + 1 >= 3 => n >= 3
      /\ n + 1 >= 4 => n >= 4
      /\ ~(n + 1 <= 4) \/ n <= 4
      /\ n + 1 >= 5 => n >= 5
      /\ n + 1 >= 9 => n >= 9
      /\ n + 1 >= 11 => n >= 11
  OBVIOUS
<1>2. QED  BY <1>1, Zenon DEF AppInv

(* A stretch that opens nothing keeps the invariant, if it is not one that *)
(* the invariant expects to open something, reads nothing early, and       *)
(* assigns what the next stage counts on.                                  *)
LEMMA QuietStep ==
    ASSUME IInv, NEW a \in Apps, pc[a] \in {1, 5, 6, 7, 9, 11, 12, 13},
           NEW reads, NEW assigns \in SUBSET Fields, Quiet(a, reads, assigns),
           reads \subseteq set[a], AssignedBy(pc[a] + 1) \subseteq set[a] \union assigns
    PROVE  IInv'
<1>0. AppInv(pc[a] + 1, env[a], set[a] \union assigns, handles[a], store[a],
             a \in workers, a \in denied)
  BY RestStays DEF IInv, Known
<1>1. Goes(a, reads, assigns) /\ UNCHANGED Connections /\ TypeOK /\ OnlyKnownEarlyReads
  BY DEF Quiet, IInv
<1>2. /\ env' = env /\ pc' \in [Apps -> 0 .. 14] /\ set' \in [Apps -> SUBSET Fields]
      /\ pc'[a] = pc[a] + 1 /\ set'[a] = set[a] \union assigns
      /\ \A b \in Apps \ {a} : pc'[b] = pc[b] /\ set'[b] = set[b]
  BY <1>1, GoesOn
<1>3. handles' = handles /\ store' = store /\ directory' = directory /\ workers' = workers
      /\ denied' = denied
  BY <1>1 DEF Connections
<1>4. TypeOK'  BY <1>1, <1>2, <1>3 DEF TypeOK
<1>5. OnlyKnownEarlyReads'  BY <1>1, NothingEarly
<1>6. ASSUME NEW b \in Apps PROVE Known(b)'
  <2>1. CASE b = a  BY <2>1, <1>0, <1>2, <1>3 DEF Known
  <2>2. CASE b # a
    <3>1. Known(b)  BY DEF IInv
    <3>2. QED  BY <2>2, <3>1, <1>2, <1>3, OthersKnown
  <2>3. QED  BY <2>1, <2>2
<1>7. QED  BY <1>4, <1>5, <1>6 DEF IInv

(* The stretches that open nothing: what they read is assigned by then.    *)
LEMMA QuietStretches ==
    ASSUME IInv, NEW a \in Apps,
           \/ Folders(a) \/ Settings(a) \/ Mailer(a) \/ Config(a) \/ Render(a) \/ Routes(a)
           \/ Models(a) \/ Listen(a)
    PROVE  IInv'
<1>0. AppInv(pc[a], env[a], set[a], handles[a], store[a], a \in workers, a \in denied) /\ TypeOK
  BY DEF IInv, Known
<1>1. CASE Folders(a)
  <2>1. pc[a] = 1  BY <1>0, <1>1, StageNumbers DEF Folders
  <2>2. AssignedBy(pc[a] + 1) \subseteq set[a] \union {}  BY <1>0, <2>1 DEF AppInv, AssignedBy
  <2>3. Quiet(a, {}, {})  BY <1>1 DEF Folders, Quiet
  <2>4. QED  BY <2>1, <2>2, <2>3, QuietStep
<1>2. CASE Settings(a)
  <2> DEFINE f == {"ErrorLog", "Debug", "RootPath"}
  <2>1. pc[a] = 5  BY <1>0, <1>2, StageNumbers DEF Settings
  <2>2. AssignedBy(pc[a] + 1) \subseteq set[a] \union f  BY <1>0, <2>1 DEF AppInv, AssignedBy
  <2>3. Quiet(a, {}, f) /\ f \in SUBSET Fields  BY <1>2 DEF Settings, Quiet, Fields
  <2>4. QED  BY <2>1, <2>2, <2>3, QuietStep
<1>3. CASE Mailer(a)
  <2> DEFINE f == {"Mail", "Routes"}
             r == {"RootPath", "Debug"}
  <2>1. pc[a] = 6  BY <1>0, <1>3, StageNumbers DEF Mailer
  <2>2. AssignedBy(pc[a] + 1) \subseteq set[a] \union f  BY <1>0, <2>1 DEF AppInv, AssignedBy
  <2>3. r \subseteq set[a]  BY <1>0, <2>1, Assigned
  <2>4. Quiet(a, r, f) /\ f \in SUBSET Fields  BY <1>3 DEF Mailer, Quiet, Fields
  <2>5. QED  BY <2>1, <2>2, <2>3, <2>4, QuietStep
<1>4. CASE Config(a)
  <2> DEFINE f == {"config", "Server"}
  <2>1. pc[a] = 7  BY <1>0, <1>4, StageNumbers DEF Config
  <2>2. AssignedBy(pc[a] + 1) \subseteq set[a] \union f  BY <1>0, <2>1 DEF AppInv, AssignedBy
  <2>3. Quiet(a, {}, f) /\ f \in SUBSET Fields  BY <1>4 DEF Config, Quiet, Fields
  <2>4. QED  BY <2>1, <2>2, <2>3, QuietStep
<1>5. CASE Render(a)
  <2> DEFINE f == {"JetViews", "Render"}
             r == {"Debug", "config", "RootPath", "Session"}
  <2>1. pc[a] = 9  BY <1>0, <1>5, StageNumbers DEF Render
  <2>2. AssignedBy(pc[a] + 1) \subseteq set[a] \union f
    <3>1. AssignedBy(9) \subseteq set[a]  BY <1>0, <2>1 DEF AppInv
    <3>2. AssignedBy(10) = AssignedBy(9) \union {"Render"}  BY DEF AssignedBy
    <3>3. QED  BY <2>1, <3>1, <3>2
  <2>3. r \subseteq set[a]  BY <1>0, <2>1, Assigned
  <2>4. Quiet(a, r, f) /\ f \in SUBSET Fields  BY <1>5 DEF Render, Quiet, Fields
  <2>5. QED  BY <2>1, <2>2, <2>3, <2>4, QuietStep
<1>6. CASE Routes(a)
  <2> DEFINE f == {"chain"}
             r == {"Routes", "Session", "config"}
  <2>1. pc[a] = 11  BY <1>0, <1>6, StageNumbers DEF Routes
  <2>2. AssignedBy(pc[a] + 1) \subseteq set[a] \union f
    <3>1. AssignedBy(11) \subseteq set[a]  BY <1>0, <2>1 DEF AppInv
    <3>2. AssignedBy(12) = AssignedBy(11) \union {"chain"}  BY DEF AssignedBy
    <3>3. QED  BY <2>1, <3>1, <3>2
  <2>3. r \subseteq set[a]  BY <1>0, <2>1, Assigned
  <2>4. Quiet(a, r, f) /\ f \in SUBSET Fields  BY <1>6 DEF Routes, Quiet, Fields
  <2>5. QED  BY <2>1, <2>2, <2>3, <2>4, QuietStep
<1>7. CASE Models(a)
  <2> DEFINE f == {"Models"}
             r == IF env[a].db = "none" THEN {} ELSE {"DB"}
  <2>1. pc[a] = 12  BY <1>0, <1>7, StageNumbers DEF Models
  <2>2. AssignedBy(pc[a] + 1) \subseteq set[a] \union f
    <3>1. AssignedBy(12) \subseteq set[a]  BY <1>0, <2>1 DEF AppInv
    <3>2. AssignedBy(13) = AssignedBy(12) \union {"Models"}  BY DEF AssignedBy
    <3>3. QED  BY <2>1, <3>1, <3>2
  <2>3. r \subseteq set[a]  BY <1>0, <2>1, Assigned
  <2>4. Quiet(a, r, f) /\ f \in SUBSET Fields  BY <1>7 DEF Models, Quiet, Fields
  <2>5. QED  BY <2>1, <2>2, <2>3, <2>4, QuietStep
<1>8. CASE Listen(a)
  <2> DEFINE r == {"ErrorLog", "Routes", "chain", "config", "Session", "Render", "Models"}
  <2>1. pc[a] = 13  BY <1>0, <1>8, StageNumbers DEF Listen
  <2>2. AssignedBy(pc[a] + 1) \subseteq set[a] \union {}
    <3>1. AssignedBy(13) \subseteq set[a]  BY <1>0, <2>1 DEF AppInv
    <3>2. AssignedBy(14) = AssignedBy(13)  BY DEF AssignedBy
    <3>3. QED  BY <2>1, <3>1, <3>2
  <2>3. r \subseteq set[a]  BY <1>0, <2>1, Assigned
  <2>4. Quiet(a, r, {})  BY <1>8 DEF Listen, Quiet
  <2>5. QED  BY <2>1, <2>2, <2>3, <2>4, QuietStep
<1>9. QED  BY <1>1, <1>2, <1>3, <1>4, <1>5, <1>6, <1>7, <1>8
-----------------------------------------------------------------------------
(* What a stretch that opens connections or starts the worker may do: it   *)
(* touches one application only.                                           *)
Touches(a) ==
    /\ handles' \in [Apps -> SUBSET {"db", "redis", "badger"}]
    /\ store' \in [Apps -> {"unset", "memory", "redis", "sql", "nil pool"}]
    /\ directory' \in Apps \union {None} /\ workers' \subseteq Apps /\ denied' \subseteq Apps
    /\ \A b \in Apps \ {a} : /\ handles'[b] = handles[b] /\ store'[b] = store[b]
                             /\ b \in workers' <=> b \in workers
                             /\ b \in denied' <=> b \in denied

(* The general step: it goes on, touches one application, reads early only *)
(* the two known fields, and leaves its application as the next stage      *)
(* expects it.                                                             *)
LEMMA OpeningStep ==
    ASSUME IInv, NEW a \in Apps, pc[a] \in 1 .. 13, NEW reads, NEW assigns \in SUBSET Fields,
           Goes(a, reads, assigns), Touches(a),
           \A f \in reads \ set[a] :
               <<Stages[pc[a]], f>> \in {<<"redis", "config">>, <<"badger", "RootPath">>},
           AppInv(pc[a] + 1, env[a], set[a] \union assigns, handles'[a], store'[a],
                  a \in workers', a \in denied')
    PROVE  IInv'
<1>1. TypeOK /\ OnlyKnownEarlyReads  BY DEF IInv
<1>2. /\ env' = env /\ pc' \in [Apps -> 0 .. 14] /\ set' \in [Apps -> SUBSET Fields]
      /\ pc'[a] = pc[a] + 1 /\ set'[a] = set[a] \union assigns
      /\ \A b \in Apps \ {a} : pc'[b] = pc[b] /\ set'[b] = set[b]
      /\ \A x \in early' : x \in early \/ \E f \in reads \ set[a] : x = <<Stages[pc[a]], f>>
  BY <1>1, GoesOn
<1>3. TypeOK'  BY <1>1, <1>2 DEF TypeOK, Touches
<1>4. OnlyKnownEarlyReads'
  <2>1. \A x \in early' : x \in {<<"redis", "config">>, <<"badger", "RootPath">>}
    BY <1>1, <1>2, Zenon DEF OnlyKnownEarlyReads
  <2>2. QED  BY <2>1, Zenon DEF OnlyKnownEarlyReads
<1>5. ASSUME NEW b \in Apps PROVE Known(b)'
  <2>1. CASE b = a  BY <2>1, <1>2 DEF Known
  <2>2. CASE b # a
    <3>1. Known(b)  BY DEF IInv
    <3>2. QED  BY <2>2, <3>1, <1>2, OthersKnown DEF Touches
  <2>3. QED  BY <2>1, <2>2
<1>6. QED  BY <1>3, <1>4, <1>5 DEF IInv

(* The database is opened if there is one.                                 *)
LEMMA DatabaseStep == ASSUME IInv, NEW a \in Apps, OpenDatabase(a) PROVE IInv'
<1>0. AppInv(pc[a], env[a], set[a], handles[a], store[a], a \in workers, a \in denied) /\ TypeOK
  BY DEF IInv, Known
<1>1. pc[a] = 2  BY <1>0, StageNumbers DEF OpenDatabase
<1> DEFINE f == IF env[a].db = "none" THEN {} ELSE {"DB"}
           h == IF env[a].db = "none" THEN {} ELSE {"db"}
<1>2. Goes(a, {}, f) /\ f \in SUBSET Fields  BY DEF OpenDatabase, Fields
<1>3. handles' = [handles EXCEPT ![a] = handles[a] \union h]  BY <1>0 DEF OpenDatabase, TypeOK
<1>4. Touches(a) /\ handles'[a] = handles[a] \union h /\ store'[a] = store[a]
      /\ (a \in workers' <=> a \in workers) /\ (a \in denied' <=> a \in denied)
  BY <1>0, <1>3 DEF OpenDatabase, Touches, TypeOK
<1>5. AppInv(pc[a] + 1, env[a], set[a] \union f, handles'[a], store'[a], a \in workers', a \in denied')
  BY <1>0, <1>1, <1>4 DEF AppInv, AssignedBy
<1> HIDE DEF f
<1>6. Touches(a)  BY <1>4
<1>7. QED  BY <1>1, <1>2, <1>5, <1>6, OpeningStep

(* The redis pool is opened for the cache or the sessions; its prefix is   *)
(* read from config before config is assigned.                             *)
LEMMA RedisStep == ASSUME IInv, NEW a \in Apps, OpenRedis(a) PROVE IInv'
<1>0. AppInv(pc[a], env[a], set[a], handles[a], store[a], a \in workers, a \in denied) /\ TypeOK
  BY DEF IInv, Known
<1>1. pc[a] = 3 /\ Stages[pc[a]] = "redis"  BY <1>0, StageNumbers DEF OpenRedis, Stage
<1> DEFINE uses == env[a].cache = "redis" \/ env[a].session = "redis"
           r == IF uses THEN {"config"} ELSE {}
           f == IF uses THEN {"Cache"} ELSE {}
           h == IF uses THEN {"redis"} ELSE {}
<1>2. Goes(a, r, f) /\ f \in SUBSET Fields  BY DEF OpenRedis, Fields
<1>3. handles' = [handles EXCEPT ![a] = handles[a] \union h]  BY <1>0 DEF OpenRedis, TypeOK
<1>4. Touches(a) /\ handles'[a] = handles[a] \union h /\ store'[a] = store[a]
      /\ (a \in workers' <=> a \in workers) /\ (a \in denied' <=> a \in denied)
  BY <1>0, <1>3 DEF OpenRedis, Touches, TypeOK
<1>5. AppInv(pc[a] + 1, env[a], set[a] \union f, handles'[a], store'[a], a \in workers', a \in denied')
  BY <1>0, <1>1, <1>4 DEF AppInv, AssignedBy
<1>6. \A x \in r \ set[a] : <<Stages[pc[a]], x>> \in {<<"redis", "config">>, <<"badger", "RootPath">>}
  BY <1>1
<1> HIDE DEF f, r
<1>7. Touches(a)  BY <1>4
<1>8. QED  BY <1>1, <1>2, <1>5, <1>6, <1>7, OpeningStep

(* Badger is opened in the directory that RootPath, not yet assigned,      *)
(* leads to; who finds it locked goes on without.                          *)
LEMMA BadgerStep == ASSUME IInv, NEW a \in Apps, OpenBadger(a) PROVE IInv'
<1>0. AppInv(pc[a], env[a], set[a], handles[a], store[a], a \in workers, a \in denied) /\ TypeOK
  BY DEF IInv, Known
<1>1. pc[a] = 4 /\ Stages[pc[a]] = "badger"  BY <1>0, StageNumbers DEF OpenBadger, Stage
<1> DEFINE uses == env[a].cache = "badger"
           r == IF uses THEN {"RootPath"} ELSE {}
           f == IF uses THEN {"Cache"} ELSE {}
<1>2. Goes(a, r, f) /\ f \in SUBSET Fields  BY DEF OpenBadger, Fields
<1>3. \A x \in r \ set[a] : <<Stages[pc[a]], x>> \in {<<"redis", "config">>, <<"badger", "RootPath">>}
  BY <1>1
<1> DEFINE Ready == AppInv(pc[a] + 1, env[a], set[a] \union f, handles'[a], store'[a],
                           a \in workers', a \in denied')
<1>4. ASSUME ~uses PROVE Touches(a) /\ Ready
  <2>1. UNCHANGED Connections  BY <1>4 DEF OpenBadger
  <2>2. Touches(a)  BY <1>0, <2>1 DEF Touches, TypeOK, Connections
  <2>3. Ready
    BY <1>0, <1>1, <1>4, <2>1 DEF AppInv, AssignedBy, Connections
  <2>4. QED  BY <2>2, <2>3
<1>5. ASSUME uses, directory = None PROVE Touches(a) /\ Ready
  <2>1. /\ handles' = [handles EXCEPT ![a] = handles[a] \union {"badger"}] /\ denied' = denied
        /\ directory' = a /\ store' = store /\ workers' = workers
    BY <1>0, <1>5 DEF OpenBadger, TypeOK
  <2>2. Touches(a) /\ handles'[a] = handles[a] \union {"badger"}
    BY <1>0, <2>1 DEF Touches, TypeOK
  <2>3. Ready
    BY <1>0, <1>1, <1>5, <2>1, <2>2 DEF AppInv, AssignedBy
  <2>4. QED  BY <2>2, <2>3
<1>6. ASSUME uses, directory # None PROVE Touches(a) /\ Ready
  <2>1. /\ denied' = denied \union {a}
        /\ handles' = handles /\ directory' = directory /\ store' = store /\ workers' = workers
    BY <1>6 DEF OpenBadger
  <2>2. Touches(a)  BY <1>0, <2>1 DEF Touches, TypeOK
  <2>3. Ready
    BY <1>0, <1>1, <1>6, <2>1 DEF AppInv, AssignedBy
  <2>4. QED  BY <2>2, <2>3
<1>7. Touches(a)  BY <1>4, <1>5, <1>6
<1>8. Ready  BY <1>4, <1>5, <1>6
<1> HIDE DEF f, r
<1>9. QED  BY <1>1, <1>2, <1>3, <1>7, <1>8, OpeningStep

(* The stages after the caches, and the first two.                         *)
LEMMA Numbers ==
    /\ \A n \in 5 .. 13 : n >= 3 /\ n >= 4 /\ n >= 5 /\ ~(n + 1 <= 4)
    /\ 0 \in 0 .. 14 /\ 1 \in 0 .. 14 /\ 0 \in 0 .. 1 /\ 1 \in 0 .. 1
    /\ 14 >= 3 /\ 14 >= 4 /\ 14 >= 5 /\ 14 >= 9 /\ 14 >= 11 /\ 0 <= 4 /\ 10 >= 9
OBVIOUS

(* In the first two stages nothing is assigned.                            *)
LEMMA SmallNumbers ==
    ASSUME NEW n \in 0 .. 1
    PROVE  /\ ~(n >= 3) /\ ~(n >= 4) /\ ~(n >= 5) /\ ~(n >= 6) /\ ~(n >= 7) /\ ~(n >= 8)
           /\ ~(n >= 9) /\ ~(n >= 10) /\ ~(n >= 11) /\ ~(n >= 12) /\ ~(n >= 13)
           /\ \A s : AssignedBy(n) \subseteq s
<1>1. /\ ~(n >= 3) /\ ~(n >= 4) /\ ~(n >= 5) /\ ~(n >= 6) /\ ~(n >= 7) /\ ~(n >= 8)
      /\ ~(n >= 9) /\ ~(n >= 10) /\ ~(n >= 11) /\ ~(n >= 12) /\ ~(n >= 13)
  OBVIOUS
<1>2. \A x : x \notin AssignedBy(n)  BY <1>1 DEF AssignedBy
<1>3. QED  BY <1>1, <1>2

(* After the caches nothing but the store and the worker changes.          *)
LEMMA Later ==
    ASSUME NEW n \in 5 .. 13, NEW e, NEW s, NEW f, NEW h, NEW st, NEW w, NEW d, NEW st2, NEW w2,
           AppInv(n, e, s, h, st, w, d), AssignedBy(n + 1) \subseteq s \union f,
           n + 1 >= 9 /\ Coherent(e) => st2 \notin {"unset", "nil pool"},
           n + 1 >= 11 => w2
    PROVE  AppInv(n + 1, e, s \union f, h, st2, w2, d)
<1>1. n >= 3 /\ n >= 4 /\ n >= 5 /\ ~(n + 1 <= 4)  BY Numbers, Zenon
<1>2. QED  BY <1>1, Zenon DEF AppInv

(* InitSession chooses a store; if the settings fit together it has a      *)
(* connection, for the database and the pool were opened before.           *)
LEMMA SessionStep == ASSUME IInv, NEW a \in Apps, Session(a) PROVE IInv'
<1>0. AppInv(pc[a], env[a], set[a], handles[a], store[a], a \in workers, a \in denied) /\ TypeOK
  BY DEF IInv, Known
<1>1. pc[a] = 8  BY <1>0, StageNumbers DEF Session
<1> DEFINE r == {"config"} \union (IF env[a].session = "redis" THEN {"Cache"} ELSE {})
           f == {"Session"}
<1>2. Goes(a, r, f) /\ f \in SUBSET Fields  BY DEF Session, Fields
<1>3. "config" \in set[a] /\ (env[a].session = "redis" => "Cache" \in set[a])
  <2>1. AssignedBy(8) \subseteq set[a] /\ (env[a].session = "redis" => "Cache" \in set[a])
    BY <1>0, <1>1 DEF AppInv
  <2>2. "config" \in AssignedBy(8)  BY DEF AssignedBy
  <2>3. QED  BY <2>1, <2>2
<1>4. r \subseteq set[a]  BY <1>3
<1>5. StoreOf(a) \in {"memory", "redis", "sql", "nil pool"}
  <2>1. CASE env[a].session = "cookie"  BY <2>1 DEF StoreOf
  <2>2. CASE env[a].session # "cookie" /\ env[a].session = "redis" /\ "redis" \in handles[a]
    BY <2>2 DEF StoreOf
  <2>3. CASE env[a].session = "sql" /\ "db" \in handles[a]  BY <2>3 DEF StoreOf
  <2>4. CASE /\ env[a].session # "cookie"
             /\ ~(env[a].session = "redis" /\ "redis" \in handles[a])
             /\ ~(env[a].session = "sql" /\ "db" \in handles[a])
    BY <2>4 DEF StoreOf
  <2>5. QED  BY <2>1, <2>2, <2>3, <2>4
<1>6. env[a].session \in SessionTypes /\ env[a].db \in DbTypes
  <2>1. env[a] \in Envs  BY <1>0 DEF TypeOK
  <2>2. env[a] \in [db : DbTypes, cache : CacheTypes, session : SessionTypes]
    BY <2>1, BootAssumption DEF BootAssumption
  <2>3. QED  BY <2>2
<1>7. Coherent(env[a]) => StoreOf(a) # "nil pool"
  <2>1. /\ env[a].db # "none" => "db" \in handles[a]
        /\ env[a].session = "redis" => "redis" \in handles[a]
    BY <1>0, <1>1 DEF AppInv
  <2>2. CASE env[a].session = "cookie"  BY <2>2 DEF StoreOf
  <2>3. CASE env[a].session = "redis"  BY <2>1, <2>3 DEF StoreOf
  <2>4. CASE env[a].session = "sql"  BY <2>1, <2>4 DEF StoreOf, Coherent
  <2>5. CASE env[a].session = "Redis"  BY <2>5 DEF Coherent
  <2>6. QED  BY <1>6, <2>2, <2>3, <2>4, <2>5 DEF SessionTypes
<1>8. Touches(a)  BY <1>0, <1>5 DEF Session, Touches, TypeOK
<1>9. /\ handles'[a] = handles[a] /\ store'[a] = StoreOf(a)
      /\ (a \in workers' <=> a \in workers) /\ (a \in denied' <=> a \in denied)
  BY <1>0 DEF Session, TypeOK
<1>10. AssignedBy(pc[a] + 1) \subseteq set[a] \union f
  <2>1. AssignedBy(8) \subseteq set[a]  BY <1>0, <1>1 DEF AppInv
  <2>2. AssignedBy(9) = AssignedBy(8) \union f  BY DEF AssignedBy
  <2>3. QED  BY <1>1, <2>1, <2>2
<1>11. AppInv(pc[a] + 1, env[a], set[a] \union f, handles'[a], store'[a], a \in workers', a \in denied')
  <2>1. AppInv(pc[a] + 1, env[a], set[a] \union f, handles[a], StoreOf(a),
               a \in workers, a \in denied)
    <3>1. pc[a] \in 5 .. 13 /\ ~(pc[a] + 1 >= 11)  BY <1>1
    <3>2. Coherent(env[a]) => StoreOf(a) \notin {"unset", "nil pool"}  BY <1>5, <1>7
    <3>3. QED  BY <1>0, <1>10, <3>1, <3>2, Later, Zenon
  <2>2. QED  BY <1>9, <2>1
<1> HIDE DEF f, r
<1>12. QED  BY <1>1, <1>2, <1>4, <1>8, <1>11, OpeningStep

(* New ends by starting the mail worker.                                   *)
LEMMA WorkerStep == ASSUME IInv, NEW a \in Apps, Worker(a) PROVE IInv'
<1>0. AppInv(pc[a], env[a], set[a], handles[a], store[a], a \in workers, a \in denied) /\ TypeOK
  BY DEF IInv, Known
<1>1. pc[a] = 10  BY <1>0, StageNumbers DEF Worker
<1>2. Goes(a, {"Mail"}, {})  BY DEF Worker
<1>3. {"Mail"} \subseteq set[a] /\ AssignedBy(pc[a] + 1) \subseteq set[a] \union {}
  <2>1. AssignedBy(10) \subseteq set[a]  BY <1>0, <1>1 DEF AppInv
  <2>2. AssignedBy(11) = AssignedBy(10) /\ "Mail" \in AssignedBy(10)  BY DEF AssignedBy
  <2>3. QED  BY <1>1, <2>1, <2>2
<1>4. Touches(a)  BY <1>0 DEF Worker, Touches, TypeOK
<1>5. handles' = handles /\ store' = store /\ denied' = denied /\ a \in workers'
  BY DEF Worker
<1>6. AppInv(pc[a] + 1, env[a], set[a] \union {}, handles'[a], store'[a], a \in workers', a \in denied')
  <2>1. AppInv(pc[a] + 1, env[a], set[a] \union {}, handles[a], store[a],
               a \in workers', a \in denied)
    <3>1. pc[a] \in 5 .. 13  BY <1>1
    <3>2. AppInv(10, env[a], set[a], handles[a], store[a], a \in workers, a \in denied)
      BY <1>0, <1>1
    <3>3. Coherent(env[a]) => store[a] \notin {"unset", "nil pool"}
      BY <3>2, Numbers, Zenon DEF AppInv
    <3>4. QED  BY <1>0, <1>3, <1>5, <3>1, <3>3, Later, Zenon
  <2>2. QED  BY <1>5, <2>1, Zenon
<1>7. QED  BY <1>1, <1>2, <1>3, <1>4, <1>6, OpeningStep

(* An application that is off is known, with any environment, and so is    *)
(* one that has just begun.                                                *)
LEMMA NothingYet ==
    ASSUME NEW n \in 0 .. 1, NEW e, NEW s, NEW h, NEW st, NEW w, NEW d, "badger" \notin h, ~d
    PROVE  AppInv(n, e, s, h, st, w, d)
BY SmallNumbers, Zenon DEF AppInv

(* A process that ends leaves the others as they are.                      *)
LEMMA KillStep == ASSUME IInv, NEW a \in Apps, Kill(a) PROVE IInv'
<1>0. TypeOK /\ OnlyKnownEarlyReads /\ pc' = [pc EXCEPT ![a] = 0]
  BY DEF IInv, Kill, Exit, Off
<1>1. TypeOK'
  <2>1. pc' \in [Apps -> 0 .. 14]  BY <1>0, Numbers DEF TypeOK
  <2>2. set' \in [Apps -> SUBSET Fields] /\ handles' \in [Apps -> SUBSET {"db", "redis", "badger"}]
    BY <1>0 DEF TypeOK, Kill, Exit
  <2>3. store' \in [Apps -> {"unset", "memory", "redis", "sql", "nil pool"}]
    BY <1>0 DEF TypeOK, Kill, Exit
  <2>4. /\ directory' \in Apps \union {None} /\ workers' \subseteq Apps /\ denied' \subseteq Apps
        /\ env' \in [Apps -> Envs]
    BY <1>0 DEF TypeOK, Kill, Exit
  <2>5. QED  BY <2>1, <2>2, <2>3, <2>4 DEF TypeOK
<1>2. OnlyKnownEarlyReads'  BY <1>0 DEF OnlyKnownEarlyReads, Kill, Exit
<1>3. ASSUME NEW b \in Apps PROVE Known(b)'
  <2>1. CASE b = a
    <3>1. /\ pc'[a] = 0 /\ set'[a] = {} /\ handles'[a] = {} /\ store'[a] = "unset"
          /\ a \notin denied' /\ env' = env
      BY <1>0 DEF Kill, Exit, Off, TypeOK
    <3>2. AppInv(pc'[a], env'[a], set'[a], handles'[a], store'[a], a \in workers', a \in denied')
      BY <3>1, Numbers, NothingYet
    <3>3. QED  BY <2>1, <3>2 DEF Known
  <2>2. CASE b # a
    <3>1. Known(b)  BY DEF IInv
    <3>2. /\ pc'[b] = pc[b] /\ set'[b] = set[b] /\ handles'[b] = handles[b]
          /\ store'[b] = store[b] /\ env'[b] = env[b]
          /\ (b \in workers' <=> b \in workers) /\ (b \in denied' <=> b \in denied)
      BY <1>0, <2>2 DEF Kill, Exit, TypeOK
    <3>3. QED  BY <2>2, <3>1, <3>2, OthersKnown
  <2>3. QED  BY <2>1, <2>2
<1>4. QED  BY <1>1, <1>2, <1>3 DEF IInv

(* An application that starts has nothing: it was off.                     *)
LEMMA StartStep == ASSUME IInv, NEW a \in Apps, NEW e \in Envs, Start(a, e) PROVE IInv'
<1>0. TypeOK /\ OnlyKnownEarlyReads /\ pc[a] = 0  BY DEF IInv, Start, Off
<1>1. TypeOK'
  <2>1. 1 \in 0 .. 14  OBVIOUS
  <2>2. pc' \in [Apps -> 0 .. 14] /\ env' \in [Apps -> Envs]  BY <1>0, <2>1 DEF TypeOK, Start
  <2>3. QED  BY <1>0, <2>2 DEF TypeOK, Start, Connections
<1>2. OnlyKnownEarlyReads'  BY <1>0 DEF OnlyKnownEarlyReads, Start
<1>3. ASSUME NEW b \in Apps PROVE Known(b)'
  <2>1. Known(b)  BY DEF IInv
  <2>2. CASE b = a
    <3>1. /\ pc'[a] = 1 /\ set' = set /\ handles' = handles /\ store' = store
          /\ workers' = workers /\ denied' = denied
      BY <1>0 DEF Start, Connections, TypeOK
    <3>2. "badger" \notin handles[a] /\ a \notin denied
      <4>1. Known(a) /\ pc[a] = 0  BY <1>0, <2>1, <2>2
      <4>2. AppInv(0, env[a], set[a], handles[a], store[a], a \in workers, a \in denied)
        BY <4>1 DEF Known
      <4>3. QED  BY <4>2, Numbers, Zenon DEF AppInv
    <3>3. AppInv(pc'[a], env'[a], set'[a], handles'[a], store'[a], a \in workers', a \in denied')
      BY <3>1, <3>2, Numbers, NothingYet
    <3>4. QED  BY <2>2, <3>3 DEF Known
  <2>3. CASE b # a
    <3>1. /\ pc'[b] = pc[b] /\ env'[b] = env[b] /\ set' = set /\ handles' = handles
          /\ store' = store /\ workers' = workers /\ denied' = denied
      BY <1>0, <2>3 DEF Start, Connections, TypeOK
    <3>2. QED  BY <2>1, <2>3, <3>1, OthersKnown
  <2>4. QED  BY <2>2, <2>3
<1>4. QED  BY <1>1, <1>2, <1>3 DEF IInv
-----------------------------------------------------------------------------
(* Every step keeps the invariant.                                         *)
LEMMA Step == IInv /\ [Next]_vars => IInv'
<1> SUFFICES ASSUME IInv, [Next]_vars PROVE IInv'
  OBVIOUS
<1>1. ASSUME NEW a \in Apps, New(a) PROVE IInv'
  BY <1>1, QuietStretches, DatabaseStep, RedisStep, BadgerStep, SessionStep, WorkerStep DEF New
<1>2. ASSUME NEW a \in Apps, Routes(a) \/ Models(a) \/ Listen(a) PROVE IInv'
  BY <1>2, QuietStretches
<1>3. ASSUME NEW a \in Apps, Kill(a) PROVE IInv'  BY <1>3, KillStep
<1>4. ASSUME NEW a \in Apps, NEW e \in Envs, Start(a, e) PROVE IInv'  BY <1>4, StartStep
<1>5. CASE UNCHANGED vars
  BY <1>5, Zenon DEF vars, IInv, TypeOK, OnlyKnownEarlyReads, Known
<1>6. QED  BY <1>1, <1>2, <1>3, <1>4, <1>5 DEF Next

(* At the beginning every application is off.                              *)
LEMMA Start0 == Init => IInv
<1> SUFFICES ASSUME Init PROVE IInv
  OBVIOUS
<1>1. TypeOK  BY DEF Init, TypeOK, Off
<1>2. OnlyKnownEarlyReads  BY DEF Init, OnlyKnownEarlyReads
<1>3. ASSUME NEW a \in Apps PROVE Known(a)
  <2>1. pc[a] = 0 /\ set[a] = {} /\ handles[a] = {} /\ store[a] = "unset" /\ a \notin denied
    BY DEF Init, Off
  <2>2. QED  BY <2>1, Numbers, NothingYet DEF Known
<1>4. QED  BY <1>1, <1>2, <1>3 DEF IInv

(* The invariant of the start: what is assigned and open at which stage.   *)
THEOREM Invariant == Spec => []IInv
BY Start0, Step, PTL DEF Spec

(* The variables of Boot keep their types, whoever starts and is killed.   *)
THEOREM Types == Spec => []TypeOK
<1>1. IInv => TypeOK  BY DEF IInv
<1>2. QED  BY <1>1, Invariant, PTL

(* New and main read no field of Celeritas before they assign it, but for  *)
(* the prefix of redis and the directory of badger.                        *)
THEOREM EarlyReads == Spec => []OnlyKnownEarlyReads
<1>1. IInv => OnlyKnownEarlyReads  BY DEF IInv
<1>2. QED  BY <1>1, Invariant, PTL

(* Whoever serves requests has the store, the cache, the database and the  *)
(* mail worker that its environment asks for, and lacks badger only if     *)
(* another application had the directory when it started.                  *)
THEOREM Ready == Spec => []ServingIsReady
<1>1. ASSUME IInv PROVE ServingIsReady
  <2>1. ASSUME NEW a \in Apps, Stage(a, "serving")
        PROVE  /\ Coherent(env[a]) => store[a] \notin {"unset", "nil pool"}
               /\ env[a].cache = "redis" => "redis" \in handles[a]
               /\ env[a].cache = "badger" => ("badger" \in handles[a] <=> a \notin denied)
               /\ env[a].db # "none" => "db" \in handles[a]
               /\ a \in workers
    <3>1. pc[a] = 14  BY <1>1, <2>1, StageNumbers DEF IInv
    <3>2. AppInv(14, env[a], set[a], handles[a], store[a], a \in workers, a \in denied)
      BY <1>1, <3>1 DEF IInv, Known
    <3>3. QED  BY <3>2, Numbers, Zenon DEF AppInv
  <2>2. QED  BY <2>1 DEF ServingIsReady
<1>2. QED  BY <1>1, Invariant, PTL
=============================================================================
