-------------------------------- MODULE Boot --------------------------------
(***************************************************************************)
(* How an application starts (celeritas.New, initApplication,              *)
(* ListenAndServe) and ends.  Each action is one stretch of New, in the    *)
(* order of the code, with the fields of Celeritas that it reads and those *)
(* it assigns.  Several applications run on one machine; each may be       *)
(* killed at any point and started again with another environment.         *)
(***************************************************************************)
EXTENDS Naturals

CONSTANTS
    Apps,
    Envs,   \* the environments: [db, cache, session], as in .env
    None

DbTypes == {"none", "postgres", "mysql"}
CacheTypes == {"none", "redis", "badger"}
(* "Redis" stands for a spelling that InitSession takes and New does not. *)
SessionTypes == {"cookie", "redis", "Redis", "sql"}

ASSUME BootAssumption ==
    /\ Envs \subseteq [db : DbTypes, cache : CacheTypes, session : SessionTypes]
    /\ None \notin Apps

VARIABLES
    env,      \* the environment that each application was started with
    pc,       \* how far it has come
    set,      \* the fields of Celeritas that it has assigned
    handles,  \* the connections that it has opened and that are not nil
    store,    \* its session store
    directory,\* who has /tmp/badger open; badger locks it
    workers,  \* the applications of which the mail worker runs
    (* history, which no guard reads *)
    early,    \* who read which field before it was assigned
    denied    \* applications that found /tmp/badger taken

vars == <<env, pc, set, handles, store, directory, workers, early, denied>>
-----------------------------------------------------------------------------
Fields == {"DB", "Cache", "ErrorLog", "Debug", "RootPath", "Mail", "Routes", "config",
           "Server", "Session", "JetViews", "Render", "chain", "Models"}
Stages == <<"folders", "database", "redis", "badger", "settings", "mailer", "config",
            "session", "render", "worker", "routes", "models", "listen", "serving">>
Off == 0
Stage(a, name) == pc[a] # Off /\ Stages[pc[a]] = name

Init ==
    /\ env \in [Apps -> Envs] /\ pc = [a \in Apps |-> Off]
    /\ set = [a \in Apps |-> {}] /\ handles = [a \in Apps |-> {}]
    /\ store = [a \in Apps |-> "unset"]
    /\ directory = None /\ workers = {} /\ early = {} /\ denied = {}

(* The end of a stretch: what it read and what it assigned. *)
Goes(a, reads, assigns) ==
    /\ pc' = [pc EXCEPT ![a] = @ + 1]
    /\ early' = early \union {<<Stages[pc[a]], f>> : f \in reads \ set[a]}
    /\ set' = [set EXCEPT ![a] = @ \union assigns]
    /\ UNCHANGED env
Connections == <<handles, store, directory, workers, denied>>

(* The process is gone, and with it what it held.  log.Fatal, os.Exit and  *)
(* ErrorLog.Fatal skip the deferred closes of ListenAndServe; the system   *)
(* closes the connections and gives up the lock of badger.                 *)
Exit(a) ==
    /\ pc' = [pc EXCEPT ![a] = Off]
    /\ set' = [set EXCEPT ![a] = {}] /\ handles' = [handles EXCEPT ![a] = {}]
    /\ store' = [store EXCEPT ![a] = "unset"]
    /\ directory' = IF directory = a THEN None ELSE directory
    /\ workers' = workers \ {a} /\ denied' = denied \ {a}
    /\ UNCHANGED <<env, early>>

Kill(a) == pc[a] # Off /\ Exit(a)

Start(a, e) ==
    /\ pc[a] = Off
    /\ pc' = [pc EXCEPT ![a] = 1] /\ env' = [env EXCEPT ![a] = e]
    /\ UNCHANGED <<set, early, Connections>>
-----------------------------------------------------------------------------
(* Init, checkDotEnv and the loading of .env; an error ends New and main. *)
Folders(a) == Stage(a, "folders") /\ Goes(a, {}, {}) /\ UNCHANGED Connections

(* OpenDB pings; a database that does not answer ends the process.  For    *)
(* mysql BuildDSN is empty, which asks the driver for a local server.      *)
OpenDatabase(a) ==
    /\ Stage(a, "database")
    /\ IF env[a].db = "none" THEN Goes(a, {}, {}) /\ UNCHANGED handles
       ELSE Goes(a, {}, {"DB"}) /\ handles' = [handles EXCEPT ![a] = @ \union {"db"}]
    /\ UNCHANGED <<store, directory, workers, denied>>

(* Mutant: the session does not count. *)
OpenRedisForCache(a) ==
    /\ Stage(a, "redis")
    /\ IF env[a].cache = "redis"
       THEN /\ Goes(a, {"config"}, {"Cache"})
            /\ handles' = [handles EXCEPT ![a] = @ \union {"redis"}]
       ELSE Goes(a, {}, {}) /\ UNCHANGED handles
    /\ UNCHANGED <<store, directory, workers, denied>>

(* createClientRedisCache takes the prefix from c.config. *)
OpenRedis(a) ==
    /\ Stage(a, "redis")
    /\ IF env[a].cache = "redis" \/ env[a].session = "redis"
       THEN /\ Goes(a, {"config"}, {"Cache"})
            /\ handles' = [handles EXCEPT ![a] = @ \union {"redis"}]
       ELSE Goes(a, {}, {}) /\ UNCHANGED handles
    /\ UNCHANGED <<store, directory, workers, denied>>

(* createBadgerConn takes its directory from c.RootPath, which is empty,   *)
(* so that it is /tmp/badger for everybody; it returns nil on an error.    *)
OpenBadger(a) ==
    /\ Stage(a, "badger")
    /\ IF env[a].cache # "badger" THEN Goes(a, {}, {}) /\ UNCHANGED Connections
       ELSE /\ Goes(a, {"RootPath"}, {"Cache"})
            /\ IF directory = None
               THEN /\ directory' = a /\ UNCHANGED denied
                    /\ handles' = [handles EXCEPT ![a] = @ \union {"badger"}]
               ELSE denied' = denied \union {a} /\ UNCHANGED <<directory, handles>>
            /\ UNCHANGED <<store, workers>>

Settings(a) ==
    /\ Stage(a, "settings") /\ Goes(a, {}, {"ErrorLog", "Debug", "RootPath"})
    /\ UNCHANGED Connections

(* Mutant: routes() calls SessionLoad at once. *)
MailerAndChain(a) ==
    /\ Stage(a, "mailer") /\ Goes(a, {"RootPath", "Debug", "Session"}, {"Mail", "Routes"})
    /\ UNCHANGED Connections

(* createMailer reads RootPath; routes() reads Debug and only notes the    *)
(* methods SessionLoad and NoSurf.                                         *)
Mailer(a) ==
    /\ Stage(a, "mailer") /\ Goes(a, {"RootPath", "Debug"}, {"Mail", "Routes"})
    /\ UNCHANGED Connections

Config(a) == Stage(a, "config") /\ Goes(a, {}, {"config", "Server"}) /\ UNCHANGED Connections

(* Mutant: the default of the switch leaves the session without a store. *)
StoreOrNone(a) ==
    CASE env[a].session = "redis" /\ "redis" \in handles[a] -> "redis"
      [] env[a].session = "sql" /\ "db" \in handles[a] -> "sql"
      [] OTHER -> "none"

(* New hands over a pool for the exact type; InitSession chooses the store *)
(* by the type in lower case, with the pool or nil.                        *)
StoreOf(a) ==
    LET e == env[a].session IN
    CASE e = "cookie" -> "memory"
      [] e = "redis" /\ "redis" \in handles[a] -> "redis"
      [] e = "sql" /\ "db" \in handles[a] -> "sql"
      [] OTHER -> "nil pool"

Session(a) ==
    /\ Stage(a, "session")
    /\ Goes(a, {"config"} \union (IF env[a].session = "redis" THEN {"Cache"} ELSE {}), {"Session"})
    /\ store' = [store EXCEPT ![a] = StoreOf(a)]
    /\ UNCHANGED <<handles, directory, workers, denied>>

Render(a) ==
    /\ Stage(a, "render") /\ Goes(a, {"Debug", "config", "RootPath", "Session"}, {"JetViews", "Render"})
    /\ UNCHANGED Connections

(* The last statement of New starts the mail worker. *)
Worker(a) ==
    /\ Stage(a, "worker") /\ Goes(a, {"Mail"}, {})
    /\ workers' = workers \union {a}
    /\ UNCHANGED <<handles, store, directory, denied>>

(* The first route makes chi call the middlewares, the one that the        *)
(* application adds included; they read Session and config.                *)
Routes(a) ==
    /\ Stage(a, "routes") /\ Goes(a, {"Routes", "Session", "config"}, {"chain"})
    /\ UNCHANGED Connections

Models(a) ==
    /\ Stage(a, "models")
    /\ Goes(a, IF env[a].db = "none" THEN {} ELSE {"DB"}, {"Models"})
    /\ UNCHANGED Connections

(* From here on requests read what is below, and Dial of the redis pool    *)
(* reads the host from config.                                             *)
Listen(a) ==
    /\ Stage(a, "listen")
    /\ Goes(a, {"ErrorLog", "Routes", "chain", "config", "Session", "Render", "Models"}, {})
    /\ UNCHANGED Connections
-----------------------------------------------------------------------------
New(a) ==
    \/ Folders(a) \/ OpenDatabase(a) \/ OpenRedis(a) \/ OpenBadger(a) \/ Settings(a)
    \/ Mailer(a) \/ Config(a) \/ Session(a) \/ Render(a) \/ Worker(a)

Next ==
    \E a \in Apps :
        \/ \E e \in Envs : Start(a, e)
        \/ New(a) \/ Routes(a) \/ Models(a) \/ Listen(a) \/ Kill(a)

Spec == Init /\ [][Next]_vars
-----------------------------------------------------------------------------
(* Every application is in one stage of its start, with the store that     *)
(* InitSession chose for it (session.go:57).                               *)
TypeOK ==
    /\ env \in [Apps -> Envs] /\ pc \in [Apps -> 0 .. 14]
    /\ set \in [Apps -> SUBSET Fields]
    /\ handles \in [Apps -> SUBSET {"db", "redis", "badger"}]
    /\ store \in [Apps -> {"unset", "memory", "redis", "sql", "nil pool"}]
    /\ directory \in Apps \union {None}
    /\ workers \subseteq Apps /\ denied \subseteq Apps

(* Everything that the start reads it has assigned before, but for the     *)
(* prefix of redis (celeritas.go:307) and the directory of badger (:338).  *)
(* Above all the session is there when chi builds the middleware chain.    *)
OnlyKnownEarlyReads == early \subseteq {<<"redis", "config">>, <<"badger", "RootPath">>}

Coherent(e) ==
    /\ e.session # "Redis"
    /\ e.session = "sql" => e.db # "none"
(* An application that serves requests has, if its settings fit together,  *)
(* a session store with a connection, and the cache it was configured      *)
(* with; badger is missing only if another application had the directory   *)
(* open when it started (celeritas.go:339 drops that error).  Its mail     *)
(* worker runs, for its handlers block on Mail.Results without one.        *)
ServingIsReady ==
    \A a \in Apps : Stage(a, "serving") =>
        /\ Coherent(env[a]) => store[a] \notin {"unset", "nil pool"}
        /\ env[a].cache = "redis" => "redis" \in handles[a]
        /\ env[a].cache = "badger" => ("badger" \in handles[a] <=> a \notin denied)
        /\ env[a].db # "none" => "db" \in handles[a]
        /\ a \in workers
=============================================================================
