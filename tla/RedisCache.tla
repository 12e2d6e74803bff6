----------------------------- MODULE RedisCache -----------------------------
(***************************************************************************)
(* The cache on redis.  Has, Get, Set and Forget are one command each, on  *)
(* a connection taken from the pool.  Empty and EmptyByMatch take a        *)
(* connection, have getKeys take a second one to SCAN the keys, and then   *)
(* delete what was found key by key on the first.  The session store uses  *)
(* the same pool.  The pool does not wait: with MaxActive connections in   *)
(* use, Get of the pool hands out one on which every command fails.        *)
(***************************************************************************)
EXTENDS Integers, FiniteSets

CONSTANTS
    Clients,     \* goroutines that use the cache
    Keys,        \* keys, with the prefix of the cache
    Values,      \* encoded entries
    Absent,      \* no entry, no pattern
    Patterns,    \* what EmptyByMatch is called with; Empty matches all
    Matching,    \* the keys that each pattern matches
    MaxActive,   \* size of the pool: 10000 in createRedisPool
    SessionMax,  \* connections that requests use for their sessions
    Repeated,    \* the keys that SCAN may return twice: redis allows it
    RedisFails   \* may a command fail?

ASSUME PoolAssumption == MaxActive \in Nat \ {0} /\ SessionMax \in Nat
ASSUME MatchingAssumption == Matching \in [Patterns -> SUBSET Keys]
ASSUME AbsentAssumption == Absent \notin Patterns \cup Values
ASSUME ClientsAssumption == IsFiniteSet(Clients)
ASSUME FlagsAssumption == Repeated \subseteq Keys /\ RedisFails \in BOOLEAN

VARIABLES
    entries,     \* the database of redis
    task,        \* the operation each client is in
    active,      \* connections of the pool in use
    sessions,    \* those of them that the session store uses
    reply        \* what each client was answered last

vars == <<entries, task, active, sessions, reply>>

Command == {"get", "set", "forget"}
Task ==
    [pc   : {"idle", "command", "open", "scan", "delete"},
     conn : BOOLEAN,                    \* its connection is a good one
     op   : Command,
     key  : Keys \cup {Absent},
     val  : Values \cup {Absent},
     pat  : Patterns \cup {Absent},
     todo : [Keys -> 0..2],             \* how often getKeys listed each key
     due  : SUBSET Keys]                \* history: see CacheSpec

Idle == [pc |-> "idle", conn |-> FALSE, op |-> "get", key |-> Absent,
         val |-> Absent, pat |-> Absent, todo |-> [k \in Keys |-> 0],
         due |-> {}]

Reply == {"none", "saved", "forgotten", "emptied", "error", Absent} \cup Values

TypeOK ==
    /\ entries \in [Keys -> Values \cup {Absent}]
    /\ task \in [Clients -> Task]
    /\ active \in 0..MaxActive
    /\ sessions \in 0..SessionMax
    /\ reply \in [Clients -> Reply]

Init ==
    /\ entries = [k \in Keys |-> Absent]
    /\ task = [c \in Clients |-> Idle]
    /\ active = 0
    /\ sessions = 0
    /\ reply = [c \in Clients |-> "none"]

-----------------------------------------------------------------------------
\* Mutant: one connection too many.
RoomForOneMore == active <= MaxActive

\* pool.Get(): a connection, or one on which every command fails.
Room == active < MaxActive
Count(held) == IF held THEN 1 ELSE 0

Held(c) == Count(task[c].conn)

\* redis changes the entries; what is gone is due for no sweep.
Change(new, tasks) ==
    /\ entries' = new
    /\ task' = [c \in Clients |->
                  [tasks[c] EXCEPT !.due = {k \in @ : new[k] # Absent}]]

\* The deferred conn.Close() of the operation, and its answer.
Return(c, new, conns, r) ==
    /\ Change(new, [task EXCEPT ![c] = Idle])
    /\ active' = active - conns
    /\ reply' = [reply EXCEPT ![c] = r]
    /\ UNCHANGED sessions

\* Has, Get, Set and Forget begin: the key gets the prefix, a connection is
\* taken.
Call(c, op, k, v) ==
    /\ task[c].pc = "idle"
    /\ task' = [task EXCEPT ![c].pc = "command", ![c].conn = Room, ![c].op = op,
                            ![c].key = k, ![c].val = v]
    /\ active' = active + Count(Room)
    /\ UNCHANGED <<entries, sessions, reply>>

\* What GET or EXISTS, SET or SETEX, and DEL leave in redis.
Effect(t) == CASE t.op = "get"    -> entries
               [] t.op = "set"    -> [entries EXCEPT ![t.key] = t.val]
               [] t.op = "forget" -> [entries EXCEPT ![t.key] = Absent]

Outcome(t) == CASE t.op = "get"    -> entries[t.key]
                [] t.op = "set"    -> "saved"
                [] t.op = "forget" -> "forgotten"

Do(c) ==
    LET t == task[c] IN
    /\ t.pc = "command"
    /\ t.conn
    /\ Return(c, Effect(t), 1, Outcome(t))

\* Mutant: the error is dropped, as BadgerCache.Set does.
DoFailsUnchecked(c) ==
    LET t == task[c] IN
    /\ t.pc = "command"
    /\ t.conn => RedisFails
    /\ Return(c, entries, Held(c), Outcome(t))

\* No connection, a command that redis refuses (SETEX with a time to live
\* that is not positive), or one whose answer is lost.
DoFails(c) ==
    LET t == task[c] IN
    /\ t.pc = "command"
    /\ \/ Return(c, entries, Held(c), "error") /\ (t.conn => RedisFails)
       \/ Return(c, Effect(t), 1, "error") /\ t.conn /\ RedisFails

-----------------------------------------------------------------------------
\* EmptyByMatch takes the connection it will delete on.
EmptyByMatch(c, p) ==
    /\ task[c].pc = "idle"
    /\ task' = [task EXCEPT ![c].pc = "open", ![c].conn = Room, ![c].pat = p]
    /\ active' = active + Count(Room)
    /\ UNCHANGED <<entries, sessions, reply>>

\* getKeys takes its own.
OpenScan(c) ==
    /\ task[c].pc = "open"
    /\ Room
    /\ active' = active + 1
    /\ task' = [task EXCEPT ![c].pc = "scan",
                   ![c].due = {k \in Matching[task[c].pat] : entries[k] # Absent}]
    /\ UNCHANGED <<entries, sessions, reply>>

\* Mutant: the pool waits for a connection to become free.
OpenScanWaits(c) ==
    /\ task[c].pc = "open"
    /\ ~Room
    /\ UNCHANGED vars

OpenScanFails(c) ==
    /\ task[c].pc = "open"
    /\ ~Room
    /\ Return(c, entries, Held(c), "error")

\* One SCAN: some of the keys that match and are there now.  redis returns
\* cursor 0 only when it has returned every key that was there all along; a
\* key that moved in the table it may return again.
Scan(c) ==
    LET t == task[c]
        listed == {k \in Keys : t.todo[k] > 0}
        there == {k \in Matching[t.pat] : entries[k] # Absent}
    IN
    /\ t.pc = "scan"
    /\ \E batch \in SUBSET there, last \in BOOLEAN :
          /\ \A k \in batch : t.todo[k] = 0 \/ (k \in Repeated /\ t.todo[k] = 1)
          /\ last => t.due \subseteq listed \cup batch
          /\ last \/ batch # {}
          /\ task' = [task EXCEPT
                ![c].pc = IF last THEN "delete" ELSE "scan",
                ![c].todo = [k \in Keys |-> @[k] + Count(k \in batch)]]
          /\ active' = active - Count(last)
    /\ UNCHANGED <<entries, sessions, reply>>

\* Mutant: getKeys returns without closing its connection.
ScanFailsOpen(c) ==
    /\ RedisFails
    /\ task[c].pc = "scan"
    /\ Return(c, entries, Held(c), "error")

ScanFails(c) ==
    /\ RedisFails
    /\ task[c].pc = "scan"
    /\ Return(c, entries, Held(c) + 1, "error")

\* DEL of the next key of the list.
Delete(c) ==
    /\ task[c].pc = "delete"
    /\ task[c].conn
    /\ \E k \in {x \in Keys : task[c].todo[x] > 0} :
          Change([entries EXCEPT ![k] = Absent],
                 [task EXCEPT ![c].todo[k] = @ - 1])
    /\ UNCHANGED <<active, sessions, reply>>

DeleteFails(c) ==
    LET list == {k \in Keys : task[c].todo[k] > 0} IN
    /\ task[c].pc = "delete"
    /\ list # {}
    /\ \/ Return(c, entries, Held(c), "error") /\ (task[c].conn => RedisFails)
       \/ /\ task[c].conn /\ RedisFails
          /\ \E k \in list : Return(c, [entries EXCEPT ![k] = Absent], 1, "error")

\* The list is done.
Emptied(c) ==
    /\ task[c].pc = "delete"
    /\ \A k \in Keys : task[c].todo[k] = 0
    /\ Return(c, entries, Held(c), "emptied")

\* redis drops a key whose time to live has passed.
Expire(k) ==
    /\ entries[k] # Absent
    /\ Change([entries EXCEPT ![k] = Absent], task)
    /\ UNCHANGED <<active, sessions, reply>>

\* redisstore takes a connection for each access to a session, and returns it.
SessionGet ==
    /\ Room
    /\ sessions < SessionMax
    /\ active' = active + 1
    /\ sessions' = sessions + 1
    /\ UNCHANGED <<entries, task, reply>>

SessionClose ==
    /\ sessions > 0
    /\ active' = active - 1
    /\ sessions' = sessions - 1
    /\ UNCHANGED <<entries, task, reply>>

-----------------------------------------------------------------------------
Sweep(c) == \/ OpenScan(c) \/ OpenScanFails(c) \/ Scan(c) \/ ScanFails(c)
            \/ Delete(c) \/ DeleteFails(c) \/ Emptied(c)

\* The handlers of the application.  A request with bad JSON or a wrong CSRF
\* token does not reach the cache.  What GetFromCache answers to an error is
\* "Not found in cache!".
SaveInCache(c) == \E k \in Keys, v \in Values : Call(c, "set", k, v)
GetFromCache(c) == \E k \in Keys : Call(c, "get", k, Absent)
DeleteFromCache(c) == \E k \in Keys : Call(c, "forget", k, Absent)
EmptyCache(c) == \E p \in Patterns : EmptyByMatch(c, p)

Ask(c) == SaveInCache(c) \/ GetFromCache(c) \/ DeleteFromCache(c) \/ EmptyCache(c)

Next == \/ \E c \in Clients : Ask(c) \/ Do(c) \/ DoFails(c) \/ Sweep(c)
        \/ \E k \in Keys : Expire(k)
        \/ SessionGet
        \/ SessionClose

Spec == Init /\ [][Next]_vars

\* Every goroutine goes on, and redis ends a SCAN whatever else happens: its
\* cursor passes over the table once.
Fairness ==
    \A c \in Clients : /\ WF_vars(Do(c) \/ DoFails(c))
                       /\ WF_vars(Sweep(c))

FairSpec == Spec /\ Fairness

-----------------------------------------------------------------------------
(* Properties.                                                             *)

\* The pool counts the connections that operations hold, on every path: two
\* by a sweep while it scans, at most one by any other.  None is leaked.
PoolAccounting ==
    active = sessions + Cardinality({c \in Clients : task[c].conn})
                      + Cardinality({c \in Clients : task[c].pc = "scan"})

\* A sweep that wants its second connection never waits for the operations
\* that hold the others: every operation comes to an end.
EveryCallEnds == \A c \in Clients : task[c].pc # "idle" ~> task[c].pc = "idle"

\* The cache keeps the promises of CacheSpec.
Abstract == INSTANCE CacheSpec WITH
    sweep <- [c \in Clients |->
                IF task[c].pc \in {"scan", "delete"}
                THEN [pat |-> task[c].pat, due |-> task[c].due]
                ELSE [pat |-> Absent, due |-> {}]]

RefinesCache == Abstract!Spec

=============================================================================
