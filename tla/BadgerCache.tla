---------------------------- MODULE BadgerCache ----------------------------
(***************************************************************************)
(* The cache on badger.  Get reads in one read-only transaction, Set and   *)
(* Forget write in one transaction each.  Empty and EmptyByMatch iterate   *)
(* over a snapshot and delete what they collect in transactions of their   *)
(* own: the first CollectSize keys as soon as there are that many, and at  *)
(* the end all of them, those of the first batch once more.  A transaction *)
(* with TxnMax keys or more is refused as a whole.                         *)
(***************************************************************************)
EXTENDS Naturals, FiniteSets

CONSTANTS
    Clients,     \* goroutines that use the cache
    Keys,        \* keys, without a prefix
    Values,      \* encoded entries
    Absent,      \* no entry, no pattern
    Patterns,    \* what EmptyByMatch is called with; Empty matches all
    Matching,    \* the keys that each pattern matches
    Refused,     \* keys badger refuses: the empty one, or !badger! in front
    CollectSize, \* 100000 in emptyByMatch
    TxnMax,      \* maxBatchCount of badger
    DbFails      \* may a commit fail?

ASSUME SizeAssumption == CollectSize \in Nat \ {0} /\ TxnMax \in Nat
ASSUME KeysAssumption ==
    Refused \subseteq Keys /\ Matching \in [Patterns -> SUBSET Keys]
ASSUME AbsentAssumption == Absent \notin Patterns \cup Values
ASSUME FlagsAssumption == DbFails \in BOOLEAN

VARIABLES
    entries,     \* the database
    task,        \* the operation each client is in
    reply,       \* what each client was answered last
    dropped      \* history: clients whose last Set failed without an error

vars == <<entries, task, reply, dropped>>

Task == [pc   : {"idle", "iterate", "batch", "final"},
         pat  : Patterns \cup {Absent},
         snap : SUBSET Keys,             \* what the iterator will find
         kept : SUBSET Keys,             \* keysForDelete
         due  : SUBSET Keys]             \* history: see CacheSpec

Idle == [pc |-> "idle", pat |-> Absent, snap |-> {}, kept |-> {}, due |-> {}]

Reply == {"none", "saved", "forgotten", "emptied", "error", Absent} \cup Values

TypeOK ==
    /\ entries \in [Keys -> Values \cup {Absent}]
    /\ task \in [Clients -> Task]
    /\ reply \in [Clients -> Reply]
    /\ dropped \in SUBSET Clients

Init ==
    /\ entries = [k \in Keys |-> Absent]
    /\ task = [c \in Clients |-> Idle]
    /\ reply = [c \in Clients |-> "none"]
    /\ dropped = {}

-----------------------------------------------------------------------------
\* A transaction commits; what is gone is due for no sweep.
Change(new, tasks) ==
    /\ entries' = new
    /\ task' = [c \in Clients |->
                  [tasks[c] EXCEPT !.due = {k \in @ : new[k] # Absent}]]

Answer(c, r) ==
    /\ reply' = [reply EXCEPT ![c] = r]
    /\ dropped' = dropped \ {c}

Without(gone) == [k \in Keys |-> IF k \in gone THEN Absent ELSE entries[k]]

Get(c, k) ==
    /\ task[c].pc = "idle"
    /\ Answer(c, entries[k])
    /\ UNCHANGED <<entries, task>>

\* Set returns nil whatever Update returned.
Set(c, k, v) ==
    /\ task[c].pc = "idle"
    /\ \/ /\ k \notin Refused
          /\ Change([entries EXCEPT ![k] = v], task)
          /\ dropped' = dropped \ {c}
       \/ /\ k \in Refused \/ DbFails
          /\ UNCHANGED <<entries, task>>
          /\ dropped' = dropped \cup {c}
    /\ reply' = [reply EXCEPT ![c] = "saved"]

\* Mutant: the entry is overwritten instead of deleted.
ForgetOverwrites(c, k) ==
    /\ task[c].pc = "idle"
    /\ k \notin Refused
    /\ Change([entries EXCEPT ![k] = "deleted"], task)
    /\ Answer(c, "forgotten")

Forget(c, k) ==
    /\ task[c].pc = "idle"
    /\ \/ /\ k \notin Refused
          /\ Change(Without({k}), task)
          /\ Answer(c, "forgotten")
       \/ /\ k \in Refused \/ DbFails
          /\ Answer(c, "error")
          /\ UNCHANGED <<entries, task>>

-----------------------------------------------------------------------------
\* Mutant: the iterator is asked Valid() instead of ValidForPrefix().
EmptyAnyMatch(c, p) ==
    LET there == {k \in Keys : entries[k] # Absent} IN
    /\ task[c].pc = "idle"
    /\ task' = [task EXCEPT ![c] =
                  [pc |-> "iterate", pat |-> p, snap |-> there, kept |-> {},
                   due |-> there \cap Matching[p]]]
    /\ UNCHANGED <<entries, reply, dropped>>

\* emptyByMatch opens the read-only transaction and its iterator.
EmptyByMatch(c, p) ==
    LET there == {k \in Matching[p] : entries[k] # Absent} IN
    /\ task[c].pc = "idle"
    /\ task' = [task EXCEPT ![c] =
                  [pc |-> "iterate", pat |-> p, snap |-> there, kept |-> {},
                   due |-> there]]
    /\ UNCHANGED <<entries, reply, dropped>>

\* The iterator runs until keysForDelete has CollectSize keys for the first
\* time, or to the end of the snapshot.
Iterate(c) ==
    LET t == task[c]
        room == CollectSize - Cardinality(t.kept)
    IN
    /\ t.pc = "iterate"
    /\ \/ /\ room > 0
          /\ \E found \in SUBSET t.snap :
                /\ Cardinality(found) = room
                /\ task' = [task EXCEPT ![c].pc = "batch", ![c].kept = found,
                                        ![c].snap = @ \ found]
       \/ /\ room <= 0 \/ Cardinality(t.snap) < room
          /\ task' = [task EXCEPT ![c].pc = "final", ![c].kept = @ \cup t.snap,
                                  ![c].snap = {}]
    /\ UNCHANGED <<entries, reply, dropped>>

\* deleteKeys: one transaction for all the keys, or an error and no change.
Fits(keys) == keys = {} \/ Cardinality(keys) < TxnMax

\* Mutant: the sweep ends after the first batch.
DeleteOneBatch(c) ==
    /\ task[c].pc = "batch"
    /\ Fits(task[c].kept)
    /\ Change(Without(task[c].kept), [task EXCEPT ![c] = Idle])
    /\ Answer(c, "emptied")

\* The batch in the loop; keysForDelete is not emptied afterwards.
DeleteBatch(c) ==
    /\ task[c].pc = "batch"
    /\ Fits(task[c].kept)
    /\ Change(Without(task[c].kept), [task EXCEPT ![c].pc = "iterate"])
    /\ UNCHANGED <<reply, dropped>>

\* What is left, and the batch again.
DeleteAll(c) ==
    /\ task[c].pc = "final"
    /\ Fits(task[c].kept)
    /\ Change(Without(task[c].kept), [task EXCEPT ![c] = Idle])
    /\ Answer(c, "emptied")

DeleteFails(c) ==
    /\ task[c].pc \in {"batch", "final"}
    /\ ~Fits(task[c].kept) \/ (DbFails /\ task[c].kept # {})
    /\ task' = [task EXCEPT ![c] = Idle]
    /\ Answer(c, "error")
    /\ UNCHANGED entries

\* The time to live of an entry has passed.
Expire(k) ==
    /\ entries[k] # Absent
    /\ Change(Without({k}), task)
    /\ UNCHANGED <<reply, dropped>>

-----------------------------------------------------------------------------
Sweep(c) == Iterate(c) \/ DeleteBatch(c) \/ DeleteAll(c) \/ DeleteFails(c)

Next == \/ \E c \in Clients :
             \/ \E k \in Keys : Get(c, k) \/ Forget(c, k)
             \/ \E k \in Keys, v \in Values : Set(c, k, v)
             \/ \E p \in Patterns : EmptyByMatch(c, p)
             \/ Sweep(c)
        \/ \E k \in Keys : Expire(k)

Spec == Init /\ [][Next]_vars

-----------------------------------------------------------------------------
(* Properties.                                                             *)

\* A key is never deleted by a sweep that does not match it: keysForDelete
\* and the rest of the snapshot stay within the pattern, and together hold
\* every key that the sweep still owes, also after the first batch.
SweepCovers ==
    \A c \in Clients : task[c].pc # "idle" =>
        /\ task[c].kept \cup task[c].snap \subseteq Matching[task[c].pat]
        /\ task[c].due \subseteq task[c].kept \cup task[c].snap

\* But for the error that Set drops the cache keeps the promises of CacheSpec.
Abstract == INSTANCE CacheSpec WITH
    reply <- [c \in Clients |-> IF c \in dropped THEN "error" ELSE reply[c]],
    sweep <- [c \in Clients |-> [pat |-> task[c].pat, due |-> task[c].due]]

RefinesCache == Abstract!Spec

=============================================================================
