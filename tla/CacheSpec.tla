----------------------------- MODULE CacheSpec -----------------------------
(***************************************************************************)
(* What the cache interface of the framework promises to its clients,      *)
(* whichever store is behind it.  Set, Get and Forget are atomic.  Empty   *)
(* and EmptyByMatch are not: while one runs it may remove any key it       *)
(* matches, also one that was set after it began, but none that it does    *)
(* not match; and it reports success only when every key that was there    *)
(* when it began has been gone at some moment since.  An operation that    *)
(* reports an error may have been carried out nevertheless, a sweep also   *)
(* in part; one that reports success was carried out.                      *)
(***************************************************************************)
EXTENDS Naturals

CONSTANTS
    Clients,     \* goroutines that use the cache
    Keys,        \* what is stored under
    Values,      \* what is stored
    Absent,      \* no value under a key
    Patterns,    \* what EmptyByMatch is called with; Empty matches all
    Matching     \* the keys that each pattern matches

VARIABLES
    entries,     \* the value under each key
    sweep,       \* the matched keys that a sweep still has to see gone
    reply        \* what each client was answered last

vars == <<entries, sweep, reply>>

NoSweep == [pat |-> Absent, due |-> {}]
Sweeping(c) == sweep[c] # NoSweep

Init ==
    /\ entries = [k \in Keys |-> Absent]
    /\ sweep = [c \in Clients |-> NoSweep]
    /\ reply = [c \in Clients |-> "none"]

\* The entries change; what is gone is no longer due for any sweep.
Change(new) ==
    /\ entries' = new
    /\ sweep' = [c \in Clients |->
                   [sweep[c] EXCEPT !.due = {k \in @ : new[k] # Absent}]]

Without(gone) == [k \in Keys |-> IF k \in gone THEN Absent ELSE entries[k]]

Answer(c, r) == reply' = [reply EXCEPT ![c] = r]

Set(c, k, v) ==
    /\ ~Sweeping(c)
    /\ Change([entries EXCEPT ![k] = v])
    /\ Answer(c, "saved") \/ Answer(c, "error")

Get(c, k) ==
    /\ ~Sweeping(c)
    /\ Answer(c, entries[k])
    /\ UNCHANGED <<entries, sweep>>

Forget(c, k) ==
    /\ ~Sweeping(c)
    /\ Change(Without({k}))
    /\ Answer(c, "forgotten") \/ Answer(c, "error")

Fail(c) ==
    /\ ~Sweeping(c)
    /\ Answer(c, "error")
    /\ UNCHANGED <<entries, sweep>>

\* The time to live of an entry has passed.
Expire(k) ==
    /\ Change(Without({k}))
    /\ UNCHANGED reply

Begin(c, p) ==
    /\ ~Sweeping(c)
    /\ sweep' = [sweep EXCEPT ![c] =
          [pat |-> p, due |-> {k \in Matching[p] : entries[k] # Absent}]]
    /\ UNCHANGED <<entries, reply>>

Remove(c, gone) ==
    /\ Sweeping(c)
    /\ gone \subseteq Matching[sweep[c].pat]
    /\ Change(Without(gone))
    /\ UNCHANGED reply

\* A sweep ends, with its last removal.
Finish(c, gone, r) ==
    /\ Sweeping(c)
    /\ gone \subseteq Matching[sweep[c].pat]
    /\ r = "emptied" => sweep[c].due \subseteq gone
    /\ entries' = Without(gone)
    /\ sweep' = [d \in Clients |-> IF d = c THEN NoSweep
                                   ELSE [sweep[d] EXCEPT !.due = @ \ gone]]
    /\ Answer(c, r)

Next ==
    \/ \E c \in Clients :
          \/ \E k \in Keys : Get(c, k) \/ Forget(c, k)
          \/ \E k \in Keys, v \in Values : Set(c, k, v)
          \/ \E p \in Patterns : Begin(c, p)
          \/ \E gone \in SUBSET Keys :
                \/ Remove(c, gone)
                \/ Finish(c, gone, "emptied") \/ Finish(c, gone, "error")
          \/ Fail(c)
    \/ \E k \in Keys : Expire(k)

Spec == Init /\ [][Next]_vars

=============================================================================
