------------------------- MODULE BadgerCacheProofs -------------------------
(***************************************************************************)
(* Theorems about the sweeps of the cache on badger, for every number of   *)
(* clients, keys and patterns, and every size of batch and transaction.    *)
(***************************************************************************)
EXTENDS BadgerCache, FiniteSetTheorems, TLAPS

(* What a sweep carries.  Until the first batch is full keysForDelete is   *)
(* empty between two steps; from then on it holds exactly that batch, so   *)
(* that the iterator never begins a second one and drops the first.        *)
SweepOK(t) ==
    /\ t.pc # "idle" => /\ t.pat \in Patterns
                        /\ t.kept \union t.snap \subseteq Matching[t.pat]
                        /\ t.due \subseteq t.kept \union t.snap
    /\ t.pc = "idle" => t.pat = Absent /\ t.due = {}
    /\ t.pc = "batch" => Cardinality(t.kept) = CollectSize
    /\ t.pc = "iterate" => t.kept = {} \/ Cardinality(t.kept) = CollectSize
    /\ t.pc = "final" => t.snap = {}

(* The inductive invariant. *)
IInv == TypeOK /\ \A c \in Clients : SweepOK(task[c])
-----------------------------------------------------------------------------
(* An idle client carries nothing.                                         *)
LEMMA IdleOK == Idle \in Task /\ SweepOK(Idle)
BY DEF Idle, Task, SweepOK

(* What is due may shrink, and nothing else of a sweep depends on it.      *)
LEMMA DueShrinks ==
    ASSUME NEW t \in Task, SweepOK(t), NEW d \in SUBSET t.due
    PROVE  [t EXCEPT !.due = d] \in Task /\ SweepOK([t EXCEPT !.due = d])
<1> DEFINE u == [t EXCEPT !.due = d]
<1>1. u \in Task /\ u.pc = t.pc /\ u.pat = t.pat /\ u.kept = t.kept /\ u.snap = t.snap /\ u.due = d
  BY DEF Task
<1> HIDE DEF u
<1>2. SweepOK(u)  BY <1>1 DEF SweepOK
<1>3. QED  BY <1>1, <1>2 DEF u

(* A transaction commits while the sweeps are in order.                    *)
LEMMA ChangeStep ==
    ASSUME NEW new, NEW tasks \in [Clients -> Task], \A c \in Clients : SweepOK(tasks[c]),
           Change(new, tasks)
    PROVE  task' \in [Clients -> Task] /\ \A c \in Clients : SweepOK(task'[c])
<1>1. \A c \in Clients :
        task'[c] = [tasks[c] EXCEPT !.due = {k \in tasks[c].due : new[k] # Absent}]
  BY DEF Change
<1>2. ASSUME NEW c \in Clients PROVE task'[c] \in Task /\ SweepOK(task'[c])
  <2> DEFINE d == {k \in tasks[c].due : new[k] # Absent}
  <2>1. d \in SUBSET tasks[c].due /\ task'[c] = [tasks[c] EXCEPT !.due = d]  BY <1>1
  <2>2. tasks[c] \in Task /\ SweepOK(tasks[c])  OBVIOUS
  <2> HIDE DEF d
  <2>3. QED  BY <2>1, <2>2, DueShrinks
<1>3. task' = [c \in Clients |-> [tasks[c] EXCEPT !.due = {k \in @ : new[k] # Absent}]]
  BY DEF Change
<1>4. QED  BY <1>2, <1>3

(* One sweep moves on, the others stay.                                    *)
LEMMA MoveStep ==
    ASSUME IInv, NEW c \in Clients, NEW t \in Task, SweepOK(t)
    PROVE  /\ [task EXCEPT ![c] = t] \in [Clients -> Task]
           /\ \A b \in Clients : SweepOK([task EXCEPT ![c] = t][b])
<1>1. task \in [Clients -> Task] /\ \A b \in Clients : SweepOK(task[b])  BY DEF IInv, TypeOK
<1>2. QED  BY <1>1

(* Writing, deleting and answering keep the other variables typed.         *)
LEMMA Typed ==
    ASSUME TypeOK, task' \in [Clients -> Task], NEW c \in Clients, NEW r \in Reply,
           reply' = reply \/ reply' = [reply EXCEPT ![c] = r],
           dropped' \in {dropped, dropped \ {c}, dropped \union {c}},
           entries' \in [Keys -> Values \union {Absent}]
    PROVE  TypeOK'
BY DEF TypeOK

(* What a deletion leaves.                                                 *)
LEMMA WithoutType ==
    ASSUME TypeOK, NEW gone
    PROVE  Without(gone) \in [Keys -> Values \union {Absent}]
BY DEF TypeOK, Without

(* One transaction for each of Get, Set and Forget.                        *)
LEMMA CallsStep ==
    ASSUME IInv, NEW c \in Clients, NEW k \in Keys,
           Get(c, k) \/ (\E v \in Values : Set(c, k, v)) \/ Forget(c, k)
    PROVE  IInv'
<1>0. TypeOK /\ task \in [Clients -> Task] /\ \A b \in Clients : SweepOK(task[b])
  BY DEF IInv, TypeOK
<1>1. CASE Get(c, k)
  <2>1. entries[k] \in Reply  BY <1>0 DEF TypeOK, Reply
  <2>2. QED  BY <1>0, <1>1, <2>1, Typed DEF Get, Answer, IInv, TypeOK
<1>2. ASSUME NEW v \in Values, Set(c, k, v) PROVE IInv'
  <2>1. /\ reply' = [reply EXCEPT ![c] = "saved"] /\ "saved" \in Reply
        /\ dropped' \in {dropped, dropped \ {c}, dropped \union {c}}
    BY <1>2 DEF Set, Reply
  <2>2. task' \in [Clients -> Task] /\ \A b \in Clients : SweepOK(task'[b])
    BY <1>0, <1>2, ChangeStep DEF Set
  <2>3. entries' \in [Keys -> Values \union {Absent}]
    BY <1>0, <1>2 DEF Set, Change, TypeOK
  <2>4. QED  BY <1>0, <2>1, <2>2, <2>3, Typed DEF IInv
<1>3. CASE Forget(c, k)
  <2>1. PICK r \in {"forgotten", "error"} : Answer(c, r)  BY <1>3 DEF Forget
  <2>2. /\ reply' = [reply EXCEPT ![c] = r] /\ r \in Reply
        /\ dropped' \in {dropped, dropped \ {c}, dropped \union {c}}
    BY <2>1 DEF Answer, Reply
  <2>3. task' \in [Clients -> Task] /\ \A b \in Clients : SweepOK(task'[b])
    BY <1>0, <1>3, ChangeStep DEF Forget
  <2>4. entries' \in [Keys -> Values \union {Absent}]
    BY <1>0, <1>3, WithoutType DEF Forget, Change, TypeOK
  <2>5. QED  BY <1>0, <2>2, <2>3, <2>4, Typed DEF IInv
<1>4. QED  BY <1>1, <1>2, <1>3

(* EmptyByMatch begins with nothing kept, and what it must remove is what  *)
(* its iterator will find.                                                 *)
LEMMA BeginStep ==
    ASSUME IInv, NEW c \in Clients, NEW p \in Patterns, EmptyByMatch(c, p)
    PROVE  IInv'
<1> DEFINE there == {k \in Matching[p] : entries[k] # Absent}
           t == [pc |-> "iterate", pat |-> p, snap |-> there, kept |-> {}, due |-> there]
<1>1. there \subseteq Matching[p] /\ there \subseteq Keys
  BY KeysAssumption DEF KeysAssumption
<1>2. task' = [task EXCEPT ![c] = t]  BY DEF EmptyByMatch
<1>3. entries' = entries /\ reply' = reply /\ dropped' = dropped  BY DEF EmptyByMatch
<1> HIDE DEF there
<1>4. t \in Task  BY <1>1 DEF Task
<1>5. t.pc = "iterate" /\ t.pat = p /\ t.kept = {} /\ t.snap = there /\ t.due = there
  OBVIOUS
<1> HIDE DEF t
<1>6. SweepOK(t)  BY <1>1, <1>5 DEF SweepOK
<1>7. QED  BY <1>2, <1>3, <1>4, <1>6, MoveStep DEF IInv, TypeOK

(* The iterator fills the first batch, or goes to the end.  There is room  *)
(* only while nothing is kept.                                             *)
LEMMA IterateStep ==
    ASSUME IInv, NEW c \in Clients, Iterate(c)
    PROVE  IInv'
<1> DEFINE t == task[c]
           room == CollectSize - Cardinality(t.kept)
<1>1. t \in Task /\ SweepOK(t) /\ t.pc = "iterate"  BY DEF IInv, TypeOK, Iterate
<1>2. CollectSize \in Nat \ {0}  BY SizeAssumption DEF SizeAssumption
<1>3. entries' = entries /\ reply' = reply /\ dropped' = dropped  BY DEF Iterate
<1>4. CASE room > 0
  <2>1. t.kept = {} /\ room = CollectSize
    <3>1. Cardinality({}) = 0  BY FS_EmptySet
    <3>2. t.kept = {} \/ Cardinality(t.kept) = CollectSize  BY <1>1 DEF SweepOK
    <3>3. QED  BY <1>2, <1>4, <3>1, <3>2
  <2>2. ASSUME NEW found \in SUBSET t.snap, Cardinality(found) = room,
               task' = [task EXCEPT ![c].pc = "batch", ![c].kept = found, ![c].snap = @ \ found]
        PROVE  IInv'
    <3> DEFINE u == [t EXCEPT !.pc = "batch", !.kept = found, !.snap = @ \ found]
    <3>1. task' = [task EXCEPT ![c] = u]  BY <2>2 DEF IInv, TypeOK
    <3>2. u \in Task /\ u.pc = "batch" /\ u.pat = t.pat /\ u.kept = found
          /\ u.snap = t.snap \ found /\ u.due = t.due
      BY <1>1 DEF Task
    <3> HIDE DEF u, t
    <3>3. SweepOK(u)  BY <1>1, <2>1, <2>2, <3>2 DEF SweepOK
    <3>4. QED  BY <1>3, <3>1, <3>2, <3>3, MoveStep DEF IInv, TypeOK
  <2>3. ASSUME task' = [task EXCEPT ![c].pc = "final", ![c].kept = @ \cup t.snap, ![c].snap = {}]
        PROVE  IInv'
    <3> DEFINE u == [t EXCEPT !.pc = "final", !.kept = @ \cup t.snap, !.snap = {}]
    <3>1. task' = [task EXCEPT ![c] = u]  BY <2>3 DEF IInv, TypeOK
    <3>2. u \in Task /\ u.pc = "final" /\ u.pat = t.pat /\ u.kept = t.kept \union t.snap
          /\ u.snap = {} /\ u.due = t.due
      BY <1>1 DEF Task
    <3> HIDE DEF u, t
    <3>3. SweepOK(u)  BY <1>1, <3>2 DEF SweepOK
    <3>4. QED  BY <1>3, <3>1, <3>2, <3>3, MoveStep DEF IInv, TypeOK
  <2>4. QED  BY <2>2, <2>3 DEF Iterate
<1>5. CASE ~(room > 0)
  <2> DEFINE u == [t EXCEPT !.pc = "final", !.kept = @ \cup t.snap, !.snap = {}]
  <2>1. task' = [task EXCEPT ![c].pc = "final", ![c].kept = @ \cup t.snap, ![c].snap = {}]
    BY <1>5 DEF Iterate
  <2>2. task' = [task EXCEPT ![c] = u]  BY <2>1 DEF IInv, TypeOK
  <2>3. u \in Task /\ u.pc = "final" /\ u.pat = t.pat /\ u.kept = t.kept \union t.snap
        /\ u.snap = {} /\ u.due = t.due
    BY <1>1 DEF Task
  <2> HIDE DEF u, t
  <2>4. SweepOK(u)  BY <1>1, <2>3 DEF SweepOK
  <2>5. QED  BY <1>3, <2>2, <2>3, <2>4, MoveStep DEF IInv, TypeOK
<1>6. QED  BY <1>4, <1>5

(* The two deletions and their failure.                                    *)
LEMMA DeleteStep ==
    ASSUME IInv, NEW c \in Clients, DeleteBatch(c) \/ DeleteAll(c) \/ DeleteFails(c)
    PROVE  IInv'
<1>0. TypeOK /\ task \in [Clients -> Task] /\ \A b \in Clients : SweepOK(task[b])
  BY DEF IInv, TypeOK
<1>1. CASE DeleteBatch(c)
  <2> DEFINE u == [task[c] EXCEPT !.pc = "iterate"]
             tasks == [task EXCEPT ![c] = u]
  <2>1. Change(Without(task[c].kept), tasks) /\ reply' = reply /\ dropped' = dropped
    BY <1>0, <1>1 DEF DeleteBatch
  <2>2. u \in Task /\ u.pc = "iterate" /\ u.pat = task[c].pat /\ u.kept = task[c].kept
        /\ u.snap = task[c].snap /\ u.due = task[c].due /\ task[c].pc = "batch"
    BY <1>0, <1>1 DEF DeleteBatch, Task
  <2> HIDE DEF u
  <2>3. SweepOK(u)  BY <1>0, <2>2 DEF SweepOK
  <2>4. tasks \in [Clients -> Task] /\ \A b \in Clients : SweepOK(tasks[b])
    BY <2>2, <2>3, MoveStep
  <2> HIDE DEF tasks
  <2>5. task' \in [Clients -> Task] /\ \A b \in Clients : SweepOK(task'[b])
    BY <2>1, <2>4, ChangeStep
  <2>6. QED  BY <1>0, <2>1, <2>5, WithoutType DEF Change, IInv, TypeOK
<1>2. CASE DeleteAll(c)
  <2> DEFINE tasks == [task EXCEPT ![c] = Idle]
  <2>1. Change(Without(task[c].kept), tasks) /\ Answer(c, "emptied")  BY <1>2 DEF DeleteAll
  <2>2. tasks \in [Clients -> Task] /\ \A b \in Clients : SweepOK(tasks[b])
    BY IdleOK, MoveStep
  <2> HIDE DEF tasks
  <2>3. task' \in [Clients -> Task] /\ \A b \in Clients : SweepOK(task'[b])
    BY <2>1, <2>2, ChangeStep
  <2>4. "emptied" \in Reply /\ entries' \in [Keys -> Values \union {Absent}]
    BY <1>0, <2>1, WithoutType DEF Change, Reply
  <2>5. QED  BY <1>0, <2>1, <2>3, <2>4, Typed DEF Answer, IInv
<1>3. CASE DeleteFails(c)
  <2>1. task' = [task EXCEPT ![c] = Idle] /\ Answer(c, "error") /\ entries' = entries
    BY <1>3 DEF DeleteFails
  <2>2. task' \in [Clients -> Task] /\ \A b \in Clients : SweepOK(task'[b])
    BY <2>1, IdleOK, MoveStep
  <2>3. "error" \in Reply  BY DEF Reply
  <2>4. QED  BY <1>0, <2>1, <2>2, <2>3, Typed DEF Answer, IInv, TypeOK
<1>4. QED  BY <1>1, <1>2, <1>3

(* A time to live passes.                                                  *)
LEMMA ExpireStep ==
    ASSUME IInv, NEW k \in Keys, Expire(k)
    PROVE  IInv'
<1>0. TypeOK /\ task \in [Clients -> Task] /\ \A b \in Clients : SweepOK(task[b])
  BY DEF IInv, TypeOK
<1>1. task' \in [Clients -> Task] /\ \A b \in Clients : SweepOK(task'[b])
  BY <1>0, ChangeStep DEF Expire
<1>2. entries' \in [Keys -> Values \union {Absent}] /\ reply' = reply /\ dropped' = dropped
  BY <1>0, WithoutType DEF Expire, Change
<1>3. QED  BY <1>0, <1>1, <1>2 DEF IInv, TypeOK
-----------------------------------------------------------------------------
(* Every step keeps the invariant.                                         *)
LEMMA Step == IInv /\ [Next]_vars => IInv'
<1> SUFFICES ASSUME IInv, [Next]_vars PROVE IInv'
  OBVIOUS
<1>1. ASSUME NEW c \in Clients, NEW k \in Keys, Get(c, k) \/ Forget(c, k) PROVE IInv'
  BY <1>1, CallsStep
<1>2. ASSUME NEW c \in Clients, NEW k \in Keys, NEW v \in Values, Set(c, k, v) PROVE IInv'
  BY <1>2, CallsStep
<1>3. ASSUME NEW c \in Clients, NEW p \in Patterns, EmptyByMatch(c, p) PROVE IInv'
  BY <1>3, BeginStep
<1>4. ASSUME NEW c \in Clients, Sweep(c) PROVE IInv'
  BY <1>4, IterateStep, DeleteStep DEF Sweep
<1>5. ASSUME NEW k \in Keys, Expire(k) PROVE IInv'  BY <1>5, ExpireStep
<1>6. CASE UNCHANGED vars  BY <1>6 DEF vars, IInv, TypeOK
<1>7. QED  BY <1>1, <1>2, <1>3, <1>4, <1>5, <1>6 DEF Next

(* At the beginning no client sweeps.                                      *)
LEMMA Beginning == Init => IInv
BY IdleOK DEF Init, IInv, TypeOK, Reply

(* The invariant of the cache: types, and what each sweep still holds.     *)
THEOREM Invariant == Spec => []IInv
BY Beginning, Step, PTL DEF Spec

(* The variables of BadgerCache keep their types.                          *)
THEOREM Types == Spec => []TypeOK
<1>1. IInv => TypeOK  BY DEF IInv
<1>2. QED  BY <1>1, Invariant, PTL

(* No sweep of emptyByMatch deletes what its prefix does not match, and    *)
(* none loses a key that it owes, whatever other clients write meanwhile.  *)
THEOREM Covers == Spec => []SweepCovers
<1>1. IInv => SweepCovers  BY DEF IInv, SweepOK, SweepCovers
<1>2. QED  BY <1>1, Invariant, PTL
-----------------------------------------------------------------------------
(* The cache implements CacheSpec.  What a sweep still owes is there: a    *)
(* key that any operation removes, or that expires, is owed no more.       *)
DueIsThere == \A c \in Clients : \A k \in task[c].due : entries[k] # Absent

Shown == [c \in Clients |-> [pat |-> task[c].pat, due |-> task[c].due]]
Told == [c \in Clients |-> IF c \in dropped THEN "error" ELSE reply[c]]

(* What CacheSpec sees of a change, and of an answer.                      *)
Seen(new) ==
    /\ entries' = new
    /\ Shown' = [c \in Clients |-> [Shown[c] EXCEPT !.due = {k \in @ : new[k] # Absent}]]
Heard(c, r) == Told' = [Told EXCEPT ![c] = r]

(* A change of the entries, whatever operation the sweeps go on with.      *)
LEMMA ChangeShown ==
    ASSUME NEW new, NEW tasks, Change(new, tasks), tasks \in [Clients -> Task],
           \A c \in Clients : tasks[c].pat = task[c].pat /\ tasks[c].due = task[c].due
    PROVE  Seen(new) /\ DueIsThere'
<1>1. entries' = new  BY DEF Change
<1>2. ASSUME NEW c \in Clients
      PROVE  /\ task'[c].pat = task[c].pat
             /\ task'[c].due = {k \in task[c].due : new[k] # Absent}
  <2>1. task'[c] = [tasks[c] EXCEPT !.due = {k \in tasks[c].due : new[k] # Absent}]
    BY DEF Change
  <2>2. tasks[c] \in Task  OBVIOUS
  <2>3. QED  BY <2>1, <2>2 DEF Task
<1>3. Shown' = [c \in Clients |-> [Shown[c] EXCEPT !.due = {k \in @ : new[k] # Absent}]]
  BY <1>2 DEF Shown
<1>4. Seen(new)  BY <1>1, <1>3 DEF Seen
<1>5. DueIsThere'  BY <1>1, <1>2 DEF DueIsThere
<1>6. QED  BY <1>4, <1>5

(* What the invariant says of a client that CacheSpec sees idle, or in a   *)
(* sweep.                                                                  *)
LEMMA WhoSweeps ==
    ASSUME IInv, NEW c \in Clients
    PROVE  (task[c].pc = "idle") <=> ~Abstract!Sweeping(c)
<1>1. SweepOK(task[c]) /\ Absent \notin Patterns
  BY AbsentAssumption DEF IInv, AbsentAssumption
<1>2. CASE task[c].pc = "idle"
  <2>1. task[c].pat = Absent /\ task[c].due = {}  BY <1>1, <1>2 DEF SweepOK
  <2>2. QED  BY <1>2, <2>1 DEF Abstract!Sweeping, Abstract!NoSweep
<1>3. CASE task[c].pc # "idle"
  <2>1. task[c].pat # Absent  BY <1>1, <1>3 DEF SweepOK
  <2>2. QED  BY <1>3, <2>1 DEF Abstract!Sweeping, Abstract!NoSweep
<1>4. QED  BY <1>2, <1>3

(* An answer that was not dropped is the one that CacheSpec gives.         *)
LEMMA AnswerTold ==
    ASSUME IInv, NEW c \in Clients, NEW r, Answer(c, r)
    PROVE  Heard(c, r)
<1>1. reply \in [Clients -> Reply] /\ dropped' = dropped \ {c} /\ reply' = [reply EXCEPT ![c] = r]
  BY DEF IInv, TypeOK, Answer
<1>2. QED  BY <1>1 DEF Told, Heard

(* Get, Set and Forget are those of CacheSpec; where they fail, and where  *)
(* Set dropped the error, they are its Fail.                               *)
LEMMA CallsRefine ==
    ASSUME IInv, DueIsThere, NEW c \in Clients, NEW k \in Keys,
           Get(c, k) \/ (\E v \in Values : Set(c, k, v)) \/ Forget(c, k)
    PROVE  Abstract!Next /\ DueIsThere'
<1>1. ~Abstract!Sweeping(c)  BY WhoSweeps DEF Get, Set, Forget
<1>2. task \in [Clients -> Task] /\ entries \in [Keys -> Values \union {Absent}]
      /\ reply \in [Clients -> Reply]
  BY DEF IInv, TypeOK
<1>3. ASSUME UNCHANGED <<entries, task>>
      PROVE  Shown' = Shown /\ DueIsThere'
  BY <1>3 DEF Shown, DueIsThere
<1>4. CASE Get(c, k)
  <2>1. Answer(c, entries[k]) /\ UNCHANGED <<entries, task>>  BY <1>4 DEF Get
  <2>2. Abstract!Get(c, k)  BY <1>1, <1>3, <2>1, AnswerTold DEF Abstract!Get, Abstract!Answer, Shown, Told, Heard
  <2>3. QED  BY <1>3, <2>1, <2>2 DEF Abstract!Next
<1>5. ASSUME NEW v \in Values, Set(c, k, v) PROVE Abstract!Next /\ DueIsThere'
  <2>1. CASE Change([entries EXCEPT ![k] = v], task) /\ dropped' = dropped \ {c}
    <3>1. Answer(c, "saved")  BY <1>5, <2>1 DEF Set, Answer
    <3>2. Seen([entries EXCEPT ![k] = v]) /\ DueIsThere'
      BY <1>2, <2>1, ChangeShown
    <3>3. Heard(c, "saved")  BY <3>1, AnswerTold
    <3>4. Abstract!Set(c, k, v)  
      BY <1>1, <3>2, <3>3 DEF Abstract!Set, Abstract!Change, Abstract!Answer, Seen, Heard, Shown, Told
    <3>5. QED  BY <3>2, <3>4 DEF Abstract!Next
  <2>2. CASE UNCHANGED <<entries, task>> /\ dropped' = dropped \union {c}
    <3>1. Told' = [Told EXCEPT ![c] = "error"]  BY <1>2, <1>5, <2>2 DEF Told, Set
    <3>2. Abstract!Fail(c)
      BY <1>1, <1>3, <2>2, <3>1 DEF Abstract!Fail, Abstract!Answer, Told, Shown
    <3>3. QED  BY <1>3, <2>2, <3>2 DEF Abstract!Next
  <2>3. QED  BY <1>5, <2>1, <2>2 DEF Set
<1>6. CASE Forget(c, k)
  <2>1. CASE Change(Without({k}), task) /\ Answer(c, "forgotten")
    <3>1. Seen(Without({k})) /\ DueIsThere'  BY <1>2, <2>1, ChangeShown
    <3>2. Heard(c, "forgotten")  BY <2>1, AnswerTold
    <3>3. Abstract!Forget(c, k)
      BY <1>1, <3>1, <3>2 DEF Abstract!Forget, Abstract!Change, Abstract!Without, Abstract!Answer,
           Without, Seen, Heard, Shown, Told
    <3>4. QED  BY <3>1, <3>3 DEF Abstract!Next
  <2>2. CASE Answer(c, "error") /\ UNCHANGED <<entries, task>>
    <3>1. Abstract!Fail(c)
      BY <1>1, <1>3, <2>2, AnswerTold DEF Abstract!Fail, Abstract!Answer, Shown, Told, Heard
    <3>2. QED  BY <1>3, <2>2, <3>1 DEF Abstract!Next
  <2>3. QED  BY <1>6, <2>1, <2>2 DEF Forget
<1>7. QED  BY <1>4, <1>5, <1>6

(* A sweep begins with the keys that it must see gone.                     *)
LEMMA BeginRefines ==
    ASSUME IInv, DueIsThere, NEW c \in Clients, NEW p \in Patterns, EmptyByMatch(c, p)
    PROVE  Abstract!Next /\ DueIsThere'
<1> DEFINE there == {k \in Matching[p] : entries[k] # Absent}
           t == [pc |-> "iterate", pat |-> p, snap |-> there, kept |-> {}, due |-> there]
<1>1. ~Abstract!Sweeping(c) /\ task \in [Clients -> Task]
  BY WhoSweeps DEF EmptyByMatch, IInv, TypeOK
<1>2. task' = [task EXCEPT ![c] = t] /\ UNCHANGED <<entries, reply, dropped>>
  BY DEF EmptyByMatch
<1>3. Shown' = [Shown EXCEPT ![c] = [pat |-> p, due |-> there]] /\ Told' = Told
  BY <1>1, <1>2 DEF Shown, Told
<1>4. Abstract!Begin(c, p)  BY <1>1, <1>2, <1>3 DEF Abstract!Begin, Shown, Told
<1>5. DueIsThere'  BY <1>1, <1>2 DEF DueIsThere
<1>6. QED  BY <1>4, <1>5 DEF Abstract!Next

(* CacheSpec does not see the iterator.                                    *)
LEMMA IterateRefines ==
    ASSUME IInv, DueIsThere, NEW c \in Clients, Iterate(c)
    PROVE  UNCHANGED Abstract!vars /\ DueIsThere'
<1>1. UNCHANGED <<entries, reply, dropped>> /\ task \in [Clients -> Task] /\ task[c] \in Task
  BY DEF Iterate, IInv, TypeOK
<1>2. PICK q \in {"batch", "final"} : \E keep, rest :
        task' = [task EXCEPT ![c].pc = q, ![c].kept = keep, ![c].snap = rest]
  BY <1>1 DEF Iterate
<1>3. \A b \in Clients : task'[b].pat = task[b].pat /\ task'[b].due = task[b].due
  BY <1>1, <1>2 DEF Task
<1>4. Shown' = Shown /\ Told' = Told  BY <1>1, <1>3 DEF Shown, Told
<1>5. DueIsThere'  BY <1>1, <1>3 DEF DueIsThere
<1>6. QED  BY <1>1, <1>4, <1>5 DEF Abstract!vars, Shown, Told

(* A batch is deleted.                                                     *)
LEMMA BatchRefines ==
    ASSUME IInv, DueIsThere, NEW c \in Clients, DeleteBatch(c)
    PROVE  Abstract!Next /\ DueIsThere'
<1> DEFINE gone == task[c].kept
           tasks == [task EXCEPT ![c].pc = "iterate"]
<1>1. /\ task \in [Clients -> Task] /\ task[c] \in Task /\ task[c].pc = "batch" /\ SweepOK(task[c])
      /\ Abstract!Sweeping(c)
  BY WhoSweeps DEF IInv, TypeOK, DeleteBatch
<1>2. gone \subseteq Matching[task[c].pat] /\ gone \in SUBSET Keys  BY <1>1 DEF SweepOK, Task
<1>3. Change(Without(gone), tasks) /\ UNCHANGED <<reply, dropped>>  BY DEF DeleteBatch
<1>4. tasks \in [Clients -> Task]
      /\ \A b \in Clients : tasks[b].pat = task[b].pat /\ tasks[b].due = task[b].due
  BY <1>1 DEF Task
<1> HIDE DEF gone, tasks
<1>5. Seen(Without(gone)) /\ DueIsThere'  BY <1>3, <1>4, ChangeShown
<1>6. Told' = Told  BY <1>3 DEF Told
<1>7. Abstract!Remove(c, gone)
  BY <1>1, <1>2, <1>5, <1>6 DEF Abstract!Remove, Abstract!Change, Abstract!Without, Without,
       Seen, Shown, Told
<1>8. QED  BY <1>2, <1>5, <1>7 DEF Abstract!Next

(* A sweep ends: its last transaction leaves what other sweeps owe, but    *)
(* for the keys that are gone.                                             *)
LEMMA EndRefines ==
    ASSUME IInv, DueIsThere, NEW c \in Clients, task[c].pc # "idle",
           NEW gone \in SUBSET Keys, gone \subseteq Matching[task[c].pat],
           NEW r \in {"emptied", "error"}, r = "emptied" => task[c].due \subseteq gone,
           Answer(c, r), entries' = Without(gone),
           \A b \in Clients \ {c} : task'[b].pat = task[b].pat /\ task'[b].due = task[b].due \ gone,
           task'[c].pat = Absent, task'[c].due = {}
    PROVE  Abstract!Next /\ DueIsThere'
<1>1. Abstract!Sweeping(c) /\ task \in [Clients -> Task]  BY WhoSweeps DEF IInv, TypeOK
<1>2. Shown' = [b \in Clients |-> IF b = c THEN [pat |-> Absent, due |-> {}]
                                  ELSE [Shown[b] EXCEPT !.due = @ \ gone]]
  BY DEF Shown
<1>3. Abstract!Finish(c, gone, r)
  BY <1>1, <1>2, AnswerTold DEF Abstract!Finish, Abstract!NoSweep, Abstract!Answer,
       Abstract!Without, Without, Shown, Told, Heard
<1>4. DueIsThere'
  <2>1. ASSUME NEW b \in Clients, NEW k \in task'[b].due PROVE entries'[k] # Absent
    <3>1. b # c /\ k \in task[b].due /\ k \notin gone  OBVIOUS
    <3>2. k \in Keys  BY <1>1, <3>1 DEF Task
    <3>3. entries[k] # Absent  BY <3>1 DEF DueIsThere
    <3>4. QED  BY <3>1, <3>2, <3>3 DEF Without
  <2>2. QED  BY <2>1 DEF DueIsThere
<1>5. QED  BY <1>3, <1>4 DEF Abstract!Next

(* The last deletion, or a failure.                                        *)
LEMMA DeletesRefine ==
    ASSUME IInv, DueIsThere, NEW c \in Clients, DeleteAll(c) \/ DeleteFails(c)
    PROVE  Abstract!Next /\ DueIsThere'
<1>1. /\ task \in [Clients -> Task] /\ task[c] \in Task /\ task[c].pc # "idle" /\ SweepOK(task[c])
      /\ entries \in [Keys -> Values \union {Absent}]
  BY DEF IInv, TypeOK, DeleteAll, DeleteFails
<1>2. CASE DeleteAll(c)
  <2> DEFINE gone == task[c].kept
             tasks == [task EXCEPT ![c] = Idle]
  <2>1. Change(Without(gone), tasks) /\ Answer(c, "emptied") /\ task[c].pc = "final"
    BY <1>2 DEF DeleteAll
  <2>2. /\ gone \in SUBSET Keys /\ gone \subseteq Matching[task[c].pat]
        /\ task[c].due \subseteq gone
    BY <1>1, <2>1 DEF SweepOK, Task
  <2>3. tasks \in [Clients -> Task] /\ tasks[c] = Idle /\ \A b \in Clients \ {c} : tasks[b] = task[b]
    BY <1>1, IdleOK
  <2> HIDE DEF gone, tasks
  <2>4. entries' = Without(gone)  BY <2>1 DEF Change
  <2>5. ASSUME NEW b \in Clients
        PROVE  task'[b].pat = tasks[b].pat /\ task'[b].due = {k \in tasks[b].due : entries'[k] # Absent}
    <3>1. tasks[b] \in Task  BY <2>3
    <3>2. task'[b] = [tasks[b] EXCEPT !.due = {k \in tasks[b].due : entries'[k] # Absent}]
      BY <2>1, <2>4 DEF Change
    <3>3. QED  BY <3>1, <3>2 DEF Task
  <2>6. task'[c].pat = Absent /\ task'[c].due = {}  BY <2>3, <2>5 DEF Idle
  <2>7. ASSUME NEW b \in Clients \ {c}
        PROVE  task'[b].pat = task[b].pat /\ task'[b].due = task[b].due \ gone
    <3>1. task[b].due \subseteq Keys /\ \A k \in task[b].due : entries[k] # Absent
      BY <1>1 DEF Task, DueIsThere
    <3>2. {k \in task[b].due : entries'[k] # Absent} = task[b].due \ gone
      BY <2>4, <3>1 DEF Without
    <3>3. QED  BY <2>3, <2>5, <3>2
  <2>8. QED  BY <1>1, <2>1, <2>2, <2>4, <2>6, <2>7, EndRefines
<1>3. CASE DeleteFails(c)
  <2>1. task' = [task EXCEPT ![c] = Idle] /\ Answer(c, "error") /\ entries' = entries
    BY <1>3 DEF DeleteFails
  <2>2. Without({}) = entries  BY <1>1 DEF Without
  <2>3. task'[c].pat = Absent /\ task'[c].due = {}  BY <1>1, <2>1 DEF Idle
  <2>4. \A b \in Clients \ {c} : task'[b].pat = task[b].pat /\ task'[b].due = task[b].due \ {}
    BY <1>1, <2>1
  <2>5. QED  BY <1>1, <2>1, <2>2, <2>3, <2>4, EndRefines
<1>4. QED  BY <1>2, <1>3

(* Every step is one of CacheSpec, or one that it does not see.            *)
LEMMA Refinement ==
    IInv /\ DueIsThere /\ [Next]_vars => [Abstract!Next]_(Abstract!vars) /\ DueIsThere'
<1> SUFFICES ASSUME IInv, DueIsThere, [Next]_vars
             PROVE  (Abstract!Next \/ UNCHANGED Abstract!vars) /\ DueIsThere'
  OBVIOUS
<1>1. ASSUME NEW c \in Clients, NEW k \in Keys, Get(c, k) \/ Forget(c, k)
      PROVE  Abstract!Next /\ DueIsThere'
  BY <1>1, CallsRefine
<1>2. ASSUME NEW c \in Clients, NEW k \in Keys, NEW v \in Values, Set(c, k, v)
      PROVE  Abstract!Next /\ DueIsThere'
  BY <1>2, CallsRefine
<1>3. ASSUME NEW c \in Clients, NEW p \in Patterns, EmptyByMatch(c, p)
      PROVE  Abstract!Next /\ DueIsThere'
  BY <1>3, BeginRefines
<1>4. ASSUME NEW c \in Clients, Sweep(c)
      PROVE  (Abstract!Next \/ UNCHANGED Abstract!vars) /\ DueIsThere'
  BY <1>4, IterateRefines, BatchRefines, DeletesRefine DEF Sweep
<1>5. ASSUME NEW k \in Keys, Expire(k) PROVE Abstract!Next /\ DueIsThere'
  <2>1. Change(Without({k}), task) /\ UNCHANGED <<reply, dropped>>  BY <1>5 DEF Expire
  <2>2. task \in [Clients -> Task]  BY DEF IInv, TypeOK
  <2>3. Seen(Without({k})) /\ DueIsThere'  BY <2>1, <2>2, ChangeShown
  <2>4. Told' = Told  BY <2>1 DEF Told
  <2>5. Abstract!Expire(k)  
    BY <2>3, <2>4 DEF Abstract!Expire, Abstract!Change, Abstract!Without, Without, Seen, Shown, Told
  <2>6. QED  BY <2>3, <2>5 DEF Abstract!Next
<1>6. CASE UNCHANGED vars
  <2>1. Shown' = Shown /\ Told' = Told /\ entries' = entries /\ DueIsThere'
    BY <1>6 DEF vars, Shown, Told, DueIsThere
  <2>2. QED  BY <2>1 DEF Abstract!vars, Shown, Told
<1>7. QED  BY <1>1, <1>2, <1>3, <1>4, <1>5, <1>6 DEF Next

(* BadgerCache implements CacheSpec (cache.go:14): but for the error that  *)
(* Set drops, Get, Set and Forget are atomic, and a sweep that reports     *)
(* success saw every key gone that was there when it began, and removed    *)
(* none that it does not match.                                            *)
THEOREM Refines == Spec => RefinesCache
<1>1. Init => Abstract!Init /\ DueIsThere
  BY DEF Init, Idle, Abstract!Init, Abstract!NoSweep, DueIsThere
<1>2. IInv /\ DueIsThere /\ [Next]_vars => [Abstract!Next]_(Abstract!vars) /\ DueIsThere'
  BY Refinement
<1>3. QED  BY <1>1, <1>2, Invariant, PTL DEF Spec, RefinesCache, Abstract!Spec
=============================================================================
