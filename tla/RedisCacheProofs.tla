-------------------------- MODULE RedisCacheProofs --------------------------
(***************************************************************************)
(* Theorems about the pool of redis connections, for every number of       *)
(* clients, keys and patterns and every size of the pool.                  *)
(***************************************************************************)
EXTENDS RedisCache, FiniteSetTheorems, TLAPS

(* Who holds a connection for its command or its deletions, and who a      *)
(* second one to scan.                                                     *)
Holding == {c \in Clients : task[c].conn}
Scanning == {c \in Clients : task[c].pc = "scan"}

(* What an operation carries.                                              *)
CallOK(t) ==
    /\ t \in Task
    /\ t.pc = "idle" => ~t.conn
    /\ t.pc = "command" => t.key \in Keys
    /\ t.pc \in {"open", "scan", "delete"} => t.pat \in Patterns

(* The inductive invariant. *)
IInv == TypeOK /\ PoolAccounting /\ \A c \in Clients : CallOK(task[c])
-----------------------------------------------------------------------------
(* An idle client holds nothing.                                           *)
LEMMA IdleOK == CallOK(Idle) /\ ~Idle.conn /\ Idle.pc = "idle"
<1>1. [k \in Keys |-> 0] \in [Keys -> 0 .. 2]  OBVIOUS
<1>2. Idle \in Task  BY <1>1 DEF Idle, Task, Command
<1>3. QED  BY <1>2 DEF Idle, CallOK

(* The counts of the pool are numbers.                                     *)
LEMMA CountType == ASSUME NEW b \in BOOLEAN PROVE Count(b) \in 0 .. 1
BY DEF Count

(* Changing one member changes the size of a set by at most one.           *)
LEMMA CountOne ==
    ASSUME NEW S \in SUBSET Clients, NEW T \in SUBSET Clients, NEW c \in Clients,
           \A b \in Clients \ {c} : b \in S <=> b \in T
    PROVE  /\ Cardinality(S) \in Nat /\ Cardinality(T) \in Nat
           /\ Cardinality(T) = Cardinality(S) - Count(c \in S) + Count(c \in T)
           /\ Cardinality(S) >= Count(c \in S)
<1>1. IsFiniteSet(S) /\ IsFiniteSet(T)  BY ClientsAssumption, FS_Subset DEF ClientsAssumption
<1>2. Cardinality(S) \in Nat /\ Cardinality(T) \in Nat  BY <1>1, FS_CardinalityType
<1>3. IsFiniteSet(S \ {c}) /\ Cardinality(S \ {c}) \in Nat
  BY <1>1, FS_Subset, FS_CardinalityType
<1>4. S \ {c} = T \ {c}  OBVIOUS
<1>5. Cardinality(S) = Cardinality(S \ {c}) + Count(c \in S)
  <2>1. CASE c \in S
    <3>1. Cardinality(S \ {c}) = Cardinality(S) - 1  BY <1>1, <2>1, FS_RemoveElement
    <3>2. Count(c \in S) = 1  BY <2>1 DEF Count
    <3>3. QED  BY <1>2, <3>1, <3>2
  <2>2. CASE c \notin S
    <3>1. S \ {c} = S  BY <2>2
    <3>2. Count(c \in S) = 0  BY <2>2 DEF Count
    <3>3. QED  BY <1>2, <3>1, <3>2
  <2>3. QED  BY <2>1, <2>2
<1>6. Cardinality(T) = Cardinality(T \ {c}) + Count(c \in T)
  <2>1. CASE c \in T
    <3>1. Cardinality(T \ {c}) = Cardinality(T) - 1  BY <1>1, <2>1, FS_RemoveElement
    <3>2. Count(c \in T) = 1  BY <2>1 DEF Count
    <3>3. QED  BY <1>2, <3>1, <3>2
  <2>2. CASE c \notin T
    <3>1. T \ {c} = T  BY <2>2
    <3>2. Count(c \in T) = 0  BY <2>2 DEF Count
    <3>3. QED  BY <1>2, <3>1, <3>2
  <2>3. QED  BY <2>1, <2>2
<1>7. Count(c \in S) \in Nat /\ Count(c \in T) \in Nat  BY DEF Count
<1>8. QED  BY <1>2, <1>3, <1>4, <1>5, <1>6, <1>7

(* What an operation of one client does to the pool: it may have held a    *)
(* connection (h) and one for its SCAN (s), and holds h2 and s2 afterwards. *)
Moved(c, h, s, h2, s2) ==
    /\ h = task[c].conn /\ s = (task[c].pc = "scan")
    /\ h2 = task'[c].conn /\ s2 = (task'[c].pc = "scan")
    /\ \A b \in Clients \ {c} : task'[b].conn = task[b].conn /\ task'[b].pc = task[b].pc

(* The pool counts right if it counts what the operation took or gave      *)
(* back, and gives none when it has none.                                  *)
LEMMA PoolStep ==
    ASSUME IInv, NEW c \in Clients, NEW h \in BOOLEAN, NEW s \in BOOLEAN, NEW h2 \in BOOLEAN,
           NEW s2 \in BOOLEAN, Moved(c, h, s, h2, s2), sessions' = sessions,
           active' = active - Count(h) - Count(s) + Count(h2) + Count(s2),
           active' <= MaxActive
    PROVE  PoolAccounting' /\ active' \in 0 .. MaxActive
<1>1. Holding \in SUBSET Clients /\ Holding' \in SUBSET Clients
      /\ Scanning \in SUBSET Clients /\ Scanning' \in SUBSET Clients
  BY DEF Holding, Scanning
<1>2. \A b \in Clients \ {c} : (b \in Holding <=> b \in Holding') /\ (b \in Scanning <=> b \in Scanning')
  BY DEF Moved, Holding, Scanning
<1>3. (c \in Holding <=> h) /\ (c \in Holding' <=> h2) /\ (c \in Scanning <=> s) /\ (c \in Scanning' <=> s2)
  BY DEF Moved, Holding, Scanning
<1>4. /\ Cardinality(Holding) \in Nat /\ Cardinality(Holding') \in Nat
      /\ Cardinality(Holding') = Cardinality(Holding) - Count(c \in Holding) + Count(c \in Holding')
  BY <1>1, <1>2, CountOne
<1>5. /\ Cardinality(Scanning) \in Nat /\ Cardinality(Scanning') \in Nat
      /\ Cardinality(Scanning') = Cardinality(Scanning) - Count(c \in Scanning) + Count(c \in Scanning')
  BY <1>1, <1>2, CountOne
<1>6. /\ Count(c \in Holding) = Count(h) /\ Count(c \in Holding') = Count(h2)
      /\ Count(c \in Scanning) = Count(s) /\ Count(c \in Scanning') = Count(s2)
  BY <1>3 DEF Count
<1>7. active = sessions + Cardinality(Holding) + Cardinality(Scanning)
  BY DEF IInv, PoolAccounting, Holding, Scanning
<1>8. active \in Nat /\ sessions \in Nat /\ MaxActive \in Nat
  BY PoolAssumption DEF IInv, TypeOK, PoolAssumption
<1>9. Count(h) \in 0 .. 1 /\ Count(s) \in 0 .. 1 /\ Count(h2) \in 0 .. 1 /\ Count(s2) \in 0 .. 1
  BY CountType
<1>10. active' = sessions + Cardinality(Holding') + Cardinality(Scanning')
  BY <1>4, <1>5, <1>6, <1>7, <1>8, <1>9
<1>11. PoolAccounting'  BY <1>10 DEF PoolAccounting, Holding, Scanning
<1>12. active' \in 0 .. MaxActive  BY <1>4, <1>5, <1>8, <1>10
<1>13. QED  BY <1>11, <1>12
-----------------------------------------------------------------------------
(* What the invariant says of one client.                                  *)
LEMMA OfClient ==
    ASSUME IInv, NEW c \in Clients
    PROVE  /\ TypeOK /\ CallOK(task[c]) /\ task[c] \in Task
           /\ task[c].conn \in BOOLEAN /\ (task[c].pc = "scan") \in BOOLEAN
           /\ active \in 0 .. MaxActive /\ MaxActive \in Nat
BY PoolAssumption DEF IInv, CallOK, TypeOK, Task, PoolAssumption

(* What is due may shrink.                                                 *)
LEMMA DueShrinks ==
    ASSUME NEW t, CallOK(t), NEW d \in SUBSET t.due
    PROVE  /\ CallOK([t EXCEPT !.due = d])
           /\ [t EXCEPT !.due = d].conn = t.conn /\ [t EXCEPT !.due = d].pc = t.pc
<1> DEFINE u == [t EXCEPT !.due = d]
<1>1. u \in Task /\ u.pc = t.pc /\ u.conn = t.conn /\ u.key = t.key /\ u.pat = t.pat
  BY DEF CallOK, Task
<1> HIDE DEF u
<1>2. CallOK(u)  BY <1>1 DEF CallOK
<1>3. QED  BY <1>1, <1>2 DEF u

(* A command changes redis while one client's operation goes on to u.      *)
LEMMA ChangeStep ==
    ASSUME IInv, NEW c \in Clients, NEW u, CallOK(u), NEW new,
           Change(new, [task EXCEPT ![c] = u])
    PROVE  /\ task' \in [Clients -> Task] /\ \A b \in Clients : CallOK(task'[b])
           /\ task'[c].conn = u.conn /\ task'[c].pc = u.pc
           /\ \A b \in Clients \ {c} : task'[b].conn = task[b].conn /\ task'[b].pc = task[b].pc
<1> DEFINE tasks == [task EXCEPT ![c] = u]
<1>1. \A b \in Clients : CallOK(tasks[b]) /\ (b # c => tasks[b] = task[b])
  BY DEF IInv, TypeOK
<1>2. tasks[c] = u  BY DEF IInv, TypeOK
<1> HIDE DEF tasks
<1>3. task' = [b \in Clients |-> [tasks[b] EXCEPT !.due = {k \in @ : new[k] # Absent}]]
  BY DEF Change, tasks
<1>4. ASSUME NEW b \in Clients
      PROVE  CallOK(task'[b]) /\ task'[b].conn = tasks[b].conn /\ task'[b].pc = tasks[b].pc
  <2> DEFINE d == {k \in tasks[b].due : new[k] # Absent}
  <2>1. d \in SUBSET tasks[b].due /\ task'[b] = [tasks[b] EXCEPT !.due = d]  BY <1>3
  <2> HIDE DEF d
  <2>2. QED  BY <1>1, <2>1, DueShrinks
<1>5. task' \in [Clients -> Task]  BY <1>3, <1>4 DEF CallOK
<1>6. QED  BY <1>1, <1>2, <1>4, <1>5

(* An operation that ends, on whatever path, gives back what it held.      *)
LEMMA ReturnStep ==
    ASSUME IInv, NEW c \in Clients, NEW new \in [Keys -> Values \union {Absent}],
           NEW conns, NEW r \in Reply, Return(c, new, conns, r),
           conns = Count(task[c].conn) + Count(task[c].pc = "scan")
    PROVE  IInv'
<1> DEFINE h == task[c].conn
           s == task[c].pc = "scan"
<1>1. h \in BOOLEAN /\ s \in BOOLEAN /\ active \in 0 .. MaxActive /\ MaxActive \in Nat
  BY OfClient
<1>2. /\ task' \in [Clients -> Task] /\ \A b \in Clients : CallOK(task'[b])
      /\ task'[c].conn = FALSE /\ task'[c].pc = "idle"
      /\ \A b \in Clients \ {c} : task'[b].conn = task[b].conn /\ task'[b].pc = task[b].pc
  <2>1. Change(new, [task EXCEPT ![c] = Idle])  BY DEF Return
  <2>2. Idle.conn = FALSE  BY DEF Idle
  <2>3. QED  BY <2>1, <2>2, IdleOK, ChangeStep
<1>3. Moved(c, h, s, FALSE, FALSE)  BY <1>2 DEF Moved
<1>4. Count(h) \in 0 .. 1 /\ Count(s) \in 0 .. 1 /\ Count(FALSE) = 0
  BY <1>1, CountType DEF Count
<1>5. active' = active - (Count(h) + Count(s)) /\ sessions' = sessions
  BY DEF Return
<1> HIDE DEF h, s
<1>6. active' = active - Count(h) - Count(s) + Count(FALSE) + Count(FALSE) /\ active' <= MaxActive
  <2> DEFINE n == Count(h)
             m == Count(s)
             z == Count(FALSE)
  <2>1. n \in 0 .. 1 /\ m \in 0 .. 1 /\ z = 0 /\ active' = active - (n + m)
    BY <1>4, <1>5
  <2> HIDE DEF n, m, z
  <2>2. active' = active - n - m + z + z /\ active' <= MaxActive  BY <1>1, <2>1
  <2>3. QED  BY <2>2 DEF n, m, z
<1>7. PoolAccounting' /\ active' \in 0 .. MaxActive
  BY <1>1, <1>3, <1>5, <1>6, PoolStep
<1>8. entries' = new /\ reply' = [reply EXCEPT ![c] = r]  BY DEF Return, Change
<1>9. QED  BY <1>2, <1>5, <1>7, <1>8 DEF IInv, TypeOK

(* An operation of one client goes on and redis is left alone.             *)
LEMMA MoveStep ==
    ASSUME IInv, NEW c \in Clients, NEW u, CallOK(u), task' = [task EXCEPT ![c] = u],
           active' = active - Count(task[c].conn) - Count(task[c].pc = "scan")
                            + Count(u.conn) + Count(u.pc = "scan"),
           active' <= MaxActive, UNCHANGED <<entries, sessions, reply>>
    PROVE  IInv'
<1> DEFINE h == task[c].conn
           s == task[c].pc = "scan"
           h2 == u.conn
           s2 == u.pc = "scan"
<1>1. h \in BOOLEAN /\ s \in BOOLEAN  BY OfClient
<1>2. u \in Task /\ h2 \in BOOLEAN /\ s2 \in BOOLEAN  BY DEF CallOK, Task
<1>3. /\ task' \in [Clients -> Task] /\ task'[c] = u
      /\ \A b \in Clients \ {c} : task'[b] = task[b]
  BY <1>2 DEF IInv, TypeOK
<1>4. Moved(c, h, s, h2, s2)  BY <1>3 DEF Moved
<1> HIDE DEF h, s, h2, s2
<1>5. active' = active - Count(h) - Count(s) + Count(h2) + Count(s2)  BY DEF h, s, h2, s2
<1>6. PoolAccounting' /\ active' \in 0 .. MaxActive  BY <1>1, <1>2, <1>4, <1>5, PoolStep
<1>7. \A b \in Clients : CallOK(task'[b])  BY <1>3 DEF IInv
<1>8. QED  BY <1>3, <1>6, <1>7 DEF IInv, TypeOK
-----------------------------------------------------------------------------
(* What a command leaves in redis and answers is an entry or an answer.    *)
LEMMA EffectType ==
    ASSUME TypeOK, NEW t, CallOK(t), t.pc = "command"
    PROVE  Effect(t) \in [Keys -> Values \union {Absent}] /\ Outcome(t) \in Reply
<1>1. t.key \in Keys /\ t.val \in Values \union {Absent} /\ t.op \in Command  BY DEF CallOK, Task
<1>2. entries[t.key] \in Values \union {Absent}  BY <1>1 DEF TypeOK
<1>3. CASE t.op = "get"  BY <1>2, <1>3 DEF Effect, Outcome, Reply, TypeOK
<1>4. CASE t.op = "set"
  <2>1. Effect(t) = [entries EXCEPT ![t.key] = t.val]  BY <1>4 DEF Effect
  <2>2. Outcome(t) = "saved"  BY <1>4 DEF Outcome
  <2>3. QED  BY <1>1, <2>1, <2>2 DEF TypeOK, Reply
<1>5. CASE t.op = "forget"
  <2>1. Effect(t) = [entries EXCEPT ![t.key] = Absent]  BY <1>5 DEF Effect
  <2>2. Outcome(t) = "forgotten"  BY <1>5 DEF Outcome
  <2>3. QED  BY <1>1, <2>1, <2>2 DEF TypeOK, Reply
<1>6. QED  BY <1>1, <1>3, <1>4, <1>5 DEF Command

(* Room for a connection is counted.                                       *)
LEMMA RoomCounts ==
    ASSUME IInv
    PROVE  /\ Room \in BOOLEAN /\ Count(Room) \in 0 .. 1 /\ active + Count(Room) <= MaxActive
           /\ active \in Nat /\ MaxActive \in Nat
<1>1. active \in 0 .. MaxActive /\ MaxActive \in Nat
  BY PoolAssumption DEF IInv, TypeOK, PoolAssumption
<1>2. QED  BY <1>1 DEF Room, Count

(* A client that is idle holds nothing.                                    *)
LEMMA IdleHolds ==
    ASSUME IInv, NEW c \in Clients, task[c].pc = "idle"
    PROVE  Count(task[c].conn) = 0 /\ Count(task[c].pc = "scan") = 0
<1>1. CallOK(task[c])  BY OfClient
<1>2. ~task[c].conn /\ ~(task[c].pc = "scan")  BY <1>1 DEF CallOK
<1>3. QED  BY <1>2 DEF Count

(* An operation begins with a connection, if there is one.                 *)
LEMMA BeginStep ==
    ASSUME IInv, NEW c \in Clients, NEW u, CallOK(u), task[c].pc = "idle",
           u.conn = Room, u.pc # "scan", task' = [task EXCEPT ![c] = u],
           active' = active + Count(Room), UNCHANGED <<entries, sessions, reply>>
    PROVE  IInv'
<1> DEFINE n == Count(Room)
<1>1. Count(task[c].conn) = 0 /\ Count(task[c].pc = "scan") = 0  BY IdleHolds
<1>2. Count(u.conn) = n /\ Count(u.pc = "scan") = 0  BY DEF Count
<1>3. n \in 0 .. 1 /\ active + n <= MaxActive /\ active \in Nat /\ MaxActive \in Nat
      /\ active' = active + n
  BY RoomCounts
<1> HIDE DEF n
<1>4. active' = active - Count(task[c].conn) - Count(task[c].pc = "scan")
                       + Count(u.conn) + Count(u.pc = "scan")
  BY <1>1, <1>2, <1>3
<1>5. active' <= MaxActive  BY <1>3
<1>6. QED  BY <1>4, <1>5, MoveStep

(* Get, Set and Forget begin.                                              *)
LEMMA CallStep ==
    ASSUME IInv, NEW c \in Clients, NEW op \in Command, NEW k \in Keys,
           NEW v \in Values \union {Absent}, Call(c, op, k, v)
    PROVE  IInv'
<1> DEFINE r == Room
           u == [task[c] EXCEPT !.pc = "command", !.conn = r, !.op = op, !.key = k, !.val = v]
<1>1. task[c] \in Task /\ TypeOK /\ r \in BOOLEAN  BY OfClient, RoomCounts
<1>2. /\ task' = [task EXCEPT ![c] = u] /\ task[c].pc = "idle"
      /\ active' = active + Count(Room) /\ UNCHANGED <<entries, sessions, reply>>
  BY <1>1 DEF Call, TypeOK
<1> HIDE DEF r
<1>3. u \in Task /\ u.pc = "command" /\ u.conn = r /\ u.key = k
  BY <1>1 DEF Task
<1> HIDE DEF u
<1>4. CallOK(u)  BY <1>3 DEF CallOK
<1>5. QED  BY <1>2, <1>3, <1>4, BeginStep DEF r

(* A sweep begins.                                                         *)
LEMMA SweepStep ==
    ASSUME IInv, NEW c \in Clients, NEW p \in Patterns, EmptyByMatch(c, p)
    PROVE  IInv'
<1> DEFINE r == Room
           u == [task[c] EXCEPT !.pc = "open", !.conn = r, !.pat = p]
<1>1. task[c] \in Task /\ TypeOK /\ r \in BOOLEAN  BY OfClient, RoomCounts
<1>2. /\ task' = [task EXCEPT ![c] = u] /\ task[c].pc = "idle"
      /\ active' = active + Count(Room) /\ UNCHANGED <<entries, sessions, reply>>
  BY <1>1 DEF EmptyByMatch, TypeOK
<1> HIDE DEF r
<1>3. u \in Task /\ u.pc = "open" /\ u.conn = r /\ u.pat = p
  BY <1>1 DEF Task
<1> HIDE DEF u
<1>4. CallOK(u)  BY <1>3 DEF CallOK
<1>5. QED  BY <1>2, <1>3, <1>4, BeginStep DEF r

(* The command, or its failure.                                            *)
LEMMA DoStep ==
    ASSUME IInv, NEW c \in Clients, Do(c) \/ DoFails(c)
    PROVE  IInv'
<1> DEFINE t == task[c]
<1>1. TypeOK /\ CallOK(t) /\ t \in Task /\ t.conn \in BOOLEAN /\ t.pc = "command"
  BY OfClient DEF Do, DoFails
<1>2. Effect(t) \in [Keys -> Values \union {Absent}] /\ Outcome(t) \in Reply
      /\ entries \in [Keys -> Values \union {Absent}] /\ "error" \in Reply
  BY <1>1, EffectType DEF TypeOK, Reply
<1>3. Count(t.pc = "scan") = 0 /\ Held(c) = Count(t.conn) /\ (t.conn => Count(t.conn) = 1)
  BY <1>1 DEF Count, Held
<1>4. Count(t.conn) \in 0 .. 1  BY <1>1, CountType
<1>5. Count(t.conn) = Count(t.conn) + Count(t.pc = "scan")  BY <1>3, <1>4
<1>6. \/ t.conn /\ Return(c, Effect(t), 1, Outcome(t))
      \/ Return(c, entries, Held(c), "error")
      \/ t.conn /\ Return(c, Effect(t), 1, "error")
  BY DEF Do, DoFails
<1>7. QED  BY <1>2, <1>3, <1>5, <1>6, ReturnStep
-----------------------------------------------------------------------------
(* getKeys takes a connection for its SCAN.                                *)
LEMMA OpenScanStep ==
    ASSUME IInv, NEW c \in Clients, OpenScan(c)
    PROVE  IInv'
<1> DEFINE d == {k \in Matching[task[c].pat] : entries[k] # Absent}
           u == [task[c] EXCEPT !.pc = "scan", !.due = d]
<1>1. /\ task[c] \in Task /\ TypeOK /\ CallOK(task[c]) /\ task[c].pc = "open"
      /\ task[c].conn \in BOOLEAN /\ active \in 0 .. MaxActive /\ MaxActive \in Nat
  BY OfClient DEF OpenScan
<1>2. task[c].pat \in Patterns  BY <1>1 DEF CallOK
<1>3. d \in SUBSET Keys  BY <1>2, MatchingAssumption DEF MatchingAssumption
<1>4. /\ task' = [task EXCEPT ![c] = u] /\ active' = active + 1 /\ active < MaxActive
      /\ UNCHANGED <<entries, sessions, reply>>
  BY <1>1 DEF OpenScan, TypeOK, Room
<1> HIDE DEF d
<1>5. u \in Task /\ u.pc = "scan" /\ u.conn = task[c].conn /\ u.pat = task[c].pat
  BY <1>1, <1>3 DEF Task
<1> HIDE DEF u
<1>6. CallOK(u)  BY <1>2, <1>5 DEF CallOK
<1>7. Count(task[c].pc = "scan") = 0 /\ Count(u.pc = "scan") = 1 /\ Count(u.conn) = Count(task[c].conn)
  BY <1>1, <1>5 DEF Count
<1>8. Count(task[c].conn) \in 0 .. 1  BY <1>1, CountType
<1>9. active' <= MaxActive
      /\ active' = active - Count(task[c].conn) - Count(task[c].pc = "scan")
                          + Count(u.conn) + Count(u.pc = "scan")
  BY <1>1, <1>4, <1>7, <1>8
<1>10. QED  BY <1>4, <1>6, <1>9, MoveStep

(* A step of SCAN lists keys; the last one gives back its connection.      *)
LEMMA ScanStep ==
    ASSUME IInv, NEW c \in Clients, Scan(c)
    PROVE  IInv'
<1>1. /\ task[c] \in Task /\ TypeOK /\ CallOK(task[c]) /\ task[c].pc = "scan"
      /\ task[c].conn \in BOOLEAN /\ active \in 0 .. MaxActive /\ MaxActive \in Nat
  BY OfClient DEF Scan
<1>2. PICK batch \in SUBSET {k \in Matching[task[c].pat] : entries[k] # Absent}, last \in BOOLEAN :
        /\ \A k \in batch : task[c].todo[k] = 0 \/ (k \in Repeated /\ task[c].todo[k] = 1)
        /\ task' = [task EXCEPT
              ![c].pc = IF last THEN "delete" ELSE "scan",
              ![c].todo = [k \in Keys |-> @[k] + Count(k \in batch)]]
        /\ active' = active - Count(last)
  BY DEF Scan
<1>3. UNCHANGED <<entries, sessions, reply>>  BY DEF Scan
<1> DEFINE q == IF last THEN "delete" ELSE "scan"
           l == [k \in Keys |-> task[c].todo[k] + Count(k \in batch)]
           u == [task[c] EXCEPT !.pc = q, !.todo = l]
<1>4. task' = [task EXCEPT ![c] = u]  BY <1>1, <1>2 DEF TypeOK
<1>5. l \in [Keys -> 0 .. 2]
  <2>1. ASSUME NEW k \in Keys PROVE task[c].todo[k] + Count(k \in batch) \in 0 .. 2
    <3>1. task[c].todo[k] \in 0 .. 2  BY <1>1 DEF Task
    <3>2. CASE k \in batch
      <4>1. task[c].todo[k] \in 0 .. 1  BY <1>2, <3>1, <3>2
      <4>2. Count(k \in batch) = 1  BY <3>2 DEF Count
      <4>3. QED  BY <4>1, <4>2
    <3>3. CASE k \notin batch
      <4>1. Count(k \in batch) = 0  BY <3>3 DEF Count
      <4>2. QED  BY <3>1, <4>1
    <3>4. QED  BY <3>2, <3>3
  <2>2. QED  BY <2>1
<1>6. q \in {"delete", "scan"} /\ (q = "scan" <=> ~last)  OBVIOUS
<1> HIDE DEF q, l
<1>7. u \in Task /\ u.pc = q /\ u.conn = task[c].conn /\ u.pat = task[c].pat
  BY <1>1, <1>5, <1>6 DEF Task
<1> HIDE DEF u
<1>8. task[c].pat \in Patterns  BY <1>1 DEF CallOK
<1>9. CallOK(u)  BY <1>6, <1>7, <1>8 DEF CallOK
<1>10. Count(task[c].pc = "scan") = 1 /\ Count(u.pc = "scan") = 1 - Count(last)
       /\ Count(u.conn) = Count(task[c].conn)
  BY <1>1, <1>6, <1>7 DEF Count
<1>11. Count(task[c].conn) \in 0 .. 1 /\ Count(last) \in 0 .. 1  BY <1>1, CountType
<1>12. active' <= MaxActive
       /\ active' = active - Count(task[c].conn) - Count(task[c].pc = "scan")
                           + Count(u.conn) + Count(u.pc = "scan")
  BY <1>1, <1>2, <1>10, <1>11
<1>13. QED  BY <1>3, <1>4, <1>9, <1>12, MoveStep

(* One key of the list is deleted.                                         *)
LEMMA DeleteStep ==
    ASSUME IInv, NEW c \in Clients, Delete(c)
    PROVE  IInv'
<1>1. /\ task[c] \in Task /\ TypeOK /\ CallOK(task[c]) /\ task[c].pc = "delete"
      /\ task[c].conn \in BOOLEAN /\ active \in 0 .. MaxActive /\ MaxActive \in Nat
  BY OfClient DEF Delete
<1>2. PICK k \in {x \in Keys : task[c].todo[x] > 0} :
        Change([entries EXCEPT ![k] = Absent], [task EXCEPT ![c].todo[k] = @ - 1])
  BY DEF Delete
<1>3. UNCHANGED <<active, sessions, reply>>  BY DEF Delete
<1> DEFINE l == [task[c].todo EXCEPT ![k] = @ - 1]
           u == [task[c] EXCEPT !.todo = l]
           new == [entries EXCEPT ![k] = Absent]
<1>4. l \in [Keys -> 0 .. 2]
  <2>1. task[c].todo \in [Keys -> 0 .. 2]  BY <1>1 DEF Task
  <2>2. task[c].todo[k] - 1 \in 0 .. 2  BY <1>2, <2>1
  <2>3. QED  BY <2>1, <2>2
<1>5. [task EXCEPT ![c].todo[k] = @ - 1] = [task EXCEPT ![c] = u]  BY <1>1 DEF TypeOK
<1> HIDE DEF l
<1>6. u \in Task /\ u.pc = "delete" /\ u.conn = task[c].conn /\ u.pat = task[c].pat
  BY <1>1, <1>4 DEF Task
<1>7. new \in [Keys -> Values \union {Absent}]  BY <1>1 DEF TypeOK
<1>8. Change(new, [task EXCEPT ![c] = u])  BY <1>2, <1>5
<1> HIDE DEF u, new
<1>9. CallOK(u)  BY <1>1, <1>6 DEF CallOK
<1>10. /\ task' \in [Clients -> Task] /\ \A b \in Clients : CallOK(task'[b])
       /\ task'[c].conn = u.conn /\ task'[c].pc = u.pc
       /\ \A b \in Clients \ {c} : task'[b].conn = task[b].conn /\ task'[b].pc = task[b].pc
  BY <1>8, <1>9, ChangeStep
<1> DEFINE h == task[c].conn
           s == task[c].pc = "scan"
<1>11. Moved(c, h, s, h, s)  BY <1>1, <1>6, <1>10 DEF Moved
<1>12. h \in BOOLEAN /\ s \in BOOLEAN  BY <1>1
<1> HIDE DEF h, s
<1>13. Count(h) \in 0 .. 1 /\ Count(s) \in 0 .. 1  BY <1>12, CountType
<1>14. active' = active - Count(h) - Count(s) + Count(h) + Count(s) /\ active' <= MaxActive
       /\ sessions' = sessions
  BY <1>1, <1>3, <1>13
<1>15. PoolAccounting' /\ active' \in 0 .. MaxActive  BY <1>11, <1>12, <1>14, PoolStep
<1>16. entries' = new  BY <1>8 DEF Change
<1>17. QED  BY <1>1, <1>3, <1>7, <1>10, <1>15, <1>16 DEF IInv, TypeOK

(* A sweep that fails, or ends.                                            *)
LEMMA SweepEnds ==
    ASSUME IInv, NEW c \in Clients,
           OpenScanFails(c) \/ ScanFails(c) \/ DeleteFails(c) \/ Emptied(c)
    PROVE  IInv'
<1> DEFINE n == Count(task[c].conn)
           m == Count(task[c].pc = "scan")
<1>1. /\ TypeOK /\ CallOK(task[c]) /\ n \in 0 .. 1 /\ (task[c].conn => n = 1)
      /\ m \in 0 .. 1 /\ Held(c) = n
  BY OfClient, CountType DEF Held, Count
<1>2. /\ entries \in [Keys -> Values \union {Absent}] /\ "error" \in Reply /\ "emptied" \in Reply
      /\ \A k \in Keys : [entries EXCEPT ![k] = Absent] \in [Keys -> Values \union {Absent}]
  BY <1>1 DEF TypeOK, Reply
<1>3. /\ task[c].pc = "scan" => m = 1
      /\ task[c].pc # "scan" => m = 0
  BY DEF Count
<1>4. CASE OpenScanFails(c)
  <2>1. task[c].pc = "open" /\ Return(c, entries, Held(c), "error")  BY <1>4 DEF OpenScanFails
  <2>2. Held(c) = n + m
    <3> HIDE DEF n, m
    <3>1. QED  BY <1>1, <1>3, <2>1
  <2>3. QED  BY <1>2, <2>1, <2>2, ReturnStep
<1>5. CASE ScanFails(c)
  <2>1. task[c].pc = "scan" /\ Return(c, entries, Held(c) + 1, "error")  BY <1>5 DEF ScanFails
  <2>2. Held(c) + 1 = n + m
    <3> HIDE DEF n, m
    <3>1. QED  BY <1>1, <1>3, <2>1
  <2>3. QED  BY <1>2, <2>1, <2>2, ReturnStep
<1>6. CASE DeleteFails(c)
  <2>1. /\ task[c].pc = "delete"
        /\ \/ Return(c, entries, Held(c), "error")
           \/ task[c].conn /\ \E k \in Keys : Return(c, [entries EXCEPT ![k] = Absent], 1, "error")
    BY <1>6 DEF DeleteFails
  <2>2. Held(c) = n + m /\ (task[c].conn => 1 = n + m)
    <3> HIDE DEF n, m
    <3>1. QED  BY <1>1, <1>3, <2>1
  <2>3. CASE Return(c, entries, Held(c), "error")  BY <1>2, <2>2, <2>3, ReturnStep
  <2>4. ASSUME task[c].conn, NEW k \in Keys, Return(c, [entries EXCEPT ![k] = Absent], 1, "error")
        PROVE  IInv'
    BY <1>2, <2>2, <2>4, ReturnStep
  <2>5. QED  BY <2>1, <2>3, <2>4
<1>7. CASE Emptied(c)
  <2>1. task[c].pc = "delete" /\ Return(c, entries, Held(c), "emptied")  BY <1>7 DEF Emptied
  <2>2. Held(c) = n + m
    <3> HIDE DEF n, m
    <3>1. QED  BY <1>1, <1>3, <2>1
  <2>3. QED  BY <1>2, <2>1, <2>2, ReturnStep
<1>8. QED  BY <1>4, <1>5, <1>6, <1>7
-----------------------------------------------------------------------------
(* redis drops a key: no operation holds more or less for it.              *)
LEMMA ExpireStep ==
    ASSUME IInv, NEW k \in Keys, Expire(k)
    PROVE  IInv'
<1> DEFINE new == [entries EXCEPT ![k] = Absent]
<1>1. Change(new, task) /\ UNCHANGED <<active, sessions, reply>>  BY DEF Expire
<1>2. new \in [Keys -> Values \union {Absent}]  BY DEF IInv, TypeOK
<1> HIDE DEF new
<1>3. ASSUME NEW b \in Clients
      PROVE  CallOK(task'[b]) /\ task'[b].conn = task[b].conn /\ task'[b].pc = task[b].pc
  <2> DEFINE d == {x \in task[b].due : new[x] # Absent}
  <2>1. d \in SUBSET task[b].due /\ task'[b] = [task[b] EXCEPT !.due = d]  BY <1>1 DEF Change
  <2>2. CallOK(task[b])  BY OfClient
  <2> HIDE DEF d
  <2>3. QED  BY <2>1, <2>2, DueShrinks
<1>4. task' \in [Clients -> Task]  BY <1>1, <1>3 DEF Change, CallOK
<1>5. {c \in Clients : task'[c].conn} = Holding /\ {c \in Clients : task'[c].pc = "scan"} = Scanning
  BY <1>3 DEF Holding, Scanning
<1>6. PoolAccounting'  BY <1>1, <1>5 DEF IInv, PoolAccounting, Holding, Scanning
<1>7. entries' = new  BY <1>1 DEF Change
<1>8. QED  BY <1>1, <1>2, <1>3, <1>4, <1>6, <1>7 DEF IInv, TypeOK

(* The session store takes a connection, or returns one of its own.        *)
LEMMA SessionStep ==
    ASSUME IInv, SessionGet \/ SessionClose
    PROVE  IInv'
<1>1. UNCHANGED <<entries, task, reply>>  BY DEF SessionGet, SessionClose
<1> DEFINE n == Cardinality(Holding)
           m == Cardinality(Scanning)
<1>2. n \in Nat /\ m \in Nat
  <2>1. IsFiniteSet(Holding) /\ IsFiniteSet(Scanning)
    BY ClientsAssumption, FS_Subset DEF ClientsAssumption, Holding, Scanning
  <2>2. QED  BY <2>1, FS_CardinalityType
<1>3. active = sessions + n + m  BY DEF IInv, PoolAccounting, Holding, Scanning
<1>4. active \in 0 .. MaxActive /\ sessions \in 0 .. SessionMax /\ MaxActive \in Nat /\ SessionMax \in Nat
  BY PoolAssumption DEF IInv, TypeOK, PoolAssumption
<1>5. n' = n /\ m' = m  BY <1>1 DEF Holding, Scanning
<1> HIDE DEF n, m
<1>6. active' = sessions' + n + m /\ active' \in 0 .. MaxActive /\ sessions' \in 0 .. SessionMax
  <2>1. CASE SessionGet  BY <1>2, <1>3, <1>4, <2>1 DEF SessionGet, Room
  <2>2. CASE SessionClose  BY <1>2, <1>3, <1>4, <2>2 DEF SessionClose
  <2>3. QED  BY <2>1, <2>2
<1>7. active' = sessions' + n' + m'  BY <1>5, <1>6
<1>8. PoolAccounting'  BY <1>7 DEF PoolAccounting, n, m, Holding, Scanning
<1>9. QED  BY <1>1, <1>6, <1>8 DEF IInv, TypeOK

(* Every step keeps the invariant.                                         *)
LEMMA Step == IInv /\ [Next]_vars => IInv'
<1> SUFFICES ASSUME IInv, [Next]_vars PROVE IInv'
  OBVIOUS
<1>1. ASSUME NEW c \in Clients, Ask(c) PROVE IInv'
  <2>1. "set" \in Command /\ "get" \in Command /\ "forget" \in Command  BY DEF Command
  <2>2. CASE SaveInCache(c)  BY <2>1, <2>2, CallStep DEF SaveInCache
  <2>3. CASE GetFromCache(c)  BY <2>1, <2>3, CallStep DEF GetFromCache
  <2>4. CASE DeleteFromCache(c)  BY <2>1, <2>4, CallStep DEF DeleteFromCache
  <2>5. CASE EmptyCache(c)  BY <2>5, SweepStep DEF EmptyCache
  <2>6. QED  BY <1>1, <2>2, <2>3, <2>4, <2>5 DEF Ask
<1>2. ASSUME NEW c \in Clients, Do(c) \/ DoFails(c) PROVE IInv'
  BY <1>2, DoStep
<1>3. ASSUME NEW c \in Clients, Sweep(c) PROVE IInv'
  BY <1>3, OpenScanStep, ScanStep, DeleteStep, SweepEnds DEF Sweep
<1>4. ASSUME NEW k \in Keys, Expire(k) PROVE IInv'
  BY <1>4, ExpireStep
<1>5. CASE SessionGet \/ SessionClose  BY <1>5, SessionStep
<1>6. CASE UNCHANGED vars
  BY <1>6 DEF vars, IInv, TypeOK, PoolAccounting
<1>7. QED  BY <1>1, <1>2, <1>3, <1>4, <1>5, <1>6 DEF Next

(* At the start nothing is held.                                           *)
LEMMA Beginning == Init => IInv
<1> SUFFICES ASSUME Init PROVE IInv
  OBVIOUS
<1>1. \A c \in Clients : CallOK(task[c]) /\ ~task[c].conn /\ task[c].pc # "scan"
  BY IdleOK DEF Init
<1>2. TypeOK
  <2>1. entries \in [Keys -> Values \union {Absent}]  BY DEF Init
  <2>2. task \in [Clients -> Task]
    <3>1. Idle \in Task  BY IdleOK DEF CallOK
    <3>2. QED  BY <3>1 DEF Init
  <2>3. active \in 0 .. MaxActive /\ sessions \in 0 .. SessionMax
    BY PoolAssumption DEF Init, PoolAssumption
  <2>4. reply \in [Clients -> Reply]  BY DEF Init, Reply
  <2>5. QED  BY <2>1, <2>2, <2>3, <2>4 DEF TypeOK
<1>3. {c \in Clients : task[c].conn} = {} /\ {c \in Clients : task[c].pc = "scan"} = {}
  BY <1>1
<1>4. Cardinality({}) = 0  BY FS_EmptySet
<1>5. PoolAccounting  BY <1>3, <1>4 DEF Init, PoolAccounting
<1>6. QED  BY <1>1, <1>2, <1>5 DEF IInv

(* The invariant holds in every state of the cache.                        *)
THEOREM Invariant == Spec => []IInv
<1>1. Init => IInv  BY Beginning
<1>2. IInv /\ [Next]_vars => IInv'  BY Step
<1>3. QED  BY <1>1, <1>2, PTL DEF Spec

(* The cache is type correct: the pool never has more connections in use   *)
(* than its size, and a list never has a key more than twice.              *)
THEOREM Types == Spec => []TypeOK
<1>1. IInv => TypeOK  BY DEF IInv
<1>2. QED  BY <1>1, Invariant, PTL

(* What the pool counts is what the operations and the session store hold: *)
(* no path of an operation, failed or not, leaks a connection.             *)
THEOREM Pool == Spec => []PoolAccounting
<1>1. IInv => PoolAccounting  BY DEF IInv
<1>2. QED  BY <1>1, Invariant, PTL
-----------------------------------------------------------------------------
(* The cache implements CacheSpec.  The list of getKeys is within the      *)
(* pattern and, once complete, has every key that the sweep must still see *)
(* gone; those keys are there, for whoever removes a key clears the debt.  *)
Listed(t) == {k \in Keys : t.todo[k] > 0}
Orderly(t) ==
    /\ t.pc = "command" /\ t.op = "set" => t.val \in Values
    /\ t.pc \in {"idle", "command", "open"} => Listed(t) = {}
    /\ t.pc \in {"scan", "delete"} => Listed(t) \subseteq Matching[t.pat]
    /\ t.pc = "delete" => t.due \subseteq Listed(t)
Debts == \A c \in Clients : Orderly(task[c]) /\ \A k \in task[c].due : entries[k] # Absent

(* What CacheSpec sees of an operation, and of a change.                   *)
View(t) == IF t.pc \in {"scan", "delete"} THEN [pat |-> t.pat, due |-> t.due]
           ELSE [pat |-> Absent, due |-> {}]
Shown == [c \in Clients |-> IF task[c].pc \in {"scan", "delete"}
                           THEN [pat |-> task[c].pat, due |-> task[c].due]
                           ELSE [pat |-> Absent, due |-> {}]]
Seen(new) ==
    /\ entries' = new
    /\ Shown' = [c \in Clients |-> [Shown[c] EXCEPT !.due = {k \in @ : new[k] # Absent}]]

(* The view of one client, before a step and after.                        *)
LEMMA Views ==
    /\ Shown = [c \in Clients |-> View(task[c])]
    /\ Shown' = [c \in Clients |-> View(task'[c])]
BY DEF Shown, View

(* CacheSpec sees a sweep from its first SCAN to its end.                  *)
LEMMA WhoSweeps ==
    ASSUME IInv, NEW c \in Clients
    PROVE  (task[c].pc \in {"scan", "delete"}) <=> Abstract!Sweeping(c)
<1>1. CallOK(task[c]) /\ Absent \notin Patterns
  BY OfClient, AbsentAssumption DEF AbsentAssumption
<1>2. CASE task[c].pc \in {"scan", "delete"}
  <2>1. task[c].pat # Absent  BY <1>1, <1>2 DEF CallOK
  <2>2. QED  BY <1>2, <2>1 DEF Abstract!Sweeping, Abstract!NoSweep
<1>3. CASE task[c].pc \notin {"scan", "delete"}
  BY <1>3 DEF Abstract!Sweeping, Abstract!NoSweep
<1>4. QED  BY <1>2, <1>3

(* What a change of redis leaves of each operation.                        *)
LEMMA ChangeLeaves ==
    ASSUME NEW new, NEW tasks \in [Clients -> Task], Change(new, tasks), NEW c \in Clients
    PROVE  /\ task'[c].pc = tasks[c].pc /\ task'[c].pat = tasks[c].pat
           /\ task'[c].op = tasks[c].op /\ task'[c].val = tasks[c].val
           /\ task'[c].todo = tasks[c].todo
           /\ task'[c].due = {k \in tasks[c].due : new[k] # Absent}
<1>1. task'[c] = [tasks[c] EXCEPT !.due = {k \in tasks[c].due : new[k] # Absent}]
  BY DEF Change
<1>2. tasks[c] \in Task  OBVIOUS
<1>3. QED  BY <1>1, <1>2 DEF Task

(* An operation that owes less is as orderly as before.                    *)
LEMMA StillOrderly ==
    ASSUME NEW t, NEW u, Orderly(t), u.pc = t.pc, u.pat = t.pat, u.op = t.op, u.val = t.val,
           u.todo = t.todo, u.due \subseteq t.due
    PROVE  Orderly(u)
<1>1. Listed(u) = Listed(t)  BY DEF Listed
<1>2. QED  BY <1>1 DEF Orderly

(* A change while the operations stay: what is gone is owed by none.       *)
LEMMA ChangeShown ==
    ASSUME IInv, Debts, NEW new, Change(new, task)
    PROVE  Seen(new) /\ Debts'
<1>1. task \in [Clients -> Task] /\ entries' = new  BY DEF IInv, TypeOK, Change
<1>2. \A c \in Clients :
        /\ task'[c].pc = task[c].pc /\ task'[c].pat = task[c].pat
        /\ task'[c].op = task[c].op /\ task'[c].val = task[c].val /\ task'[c].todo = task[c].todo
        /\ task'[c].due = {k \in task[c].due : new[k] # Absent}
  BY <1>1, ChangeLeaves
<1>3. Seen(new)  BY <1>1, <1>2 DEF Seen, Shown, View
<1>4. ASSUME NEW c \in Clients
      PROVE  Orderly(task'[c]) /\ \A k \in task'[c].due : entries'[k] # Absent
  <2>1. Orderly(task[c])  BY DEF Debts
  <2>2. Orderly(task'[c])  BY <1>2, <2>1, StillOrderly
  <2>3. QED  BY <1>1, <1>2, <2>2
<1>5. QED  BY <1>3, <1>4 DEF Debts

(* An operation that returns: CacheSpec sees the change and the answer,    *)
(* and the end of the sweep if it was one.                                 *)
LEMMA ReturnShown ==
    ASSUME IInv, Debts, NEW c \in Clients, NEW new, NEW conns, NEW r, Return(c, new, conns, r)
    PROVE  /\ entries' = new /\ reply' = [reply EXCEPT ![c] = r] /\ Debts'
           /\ Shown' = [b \in Clients |-> IF b = c THEN [pat |-> Absent, due |-> {}]
                          ELSE [Shown[b] EXCEPT !.due = {k \in @ : new[k] # Absent}]]
           /\ task[c].pc \notin {"scan", "delete"} => Seen(new)
<1> DEFINE tasks == [task EXCEPT ![c] = Idle]
<1>1. Change(new, tasks) /\ entries' = new /\ reply' = [reply EXCEPT ![c] = r]
  BY DEF Return, Change
<1>2. Idle \in Task /\ Idle.pc = "idle" /\ Idle.due = {} /\ Orderly(Idle)
  BY IdleOK DEF Idle, CallOK, Orderly, Listed
<1>3. task \in [Clients -> Task]  BY DEF IInv, TypeOK
<1>4. tasks \in [Clients -> Task] /\ tasks[c] = Idle /\ \A b \in Clients \ {c} : tasks[b] = task[b]
  BY <1>2, <1>3
<1> HIDE DEF tasks
<1>5. \A b \in Clients :
        /\ task'[b].pc = tasks[b].pc /\ task'[b].pat = tasks[b].pat
        /\ task'[b].op = tasks[b].op /\ task'[b].val = tasks[b].val /\ task'[b].todo = tasks[b].todo
        /\ task'[b].due = {k \in tasks[b].due : new[k] # Absent}
  BY <1>1, <1>4, ChangeLeaves
<1>6. Shown' = [b \in Clients |-> IF b = c THEN [pat |-> Absent, due |-> {}]
                  ELSE [Shown[b] EXCEPT !.due = {k \in @ : new[k] # Absent}]]
  <2>1. View(task'[c]) = [pat |-> Absent, due |-> {}]  BY <1>2, <1>4, <1>5 DEF View
  <2>2. ASSUME NEW b \in Clients \ {c}
        PROVE  View(task'[b]) = [View(task[b]) EXCEPT !.due = {k \in @ : new[k] # Absent}]
    <3>1. /\ task'[b].pc = task[b].pc /\ task'[b].pat = task[b].pat
          /\ task'[b].due = {k \in task[b].due : new[k] # Absent}
      BY <1>4, <1>5
    <3>2. CASE task[b].pc \in {"scan", "delete"}  BY <3>1, <3>2 DEF View
    <3>3. CASE task[b].pc \notin {"scan", "delete"}  BY <3>1, <3>3 DEF View
    <3>4. QED  BY <3>2, <3>3
  <2>3. QED  BY <2>1, <2>2, Views
<1>7. ASSUME NEW b \in Clients
      PROVE  Orderly(task'[b]) /\ \A k \in task'[b].due : entries'[k] # Absent
  <2>1. Orderly(tasks[b])  BY <1>2, <1>4 DEF Debts
  <2>2. Orderly(task'[b])  BY <1>5, <2>1, StillOrderly
  <2>3. QED  BY <1>1, <1>5, <2>2
<1>8. ASSUME task[c].pc \notin {"scan", "delete"} PROVE Seen(new)
  <2>1. Shown[c] = [pat |-> Absent, due |-> {}]  BY <1>8 DEF Shown
  <2>2. [Shown[c] EXCEPT !.due = {k \in @ : new[k] # Absent}] = [pat |-> Absent, due |-> {}]
    BY <2>1
  <2>3. Shown' = [b \in Clients |-> [Shown[b] EXCEPT !.due = {k \in @ : new[k] # Absent}]]
    BY <1>6, <2>2
  <2>4. QED  BY <1>1, <2>3 DEF Seen
<1>9. QED  BY <1>1, <1>6, <1>7, <1>8 DEF Debts

(* What is owed is there, so that no change leaves the view as it is.      *)
LEMMA NoChange ==
    ASSUME IInv, Debts, Seen(entries)
    PROVE  entries' = entries /\ Shown' = Shown
<1>1. ASSUME NEW c \in Clients
      PROVE  [Shown[c] EXCEPT !.due = {k \in @ : entries[k] # Absent}] = Shown[c]
  <2>1. \A k \in View(task[c]).due : entries[k] # Absent  BY DEF Debts, View
  <2>2. {k \in View(task[c]).due : entries[k] # Absent} = View(task[c]).due  BY <2>1
  <2>3. QED  BY <2>2, Views DEF View
<1>2. QED  BY <1>1 DEF Seen, Shown

(* An operation goes on while redis is left alone.                         *)
LEMMA MoveShown ==
    ASSUME IInv, Debts, NEW c \in Clients, NEW u, task' = [task EXCEPT ![c] = u],
           entries' = entries, Orderly(u), \A k \in u.due : entries[k] # Absent
    PROVE  Debts' /\ Shown' = [Shown EXCEPT ![c] = View(u)]
<1>1. task \in [Clients -> Task]  BY DEF IInv, TypeOK
<1>2. task'[c] = u /\ \A b \in Clients \ {c} : task'[b] = task[b]  BY <1>1
<1>3. ASSUME NEW b \in Clients
      PROVE  Orderly(task'[b]) /\ \A k \in task'[b].due : entries'[k] # Absent
  BY <1>2 DEF Debts
<1>4. Shown' = [Shown EXCEPT ![c] = View(u)]
  <2>1. Shown' = [b \in Clients |-> View(task'[b])]  BY Views
  <2>2. \A b \in Clients : View(task'[b]) = IF b = c THEN View(u) ELSE Shown[b]
    BY <1>2, Views
  <2>3. Shown \in [Clients -> {View(task[b]) : b \in Clients}]  BY Views
  <2>4. QED  BY <2>1, <2>2, <2>3
<1>5. QED  BY <1>3, <1>4 DEF Debts

(* An operation of one command, as CacheSpec sees its end: carried out, or *)
(* not, with or without the answer.                                        *)
LEMMA DoRefines ==
    ASSUME IInv, Debts, NEW c \in Clients, Do(c) \/ DoFails(c)
    PROVE  Abstract!Next /\ Debts'
<1> DEFINE t == task[c]
<1>1. /\ TypeOK /\ CallOK(t) /\ t.pc = "command" /\ t.key \in Keys /\ t.op \in Command
      /\ Orderly(t) /\ ~Abstract!Sweeping(c)
  <2>1. t.pc = "command"  BY DEF Do, DoFails
  <2>2. TypeOK /\ CallOK(t) /\ t \in Task  BY OfClient
  <2>3. Orderly(t)  BY DEF Debts
  <2>4. ~Abstract!Sweeping(c)  BY <2>1, WhoSweeps
  <2>5. QED  BY <2>1, <2>2, <2>3, <2>4 DEF CallOK, Task
<1>2. entries \in [Keys -> Values \union {Absent}]  BY <1>1 DEF TypeOK
<1>3. PICK new, conns, r :
        /\ Return(c, new, conns, r)
        /\ \/ new = Effect(t) /\ r = Outcome(t)
           \/ new = Effect(t) /\ r = "error"
           \/ new = entries /\ r = "error"
  BY DEF Do, DoFails
<1>4. Debts' /\ Seen(new) /\ reply' = [reply EXCEPT ![c] = r]
  BY <1>1, <1>3, ReturnShown
<1> HIDE DEF t
<1>k. PICK k \in Keys : k = t.key  BY <1>1
<1>v. PICK v : v = t.val  OBVIOUS
<1>5. CASE new = entries /\ (r = "error" \/ r = entries[t.key])
  <2>1. entries' = entries /\ Shown' = Shown  BY <1>4, <1>5, NoChange
  <2>2. Abstract!Fail(c) \/ Abstract!Get(c, k)
    BY <1>k, <1>v, <1>1, <1>4, <1>5, <2>1 DEF Abstract!Fail, Abstract!Get, Abstract!Answer, Shown
  <2>3. QED  BY <1>1, <1>4, <2>2 DEF Abstract!Next
<1>6. CASE t.op = "get"
  <2>1. Effect(t) = entries /\ Outcome(t) = entries[t.key]  BY <1>6 DEF Effect, Outcome
  <2>2. QED  BY <1>3, <1>5, <2>1
<1>7. CASE t.op = "set" /\ ~(new = entries /\ r = "error")
  <2>1. v \in Values  BY <1>k, <1>v, <1>1, <1>7 DEF Orderly
  <2>2. new = [entries EXCEPT ![k] = v] /\ r \in {"saved", "error"}
    BY <1>k, <1>v, <1>3, <1>7 DEF Effect, Outcome
  <2>3. Seen([entries EXCEPT ![k] = v])  BY <1>4, <2>2
  <2>4. Abstract!Set(c, k, v)
    BY <1>1, <1>4, <2>2, <2>3 DEF Abstract!Set, Abstract!Change, Abstract!Answer, Seen, Shown
  <2>5. QED  BY <1>4, <2>1, <2>4 DEF Abstract!Next
<1>8. CASE t.op = "forget" /\ ~(new = entries /\ r = "error")
  <2>1. new = [entries EXCEPT ![k] = Absent] /\ r \in {"forgotten", "error"}
    BY <1>k, <1>v, <1>3, <1>8 DEF Effect, Outcome
  <2>2. new = [x \in Keys |-> IF x \in {k} THEN Absent ELSE entries[x]]
    BY <1>2, <2>1
  <2>3. Seen([x \in Keys |-> IF x \in {k} THEN Absent ELSE entries[x]])  BY <1>4, <2>2
  <2>4. Abstract!Forget(c, k)
    BY <1>1, <1>4, <2>1, <2>3 DEF Abstract!Forget, Abstract!Change, Abstract!Without,
         Abstract!Answer, Seen, Shown
  <2>5. QED  BY <1>4, <2>4 DEF Abstract!Next
<1>9. QED  BY <1>1, <1>5, <1>6, <1>7, <1>8 DEF Command

(* CacheSpec sees nothing of an operation that begins, nor of a sweep that *)
(* takes its first connection.                                             *)
LEMMA AskRefines ==
    ASSUME IInv, Debts, NEW c \in Clients, Ask(c)
    PROVE  UNCHANGED <<entries, Shown, reply>> /\ Debts'
<1>1. /\ task \in [Clients -> Task] /\ task[c] \in Task /\ task[c].pc = "idle" /\ Orderly(task[c])
      /\ \A k \in task[c].due : entries[k] # Absent
  <2>1. task[c].pc = "idle"
    BY DEF Ask, SaveInCache, GetFromCache, DeleteFromCache, EmptyCache, Call, EmptyByMatch
  <2>2. task \in [Clients -> Task]  BY DEF IInv, TypeOK
  <2>3. QED  BY <2>1, <2>2 DEF Debts
<1>2. ASSUME NEW u, task' = [task EXCEPT ![c] = u], UNCHANGED <<entries, reply>>,
             u.pc \in {"command", "open"}, u.todo = task[c].todo, u.due = task[c].due,
             u.pc = "command" /\ u.op = "set" => u.val \in Values
      PROVE  UNCHANGED <<entries, Shown, reply>> /\ Debts'
  <2>1. Orderly(u)  BY <1>1, <1>2 DEF Orderly, Listed
  <2>2. Debts' /\ Shown' = [Shown EXCEPT ![c] = View(u)]  BY <1>1, <1>2, <2>1, MoveShown
  <2>3. View(u) = Shown[c]  BY <1>1, <1>2, Views DEF View
  <2>4. Shown' = Shown  BY <2>2, <2>3 DEF Shown
  <2>5. QED  BY <1>2, <2>2, <2>4
<1>3. ASSUME NEW op \in Command, NEW k, NEW v, Call(c, op, k, v), op = "set" => v \in Values
      PROVE  UNCHANGED <<entries, Shown, reply>> /\ Debts'
  <2> DEFINE r == Room
             u == [task[c] EXCEPT !.pc = "command", !.conn = r, !.op = op, !.key = k, !.val = v]
  <2>1. task' = [task EXCEPT ![c] = u] /\ UNCHANGED <<entries, reply>>
    BY <1>1, <1>3 DEF Call
  <2> HIDE DEF r
  <2>2. u.pc = "command" /\ u.op = op /\ u.val = v /\ u.todo = task[c].todo /\ u.due = task[c].due
    BY <1>1 DEF Task
  <2> HIDE DEF u
  <2>3. QED  BY <1>2, <1>3, <2>1, <2>2
<1>4. ASSUME NEW p, EmptyByMatch(c, p)
      PROVE  UNCHANGED <<entries, Shown, reply>> /\ Debts'
  <2> DEFINE r == Room
             u == [task[c] EXCEPT !.pc = "open", !.conn = r, !.pat = p]
  <2>1. task' = [task EXCEPT ![c] = u] /\ UNCHANGED <<entries, reply>>
    BY <1>1, <1>4 DEF EmptyByMatch
  <2> HIDE DEF r
  <2>2. u.pc = "open" /\ u.todo = task[c].todo /\ u.due = task[c].due
    BY <1>1 DEF Task
  <2> HIDE DEF u
  <2>3. QED  BY <1>2, <2>1, <2>2
<1>5. "set" \in Command /\ "get" \in Command /\ "forget" \in Command  BY DEF Command
<1>6. QED  BY <1>3, <1>4, <1>5 DEF Ask, SaveInCache, GetFromCache, DeleteFromCache, EmptyCache

(* With its second connection a sweep begins, owing what is there now.     *)
LEMMA OpenScanRefines ==
    ASSUME IInv, Debts, NEW c \in Clients, OpenScan(c)
    PROVE  Abstract!Next /\ Debts'
<1> DEFINE d == {k \in Matching[task[c].pat] : entries[k] # Absent}
           u == [task[c] EXCEPT !.pc = "scan", !.due = d]
<1>1. /\ task \in [Clients -> Task] /\ task[c] \in Task /\ task[c].pc = "open"
      /\ CallOK(task[c]) /\ Orderly(task[c])
  BY OfClient DEF OpenScan, IInv, TypeOK, Debts
<1>2. task[c].pat \in Patterns /\ ~Abstract!Sweeping(c)  BY <1>1, WhoSweeps DEF CallOK
<1>3. task' = [task EXCEPT ![c] = u] /\ UNCHANGED <<entries, reply>>
  BY <1>1 DEF OpenScan
<1>4. u.pc = "scan" /\ u.todo = task[c].todo /\ u.due = d /\ u.pat = task[c].pat
  BY <1>1 DEF Task
<1> HIDE DEF u
<1>5. Orderly(u)  BY <1>1, <1>4 DEF Orderly, Listed
<1>6. \A k \in u.due : entries[k] # Absent  BY <1>4
<1>7. Debts' /\ Shown' = [Shown EXCEPT ![c] = View(u)]
  BY <1>3, <1>5, <1>6, MoveShown
<1>8. View(u) = [pat |-> task[c].pat, due |-> d]  BY <1>4 DEF View
<1>9. PICK p \in Patterns : p = task[c].pat  BY <1>2
<1>10. Abstract!Begin(c, p)
  <2>1. Shown' = [Shown EXCEPT ![c] = [pat |-> p, due |-> {k \in Matching[p] : entries[k] # Absent}]]
    BY <1>7, <1>8, <1>9
  <2>2. QED  BY <1>2, <1>3, <2>1 DEF Abstract!Begin, Shown
<1>11. QED  BY <1>7, <1>10 DEF Abstract!Next

(* CacheSpec does not see the list of getKeys grow.  The last SCAN has     *)
(* listed all that the sweep owes.                                         *)
LEMMA ScanRefines ==
    ASSUME IInv, Debts, NEW c \in Clients, Scan(c)
    PROVE  UNCHANGED <<entries, Shown, reply>> /\ Debts'
<1>1. /\ task \in [Clients -> Task] /\ task[c] \in Task /\ task[c].pc = "scan"
      /\ CallOK(task[c]) /\ Orderly(task[c]) /\ \A k \in task[c].due : entries[k] # Absent
  BY OfClient DEF Scan, IInv, TypeOK, Debts
<1>2. PICK batch \in SUBSET {k \in Matching[task[c].pat] : entries[k] # Absent}, last \in BOOLEAN :
        /\ last => task[c].due \subseteq {k \in Keys : task[c].todo[k] > 0} \union batch
        /\ task' = [task EXCEPT
              ![c].pc = IF last THEN "delete" ELSE "scan",
              ![c].todo = [k \in Keys |-> @[k] + Count(k \in batch)]]
  BY DEF Scan
<1>3. UNCHANGED <<entries, reply>>  BY DEF Scan
<1> DEFINE q == IF last THEN "delete" ELSE "scan"
           l == [k \in Keys |-> task[c].todo[k] + Count(k \in batch)]
           u == [task[c] EXCEPT !.pc = q, !.todo = l]
<1>4. task' = [task EXCEPT ![c] = u]  BY <1>1, <1>2
<1>5. \A k \in Keys : l[k] > 0 <=> (task[c].todo[k] > 0 \/ k \in batch)
  <2>1. ASSUME NEW k \in Keys PROVE l[k] > 0 <=> (task[c].todo[k] > 0 \/ k \in batch)
    <3>1. task[c].todo[k] \in 0 .. 2  BY <1>1 DEF Task
    <3>2. CASE k \in batch
      <4>1. Count(k \in batch) = 1  BY <3>2 DEF Count
      <4>2. QED  BY <3>1, <3>2, <4>1
    <3>3. CASE k \notin batch
      <4>1. Count(k \in batch) = 0  BY <3>3 DEF Count
      <4>2. QED  BY <3>1, <3>3, <4>1
    <3>4. QED  BY <3>2, <3>3
  <2>2. QED  BY <2>1
<1>6. q \in {"delete", "scan"} /\ (q = "delete" <=> last)  OBVIOUS
<1>7. task[c].pat \in Patterns  BY <1>1 DEF CallOK
<1>8. batch \subseteq Keys  BY <1>2, <1>7, MatchingAssumption DEF MatchingAssumption
<1> HIDE DEF q, l
<1>9. u.pc = q /\ u.todo = l /\ u.due = task[c].due /\ u.pat = task[c].pat
  BY <1>1 DEF Task
<1> HIDE DEF u
<1>10. Listed(u) = Listed(task[c]) \union batch  BY <1>5, <1>8, <1>9 DEF Listed
<1>11. Listed(task[c]) \subseteq Matching[task[c].pat]  BY <1>1 DEF Orderly
<1>12. last => task[c].due \subseteq Listed(u)  BY <1>2, <1>10 DEF Listed
<1>13. Orderly(u)  BY <1>2, <1>6, <1>9, <1>10, <1>11, <1>12 DEF Orderly
<1>14. Debts' /\ Shown' = [Shown EXCEPT ![c] = View(u)]
  BY <1>1, <1>3, <1>4, <1>9, <1>13, MoveShown
<1>15. View(u) = Shown[c]  BY <1>1, <1>6, <1>9, Views DEF View
<1>16. Shown' = Shown  BY <1>14, <1>15 DEF Shown
<1>17. QED  BY <1>3, <1>14, <1>16

(* DEL of a key that was listed: the sweep owes it no more.                *)
LEMMA DeleteRefines ==
    ASSUME IInv, Debts, NEW c \in Clients, Delete(c)
    PROVE  Abstract!Next /\ Debts'
<1>1. /\ task \in [Clients -> Task] /\ task[c] \in Task /\ task[c].pc = "delete"
      /\ Orderly(task[c]) /\ entries \in [Keys -> Values \union {Absent}]
      /\ Abstract!Sweeping(c)
  BY WhoSweeps DEF Delete, IInv, TypeOK, Debts
<1>2. PICK k \in {x \in Keys : task[c].todo[x] > 0} :
        Change([entries EXCEPT ![k] = Absent], [task EXCEPT ![c].todo[k] = @ - 1])
  BY DEF Delete
<1>3. reply' = reply  BY DEF Delete
<1>4. k \in Listed(task[c]) /\ k \in Keys  BY <1>2 DEF Listed
<1>5. k \in Matching[task[c].pat]  BY <1>1, <1>4 DEF Orderly
<1> DEFINE l == [task[c].todo EXCEPT ![k] = @ - 1]
           u == [task[c] EXCEPT !.todo = l]
           tasks == [task EXCEPT ![c] = u]
           new == [x \in Keys |-> IF x \in {k} THEN Absent ELSE entries[x]]
<1>6. l \in [Keys -> 0 .. 2] /\ \A x \in Keys \ {k} : l[x] = task[c].todo[x]
  <2>1. task[c].todo \in [Keys -> 0 .. 2]  BY <1>1 DEF Task
  <2>2. task[c].todo[k] - 1 \in 0 .. 2  BY <1>2, <2>1
  <2>3. QED  BY <1>4, <2>1, <2>2
<1>7. new = [entries EXCEPT ![k] = Absent]  BY <1>1, <1>4
<1>8. tasks = [task EXCEPT ![c].todo[k] = @ - 1]  BY <1>1
<1>9. Change(new, tasks)  BY <1>2, <1>7, <1>8
<1> HIDE DEF l
<1>10. u \in Task /\ u.pc = "delete" /\ u.pat = task[c].pat /\ u.todo = l /\ u.due = task[c].due
       /\ u.op = task[c].op /\ u.val = task[c].val
  BY <1>1, <1>6 DEF Task
<1> HIDE DEF u
<1>11. tasks \in [Clients -> Task] /\ tasks[c] = u /\ \A b \in Clients \ {c} : tasks[b] = task[b]
  BY <1>1, <1>10
<1> HIDE DEF tasks, new
<1>12. \A b \in Clients :
         /\ task'[b].pc = tasks[b].pc /\ task'[b].pat = tasks[b].pat
         /\ task'[b].op = tasks[b].op /\ task'[b].val = tasks[b].val /\ task'[b].todo = tasks[b].todo
         /\ task'[b].due = {x \in tasks[b].due : new[x] # Absent}
  BY <1>9, <1>11, ChangeLeaves
<1>13. entries' = new  BY <1>9 DEF Change
<1>14. Seen(new)
  <2>1. \A b \in Clients : /\ task'[b].pc = task[b].pc /\ task'[b].pat = task[b].pat
                           /\ task'[b].due = {x \in task[b].due : new[x] # Absent}
    BY <1>1, <1>10, <1>11, <1>12
  <2>2. QED  BY <1>13, <2>1 DEF Seen, Shown
<1>15. ASSUME NEW b \in Clients
       PROVE  Orderly(task'[b]) /\ \A x \in task'[b].due : entries'[x] # Absent
  <2>1. \A x \in task'[b].due : entries'[x] # Absent  BY <1>12, <1>13
  <2>2. CASE b # c
    <3>1. Orderly(task[b]) /\ tasks[b] = task[b]  BY <1>11, <2>2 DEF Debts
    <3>2. QED  BY <1>12, <2>1, <3>1, StillOrderly
  <2>3. CASE b = c
    <3>1. /\ task'[c].pc = "delete" /\ task'[c].pat = task[c].pat /\ task'[c].todo = l
          /\ task'[c].due \subseteq task[c].due /\ k \notin task'[c].due
      <4>1. task'[c].due = {x \in task[c].due : new[x] # Absent}  BY <1>10, <1>11, <1>12
      <4>2. new[k] = Absent  BY <1>4 DEF new
      <4>3. QED  BY <1>10, <1>11, <1>12, <4>1, <4>2
    <3>2. Listed(task'[c]) \subseteq Listed(task[c]) /\ Listed(task[c]) \ {k} \subseteq Listed(task'[c])
      BY <1>4, <1>6, <3>1 DEF Listed
    <3>3. Listed(task[c]) \subseteq Matching[task[c].pat] /\ task[c].due \subseteq Listed(task[c])
      BY <1>1 DEF Orderly
    <3>4. Orderly(task'[c])  BY <3>1, <3>2, <3>3 DEF Orderly
    <3>5. QED  BY <2>1, <2>3, <3>4
  <2>4. QED  BY <2>2, <2>3
<1>16. Abstract!Remove(c, {k})
  <2>1. Shown[c].pat = task[c].pat  BY <1>1 DEF Shown
  <2>2. {k} \subseteq Matching[Shown[c].pat]  BY <1>5, <2>1
  <2>3. Seen([x \in Keys |-> IF x \in {k} THEN Absent ELSE entries[x]])  BY <1>14 DEF new
  <2>4. QED  BY <1>1, <1>3, <2>2, <2>3 DEF Abstract!Remove, Abstract!Change, Abstract!Without,
             Seen, Shown
<1>17. QED  BY <1>4, <1>15, <1>16 DEF Abstract!Next, Debts

(* A sweep that returns, having deleted gone with its last command.        *)
LEMMA EndRefines ==
    ASSUME IInv, Debts, NEW c \in Clients, task[c].pc \in {"scan", "delete"},
           NEW gone \in SUBSET Keys, gone \subseteq Matching[task[c].pat],
           NEW new, \A k \in Keys : new[k] = (IF k \in gone THEN Absent ELSE entries[k]),
           DOMAIN new = Keys, new = [k \in Keys |-> new[k]],
           NEW conns, NEW r \in {"emptied", "error"},
           r = "emptied" => task[c].due \subseteq gone, Return(c, new, conns, r)
    PROVE  Abstract!Next /\ Debts'
<1>1. Abstract!Sweeping(c) /\ task \in [Clients -> Task]  BY WhoSweeps DEF IInv, TypeOK
<1>2. /\ entries' = new /\ reply' = [reply EXCEPT ![c] = r] /\ Debts'
      /\ Shown' = [b \in Clients |-> IF b = c THEN [pat |-> Absent, due |-> {}]
                     ELSE [Shown[b] EXCEPT !.due = {k \in @ : new[k] # Absent}]]
  BY ReturnShown
<1>3. entries' = [k \in Keys |-> IF k \in gone THEN Absent ELSE entries[k]]  BY <1>2
<1>4. Shown' = [b \in Clients |-> IF b = c THEN [pat |-> Absent, due |-> {}]
                  ELSE [Shown[b] EXCEPT !.due = @ \ gone]]
  <2>1. ASSUME NEW b \in Clients
        PROVE  [Shown[b] EXCEPT !.due = {k \in @ : new[k] # Absent}] = [Shown[b] EXCEPT !.due = @ \ gone]
    <3>1. task[b].due \subseteq Keys /\ \A k \in task[b].due : entries[k] # Absent
      BY <1>1 DEF Debts, Task
    <3>2. View(task[b]).due \subseteq task[b].due  BY DEF View
    <3>3. {k \in View(task[b]).due : new[k] # Absent} = View(task[b]).due \ gone
      BY <3>1, <3>2
    <3>4. QED  BY <3>3, Views
  <2>2. QED  BY <1>2, <2>1
<1>5. Shown[c].pat = task[c].pat /\ Shown[c].due = task[c].due  BY DEF Shown
<1>6. gone \subseteq Matching[Shown[c].pat] /\ (r = "emptied" => Shown[c].due \subseteq gone)
  BY <1>5
<1>7. Abstract!Finish(c, gone, r)
  BY <1>1, <1>2, <1>3, <1>4, <1>6 DEF Abstract!Finish, Abstract!NoSweep, Abstract!Answer,
       Abstract!Without, Shown
<1>8. QED  BY <1>2, <1>7 DEF Abstract!Next

(* Every way in which a sweep returns.                                     *)
LEMMA SweepEndsRefine ==
    ASSUME IInv, Debts, NEW c \in Clients,
           OpenScanFails(c) \/ ScanFails(c) \/ DeleteFails(c) \/ Emptied(c)
    PROVE  Abstract!Next /\ Debts'
<1>1. /\ task \in [Clients -> Task] /\ task[c] \in Task /\ Orderly(task[c])
      /\ entries \in [Keys -> Values \union {Absent}]
  BY DEF IInv, TypeOK, Debts
<1>2. CASE OpenScanFails(c)
  <2>1. task[c].pc = "open" /\ Return(c, entries, Held(c), "error")  BY <1>2 DEF OpenScanFails
  <2>2. ~Abstract!Sweeping(c)  BY <2>1, WhoSweeps
  <2>3. Debts' /\ Seen(entries) /\ reply' = [reply EXCEPT ![c] = "error"]
    BY <2>1, ReturnShown
  <2>4. entries' = entries /\ Shown' = Shown  BY <2>3, NoChange
  <2>5. Abstract!Fail(c)  BY <2>2, <2>3, <2>4 DEF Abstract!Fail, Abstract!Answer, Shown
  <2>6. QED  BY <2>3, <2>5 DEF Abstract!Next
<1>3. ASSUME NEW conns, NEW r \in {"emptied", "error"}, Return(c, entries, conns, r),
             task[c].pc \in {"scan", "delete"}, r = "emptied" => task[c].due = {}
      PROVE  Abstract!Next /\ Debts'
  <2>1. PICK new : new = entries  OBVIOUS
  <2>2. /\ \A k \in Keys : new[k] = (IF k \in {} THEN Absent ELSE entries[k])
        /\ DOMAIN new = Keys /\ new = [k \in Keys |-> new[k]]
    BY <1>1, <2>1
  <2>3. Return(c, new, conns, r)  BY <1>3, <2>1
  <2>4. {} \in SUBSET Keys /\ {} \subseteq Matching[task[c].pat]
        /\ (r = "emptied" => task[c].due \subseteq {})
    BY <1>3
  <2>5. task[c].pc \in {"scan", "delete"} /\ r \in {"emptied", "error"}  BY <1>3
  <2>6. PICK gone : gone = {}  OBVIOUS
  <2>7. /\ gone \in SUBSET Keys /\ gone \subseteq Matching[task[c].pat]
        /\ (r = "emptied" => task[c].due \subseteq gone)
        /\ \A k \in Keys : new[k] = (IF k \in gone THEN Absent ELSE entries[k])
    BY <2>2, <2>4, <2>6
  <2>8. DOMAIN new = Keys /\ new = [k \in Keys |-> new[k]]  BY <2>2
  <2>9. QED  BY ONLY IInv, Debts, <2>3, <2>5, <2>7, <2>8, EndRefines
<1>4. CASE ScanFails(c)
  <2>1. task[c].pc = "scan" /\ Return(c, entries, Held(c) + 1, "error")  BY <1>4 DEF ScanFails
  <2>2. QED  BY <1>3, <2>1
<1>5. CASE DeleteFails(c)
  <2>1. /\ task[c].pc = "delete"
        /\ \/ Return(c, entries, Held(c), "error")
           \/ \E k \in Listed(task[c]) : Return(c, [entries EXCEPT ![k] = Absent], 1, "error")
    BY <1>5 DEF DeleteFails, Listed
  <2>2. CASE Return(c, entries, Held(c), "error")  BY <1>3, <2>1, <2>2
  <2>3. ASSUME NEW k \in Listed(task[c]), Return(c, [entries EXCEPT ![k] = Absent], 1, "error")
        PROVE  Abstract!Next /\ Debts'
    <3>1. k \in Keys /\ k \in Matching[task[c].pat]  BY <1>1, <2>1 DEF Orderly, Listed
    <3>2. PICK new : new = [entries EXCEPT ![k] = Absent]  OBVIOUS
    <3>3. /\ \A x \in Keys : new[x] = (IF x \in {k} THEN Absent ELSE entries[x])
          /\ DOMAIN new = Keys /\ new = [x \in Keys |-> new[x]]
      BY <1>1, <3>1, <3>2
    <3>4. Return(c, new, 1, "error")  BY <2>3, <3>2
    <3>5. {k} \in SUBSET Keys /\ {k} \subseteq Matching[task[c].pat]  BY <3>1
    <3>6. QED  BY <2>1, <3>3, <3>4, <3>5, EndRefines
  <2>4. QED  BY <2>1, <2>2, <2>3
<1>6. CASE Emptied(c)
  <2>1. /\ task[c].pc = "delete" /\ \A k \in Keys : task[c].todo[k] = 0
        /\ Return(c, entries, Held(c), "emptied")
    BY <1>6 DEF Emptied
  <2>2. Listed(task[c]) = {}  BY <2>1 DEF Listed
  <2>3. task[c].due = {}  BY <1>1, <2>1, <2>2 DEF Orderly
  <2>4. QED  BY <1>3, <2>1, <2>3
<1>7. QED  BY <1>2, <1>4, <1>5, <1>6

(* redis drops a key.                                                      *)
LEMMA ExpireRefines ==
    ASSUME IInv, Debts, NEW k \in Keys, Expire(k)
    PROVE  Abstract!Next /\ Debts'
<1>1. entries \in [Keys -> Values \union {Absent}]  BY DEF IInv, TypeOK
<1>2. Change([entries EXCEPT ![k] = Absent], task) /\ reply' = reply  BY DEF Expire
<1>3. [entries EXCEPT ![k] = Absent] = [x \in Keys |-> IF x \in {k} THEN Absent ELSE entries[x]]
  BY <1>1
<1>4. Change([x \in Keys |-> IF x \in {k} THEN Absent ELSE entries[x]], task)  BY <1>2, <1>3
<1>5. Seen([x \in Keys |-> IF x \in {k} THEN Absent ELSE entries[x]]) /\ Debts'
  BY <1>4, ChangeShown
<1>6. Abstract!Expire(k)
  BY <1>2, <1>5 DEF Abstract!Expire, Abstract!Change, Abstract!Without, Seen, Shown
<1>7. QED  BY <1>5, <1>6 DEF Abstract!Next

(* Every step is one of CacheSpec, or one that it does not see.            *)
LEMMA Refinement == IInv /\ Debts /\ [Next]_vars => [Abstract!Next]_(Abstract!vars) /\ Debts'
<1> SUFFICES ASSUME IInv, Debts, [Next]_vars
             PROVE  (Abstract!Next \/ UNCHANGED Abstract!vars) /\ Debts'
  OBVIOUS
<1>1. ASSUME UNCHANGED <<entries, Shown, reply>>, Debts'
      PROVE  UNCHANGED Abstract!vars /\ Debts'
  BY <1>1 DEF Abstract!vars, Shown
<1>2. ASSUME NEW c \in Clients, Ask(c)
      PROVE  (Abstract!Next \/ UNCHANGED Abstract!vars) /\ Debts'
  BY <1>1, <1>2, AskRefines
<1>3. ASSUME NEW c \in Clients, Do(c) \/ DoFails(c)
      PROVE  (Abstract!Next \/ UNCHANGED Abstract!vars) /\ Debts'
  BY <1>3, DoRefines
<1>4. ASSUME NEW c \in Clients, Sweep(c)
      PROVE  (Abstract!Next \/ UNCHANGED Abstract!vars) /\ Debts'
  <2>1. CASE Scan(c)  BY <1>1, <2>1, ScanRefines
  <2>2. CASE ~Scan(c)
    BY <1>4, <2>2, OpenScanRefines, DeleteRefines, SweepEndsRefine DEF Sweep
  <2>3. QED  BY <2>1, <2>2
<1>5. ASSUME NEW k \in Keys, Expire(k)
      PROVE  (Abstract!Next \/ UNCHANGED Abstract!vars) /\ Debts'
  BY <1>5, ExpireRefines
<1>6. CASE SessionGet \/ SessionClose \/ UNCHANGED vars
  <2>1. UNCHANGED <<entries, task, reply>>  BY <1>6 DEF SessionGet, SessionClose, vars
  <2>2. Shown' = Shown /\ Debts'  BY <2>1 DEF Shown, Debts
  <2>3. QED  BY <1>1, <2>1, <2>2
<1>7. QED  BY <1>2, <1>3, <1>4, <1>5, <1>6 DEF Next

(* RedisCache implements CacheSpec: Get, Set and Forget are atomic, and a  *)
(* sweep that reports success saw every key gone that was there when it    *)
(* began, and removed none that it does not match, whatever other clients  *)
(* do between its commands (cache.go:127).                                 *)
THEOREM Refines == Spec => RefinesCache
<1>1. Init => Abstract!Init /\ Debts
  <2> SUFFICES ASSUME Init PROVE Abstract!Init /\ Debts
    OBVIOUS
  <2>1. Abstract!Init  BY DEF Init, Idle, Abstract!Init, Abstract!NoSweep
  <2>2. Orderly(Idle) /\ Idle.due = {}  BY DEF Idle, Orderly, Listed
  <2>3. Debts  BY <2>2 DEF Init, Debts
  <2>4. QED  BY <2>1, <2>3
<1>2. IInv /\ Debts /\ [Next]_vars => [Abstract!Next]_(Abstract!vars) /\ Debts'
  BY Refinement
<1>3. QED  BY <1>1, <1>2, Invariant, PTL DEF Spec, RefinesCache, Abstract!Spec
=============================================================================
