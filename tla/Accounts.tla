------------------------------ MODULE Accounts ------------------------------
(***************************************************************************)
(* The tables users and tokens of the application (myapp/data/user.go and  *)
(* token.go) under calls that overlap.  Every SQL statement is one step;   *)
(* between two statements of one call those of others happen, tokens       *)
(* expire and users are deleted.  No call uses a transaction.  What a      *)
(* crash leaves behind is what a statement that fails leaves behind.       *)
(***************************************************************************)
EXTENDS Naturals

CONSTANTS
    Calls,      \* the goroutines that call the data layer
    MaxUsers,   \* bound: users ever inserted; their ids come from a sequence
    Emails, Values, Secrets,
    None,
    Receivers,  \* what ResetPassword is called on: a row read, or the User{} of Models
    DbFails     \* whether a statement may fail

ASSUME AccountsAssumption ==
    /\ MaxUsers \in Nat
    /\ None \notin Secrets \union Emails
    /\ Receivers \subseteq {"row", "empty"}
    /\ DbFails \in BOOLEAN

VARIABLES
    users,      \* table users: id -> row
    serial,     \* the next id
    tokens,     \* table tokens: plain text -> id of its user
    expired,    \* tokens whose expiry has passed
    call,       \* what each goroutine is doing
    (* history, which no guard reads *)
    issued,     \* tokens that have been in the table (also keeps new ones new)
    given,      \* user -> the token of its last successful Insert, while that should work
    crossed,    \* users with overlapping Inserts since their tokens were last deleted
    intended,   \* user -> the last value written to each column
    overtaken   \* users whose row was written from a copy older than another write

vars == <<users, serial, tokens, expired, call, issued, given, crossed, intended, overtaken>>
history == <<issued, given, crossed, intended, overtaken>>
-----------------------------------------------------------------------------
Ids == 1 .. MaxUsers
Row == [email : Emails, password : Values, name : Values]
NoRow == [email |-> None, password |-> None, name |-> None]
Exists(id) == id \in Ids /\ users[id] # NoRow

(* target: the id a call is about; id and row: the receiver, a copy of a   *)
(* row or User{} with ID 0.  stale, late: history.                         *)
NoCall == [pc |-> "done", target |-> 0, id |-> 0, row |-> NoRow, field |-> "name",
           value |-> None, secret |-> None, stale |-> FALSE, late |-> FALSE]
Finished == {"done", "error", "accepted"}

Init ==
    /\ users = [id \in Ids |-> NoRow] /\ serial = 1
    /\ tokens = [s \in Secrets |-> 0]
    /\ expired = {} /\ issued = {} /\ crossed = {} /\ overtaken = {}
    /\ call = [p \in Calls |-> NoCall]
    /\ given = [id \in Ids |-> None]
    /\ intended = [id \in Ids |-> NoRow]

Become(p, c) == call' = [call EXCEPT ![p] = c]
Reached(c, pc) == IF pc \in Finished THEN [NoCall EXCEPT !.pc = pc, !.late = c.late]
                  ELSE [c EXCEPT !.pc = pc]
Goto(p, pc) == Become(p, Reached(call[p], pc))
Start(p, pc, id) == [NoCall EXCEPT !.pc = pc, !.target = id]
At(p, pc) == call[p].pc = pc
Tables == <<users, serial, tokens, expired>>
-----------------------------------------------------------------------------
(* One statement each.                                                     *)

(* Users.Insert fails on an email that is taken.                           *)
InsertUser(e, w) ==
    /\ serial \in Ids /\ \A id \in Ids : users[id].email # e
    /\ users' = [users EXCEPT ![serial] = [email |-> e, password |-> w, name |-> w]]
    /\ intended' = [intended EXCEPT ![serial] = users'[serial]]
    /\ serial' = serial + 1
    /\ UNCHANGED <<tokens, expired, call, issued, given, crossed, overtaken>>

(* Mutant: the schema without ON DELETE CASCADE. *)
DeleteUserOnly(id) ==
    /\ Exists(id)
    /\ users' = [users EXCEPT ![id] = NoRow]
    /\ given' = [given EXCEPT ![id] = None]
    /\ intended' = [intended EXCEPT ![id] = NoRow]
    /\ overtaken' = overtaken \ {id}
    /\ UNCHANGED <<serial, tokens, expired, call, issued, crossed>>

(* The tokens of a user go with it: ON DELETE CASCADE.                     *)
DeleteUser(id) ==
    /\ Exists(id)
    /\ users' = [users EXCEPT ![id] = NoRow]
    /\ tokens' = [s \in Secrets |-> IF tokens[s] = id THEN 0 ELSE tokens[s]]
    /\ given' = [given EXCEPT ![id] = None]
    /\ intended' = [intended EXCEPT ![id] = NoRow]
    /\ overtaken' = overtaken \ {id}
    /\ UNCHANGED <<serial, expired, call, issued, crossed>>

(* Tokens.Delete and DeleteByToken. *)
DeleteToken(s) ==
    /\ tokens[s] # 0
    /\ tokens' = [tokens EXCEPT ![s] = 0]
    /\ given' = [id \in Ids |-> IF given[id] = s THEN None ELSE given[id]]
    /\ UNCHANGED <<users, serial, expired, call, issued, crossed, intended, overtaken>>

Expire(s) ==
    /\ s \notin expired
    /\ expired' = expired \union {s}
    /\ given' = [id \in Ids |-> IF given[id] = s THEN None ELSE given[id]]
    /\ UNCHANGED <<users, serial, tokens, call, issued, crossed, intended, overtaken>>
-----------------------------------------------------------------------------
(* Calls of several statements.  Get and GetByEmail read a row and then    *)
(* the newest token of the user, which may fail too; nothing modelled here *)
(* uses that token.                                                        *)

(* Get, a change of a column, Update, as integration_test.go does and the  *)
(* route update-user, once the name it writes passes the validation.       *)
GetForUpdate(p, id, v) ==
    IF Exists(id)
    THEN Become(p, [Start(p, "getToken", id) EXCEPT
                      !.id = id, !.row = users[id], !.value = v])
    ELSE Become(p, [NoCall EXCEPT !.pc = "error"])

(* PostResetPassword: GetByEmail, then ResetPassword on what it returned.  *)
GetForReset(p, e, v) ==
    IF \E id \in Ids : users[id].email = e
    THEN \E id \in Ids :
            /\ users[id].email = e
            /\ Become(p, [Start(p, "getTokenOnce", id) EXCEPT
                            !.id = id, !.row = users[id], !.field = "password", !.value = v])
    ELSE Become(p, [NoCall EXCEPT !.pc = "error"])

(* ResetPassword on Models.Users, whose ID is 0. *)
ResetOnEmpty(p, id, v) ==
    Become(p, [Start(p, "getAgain", id) EXCEPT !.field = "password", !.value = v])

GetToken(p) ==
    \/ At(p, "getTokenOnce") /\ Goto(p, "getAgain")
    \/ At(p, "getToken") /\ Goto(p, "update")

(* ResetPassword looks the user up again, and drops the row it finds. *)
GetAgain(p) ==
    /\ At(p, "getAgain")
    /\ Goto(p, IF Exists(call[p].target) THEN "getToken" ELSE "error")

(* Mutant: ResetPassword updates theUser instead of the receiver. *)
WrittenFromTheUser(p) ==
    IF call[p].field = "password" THEN users[call[p].id]
    ELSE [call[p].row EXCEPT ![call[p].field] = call[p].value]

(* The row that Update writes: all columns of the receiver. *)
Written(p) == [call[p].row EXCEPT ![call[p].field] = call[p].value]

HoldsCopy(q, id) == call[q].id = id /\ call[q].row # NoRow

(* An Update that finds no row with the ID of the receiver is no error.    *)
Update(p, answer) ==
    LET c == call[p] IN
    /\ At(p, "update")
    /\ IF Exists(c.id)
       THEN /\ users' = [users EXCEPT ![c.id] = Written(p)]
            /\ intended' = [intended EXCEPT ![c.id][c.field] = c.value]
            /\ overtaken' = IF c.stale THEN overtaken \union {c.id} ELSE overtaken
            /\ call' = [q \in Calls |->
                          IF q = p THEN Reached(c, answer)
                          ELSE IF HoldsCopy(q, c.id) THEN [call[q] EXCEPT !.stale = TRUE]
                          ELSE call[q]]
       ELSE Goto(p, answer) /\ UNCHANGED <<users, intended, overtaken>>
    /\ UNCHANGED <<serial, tokens, expired, issued, given, crossed>>
-----------------------------------------------------------------------------
(* Tokens.Insert(token, u): token.UserID is the target, u.ID the id; a     *)
(* caller that has the user from its own literal has u.ID 0.               *)
Fresh(s) == s \notin issued /\ \A q \in Calls : call[q].secret # s

GenerateToken(p, id, uid, s) ==
    /\ Exists(id) /\ Fresh(s)
    /\ Become(p, [Start(p, "deleteTokens", id) EXCEPT !.id = uid, !.secret = s])

(* Mutant: Insert does not delete the tokens of the user. *)
KeepTokens(p, answer) ==
    /\ At(p, "deleteTokens")
    /\ given' = [u \in Ids |-> IF u = call[p].id THEN None ELSE given[u]]
    /\ crossed' = crossed \ {call[p].id}
    /\ Goto(p, answer)
    /\ UNCHANGED <<users, serial, tokens, expired, issued, intended, overtaken>>

DeleteTokens(p, answer) ==
    LET id == call[p].id IN
    /\ At(p, "deleteTokens")
    /\ tokens' = [s \in Secrets |-> IF id # 0 /\ tokens[s] = id THEN 0 ELSE tokens[s]]
    /\ given' = [u \in Ids |-> IF u = id THEN None ELSE given[u]]
    /\ crossed' = crossed \ {id}
    /\ Goto(p, answer)
    /\ UNCHANGED <<users, serial, expired, issued, intended, overtaken>>

Overlapped(p) ==
    \/ call[p].id # call[p].target
    \/ \E q \in Calls \ {p} : At(q, "insertToken") /\ call[q].target = call[p].target

(* The insert fails if the user is gone meanwhile: a foreign key. *)
InsertToken(p, answer) ==
    LET u == call[p].target  s == call[p].secret IN
    /\ At(p, "insertToken") /\ Exists(u)
    /\ tokens' = [tokens EXCEPT ![s] = u]
    /\ issued' = issued \union {s}
    /\ given' = [given EXCEPT ![u] = IF answer = "error" \/ s \in expired THEN None ELSE s]
    /\ crossed' = IF Overlapped(p) THEN crossed \union {u} ELSE crossed
    /\ Goto(p, answer)
    /\ UNCHANGED <<users, serial, expired, intended, overtaken>>

(* Mutant: the error of collection.Insert is dropped. *)
InsertTokenFailsSilently(p) ==
    /\ At(p, "insertToken") /\ Goto(p, "done")
    /\ given' = [given EXCEPT ![call[p].target] =
                    IF Exists(call[p].target) /\ call[p].secret \notin expired
                    THEN call[p].secret ELSE @]
    /\ UNCHANGED <<issued, crossed, intended, overtaken>>

InsertTokenFails(p) == At(p, "insertToken") /\ Goto(p, "error") /\ UNCHANGED history
-----------------------------------------------------------------------------
(* AuthenticateToken: GetByToken and the check of its expiry; then         *)
(* GetUserForToken, which reads the token again and then its user.         *)
Withdrawn(s) == s \in issued /\ (tokens[s] = 0 \/ s \in expired)

Present(p, s, pc) == Become(p, [Start(p, pc, 0) EXCEPT !.secret = s, !.late = Withdrawn(s)])

(* Mutant: the expiry is not checked. *)
GetByTokenUnchecked(p) ==
    /\ At(p, "getByToken")
    /\ Goto(p, IF tokens[call[p].secret] # 0 THEN "getTokenAgain" ELSE "error")

GetByToken(p) ==
    LET s == call[p].secret IN
    /\ At(p, "getByToken")
    /\ Goto(p, IF tokens[s] # 0 /\ s \notin expired THEN "getTokenAgain" ELSE "error")

(* ValidToken is GetUserForToken and then the check of the expiry.         *)
GetUserForToken(p) ==
    LET s == call[p].secret IN
    \/ /\ call[p].pc \in {"getTokenAgain", "findToken"}
       /\ Become(p, Reached([call[p] EXCEPT !.target = tokens[s]],
                    IF tokens[s] = 0 THEN "error"
                    ELSE IF At(p, "findToken") THEN "validUser" ELSE "getUser"))
    \/ /\ call[p].pc \in {"getUser", "validUser"}
       /\ Goto(p, IF Exists(call[p].target) /\ ~(At(p, "validUser") /\ s \in expired)
                  THEN "accepted" ELSE "error")
-----------------------------------------------------------------------------
Ask(p) ==
    /\ call[p].pc \in Finished
    /\ \/ \E id \in 1 .. serial, v \in Values : GetForUpdate(p, id, v)
       \/ "row" \in Receivers /\ \E e \in Emails, v \in Values : GetForReset(p, e, v)
       \/ "empty" \in Receivers /\ \E id \in 1 .. serial, v \in Values : ResetOnEmpty(p, id, v)
       \/ \E id \in Ids, s \in Secrets : \E uid \in {0, id} : GenerateToken(p, id, uid, s)
       \/ \E s \in Secrets, pc \in {"getByToken", "findToken"} : Present(p, s, pc)

Read(p) == GetToken(p) \/ GetAgain(p) \/ GetByToken(p) \/ GetUserForToken(p)

(* A statement fails: nothing is written, or the answer is lost. *)
Fail(p) == call[p].pc \notin Finished /\ Goto(p, "error") /\ UNCHANGED history

Write(p) ==
    \/ Update(p, "done")
    \/ DeleteTokens(p, "insertToken")
    \/ InsertToken(p, "done")
    \/ DbFails /\ (Update(p, "error") \/ DeleteTokens(p, "error") \/ InsertToken(p, "error"))

Next ==
    \/ \E e \in Emails, v \in Values : InsertUser(e, v)
    \/ \E id \in Ids : DeleteUser(id)
    \/ \E s \in Secrets : DeleteToken(s) \/ Expire(s)
    \/ \E p \in Calls :
         \/ (Ask(p) \/ Read(p)) /\ UNCHANGED <<Tables, history>>
         \/ Write(p)
         \/ (DbFails /\ Fail(p)) /\ UNCHANGED Tables
         \/ (~Exists(call[p].target) \/ DbFails) /\ InsertTokenFails(p) /\ UNCHANGED Tables

Spec == Init /\ [][Next]_vars
-----------------------------------------------------------------------------
CallState ==
    [pc : Finished \union {"getToken", "getTokenOnce", "getAgain", "update", "deleteTokens",
                           "insertToken", "getByToken", "getTokenAgain", "findToken",
                           "getUser", "validUser"},
     target : 0 .. MaxUsers + 1, id : 0 .. MaxUsers, row : Row \union {NoRow},
     field : {"name", "password"}, value : Values \union {None},
     secret : Secrets \union {None}, stale : BOOLEAN, late : BOOLEAN]

(* The tables and the calls are well formed, ids are not reused, and every *)
(* token belongs to a user that exists (users and their tokens are deleted *)
(* together, auth_tables.postgres.sql:46).                                 *)
TypeOK ==
    /\ users \in [Ids -> Row \union {NoRow}]
    /\ serial \in 1 .. MaxUsers + 1
    /\ \A id \in Ids : id >= serial => users[id] = NoRow
    /\ tokens \in [Secrets -> 0 .. MaxUsers]
    /\ \A s \in Secrets : tokens[s] # 0 => Exists(tokens[s]) /\ s \in issued
    /\ expired \subseteq Secrets /\ issued \subseteq Secrets
    /\ call \in [Calls -> CallState]
    /\ given \in [Ids -> Secrets \union {None}]
    /\ crossed \subseteq 0 .. MaxUsers /\ overtaken \subseteq Ids
    /\ intended \in [Ids -> Row \union {NoRow}]

(* Insert leaves a user one token, unless two Inserts for that user        *)
(* overlapped or Insert was given a user without its id (token.go:112).    *)
OneTokenPerUser ==
    \A s, t \in Secrets :
        tokens[s] # 0 /\ tokens[s] = tokens[t] /\ tokens[s] \notin crossed => s = t

(* The token of the last Insert that returned without an error works until *)
(* it expires, it or its user is deleted, or the next Insert begins.       *)
IssuedTokenWorks ==
    \A id \in Ids : given[id] # None => tokens[given[id]] = id /\ given[id] \notin expired

(* Who presents a token that was replaced, deleted or expired before the   *)
(* call began is not accepted by AuthenticateToken or ValidToken, whatever *)
(* happens between their two or three statements (token.go:171).           *)
WithdrawnNotAccepted == \A p \in Calls : At(p, "accepted") => ~call[p].late

(* Every column of a user holds the value written to it last, unless a     *)
(* whole row was written from a copy that another write had overtaken.     *)
OnlyStaleCopiesLoseUpdates ==
    \A id \in Ids :
        Exists(id) /\ id \notin overtaken =>
            users[id].password = intended[id].password /\ users[id].name = intended[id].name

(* ResetPassword "resets a users's password, by id" (user.go:149): when it *)
(* returns without an error the user, if there is one, has the password.   *)
ResetSetsPassword ==
    [][\A p \in Calls :
          /\ At(p, "update") /\ call[p].field = "password"
          /\ call'[p].pc = "done" /\ Exists(call[p].target)
          => users'[call[p].target].password = call[p].value]_vars
=============================================================================
