---------------------------- MODULE LoginSession ----------------------------
(***************************************************************************)
(* Login, logout and "remember me" of the application on top of the scs    *)
(* session manager.  A request loads its session at the start (LoadAndSave *)
(* of scs), passes CheckRemember, runs its handler on the private copy and *)
(* commits that copy just before the response; requests of one browser     *)
(* overlap freely, and every access to the session store or the database   *)
(* is a step of its own.                                                   *)
(***************************************************************************)
EXTENDS Naturals, FiniteSets

CONSTANTS
    Users,       \* rows of the users table
    Browsers,    \* cookie jars
    Slots,       \* requests in flight at one time
    Tokens,      \* session tokens: generateToken never repeats one in use
    Hashes,      \* remember tokens: PostUserLogin never repeats one in use
    None,        \* no user, token, hash or cookie
    Ops,         \* what browsers ask for, a subset of Op
    Boxes,       \* how they leave the box "remember me", a subset of BOOLEAN
    StoreFails,  \* the session store (redis) may fail
    DbFails      \* the database may fail

Op == {"visit", "reset", "login", "logout"}

ASSUME NoneAssumption ==
    None \notin Users \cup Browsers \cup Slots \cup Tokens \cup Hashes
ASSUME InputAssumption == Ops \subseteq Op /\ Boxes \subseteq BOOLEAN
ASSUME FailsAssumption == StoreFails \in BOOLEAN /\ DbFails \in BOOLEAN

VARIABLES
    users,       \* the users that exist
    rows,        \* the table remember_tokens: pairs of a user and a hash
    store,       \* the session store
    jar,         \* the cookies of each browser
    req,         \* the requests in flight
    ended,       \* history: tokens that a RenewToken took out of the store
    raced,       \* history: those that another request still held then
    known        \* history: what a browser was last told, see Told

vars == <<users, rows, store, jar, req, ended, raced, known>>
history == <<ended, raced, known>>

-----------------------------------------------------------------------------
(* Data.                                                                   *)

Cookie == (Users \X Hashes) \cup {None}      \* _<app>_remember: "uid|hash"
Values == [user : Users \cup {None},         \* key userID
           rt   : Hashes \cup {None},        \* key remember_token
           note : BOOLEAN]                   \* key error or flash
NoValues == [user |-> None, rt |-> None, note |-> FALSE]

ASSUME MarkerAssumption == None \notin (Users \X Hashes) \cup Values

Pc == {"free", "load", "check", "getuser", "leave", "auth", "insert",
       "delrow", "commit", "respond"}

Request ==
    [pc       : Pc,
     browser  : Browsers \cup {None},
     op       : Op,
     user     : Users \cup {None},            \* who logs in
     remember : BOOLEAN,                      \* the box "remember me"
     sess     : Tokens \cup {None},           \* the cookies it was sent with
     rem      : Cookie,
     token    : Tokens \cup {None},           \* sessionData of scs
     values   : Values,
     modified : BOOLEAN,
     expired  : BOOLEAN,                      \* its deadline has passed
     forced   : BOOLEAN,                      \* leaves for CheckRemember
     setSess  : Tokens \cup {None},           \* Set-Cookie of the response
     setRem   : SUBSET Cookie,
     status   : {"ok", "fail"},
     alone    : BOOLEAN]                      \* history: no other overlapped it

FreeSlot ==
    [pc |-> "free", browser |-> None, op |-> "visit", user |-> None,
     remember |-> FALSE, sess |-> None, rem |-> None, token |-> None,
     values |-> NoValues, modified |-> FALSE, expired |-> FALSE,
     forced |-> FALSE, setSess |-> None, setRem |-> {}, status |-> "ok",
     alone |-> TRUE]

\* What a browser may count on since a response it got to a request that no
\* other request of its own overlapped.
Told == [out : BOOLEAN,                       \* it is logged out
         as  : Users \cup {None},             \* it is logged in as that user
         rem : Users \cup {None}]             \* it is remembered as that user
NotTold == [out |-> FALSE, as |-> None, rem |-> None]

TypeOK ==
    /\ users \in SUBSET Users
    /\ rows \in SUBSET (Users \X Hashes)
    /\ store \in [Tokens -> Values \cup {None}]
    /\ jar \in [Browsers -> [sess : Tokens \cup {None}, rem : Cookie]]
    /\ req \in [Slots -> Request]
    /\ ended \in SUBSET Tokens
    /\ raced \in SUBSET Tokens
    /\ known \in [Browsers -> Told]

Init ==
    /\ users = Users
    /\ rows = {}
    /\ store = [t \in Tokens |-> None]
    /\ jar = [b \in Browsers |-> [sess |-> None, rem |-> None]]
    /\ req = [q \in Slots |-> FreeSlot]
    /\ ended = {}
    /\ raced = {}
    /\ known = [b \in Browsers |-> NotTold]

Active(q) == req[q].pc # "free"

\* generateToken: a token that no store, jar or request holds.
FreshToken(t) ==
    /\ store[t] = None
    /\ \A b \in Browsers : jar[b].sess # t
    /\ \A q \in Slots : t \notin {req[q].sess, req[q].token, req[q].setSess}

\* randomString and sha256: a hash that nobody holds.
FreshHash(h) ==
    /\ \A u \in Users : <<u, h>> \notin rows
    /\ \A t \in Tokens : store[t] # None => store[t].rt # h
    /\ \A b \in Browsers, u \in Users : jar[b].rem # <<u, h>>
    /\ \A q \in Slots :
          /\ req[q].values.rt # h
          /\ \A u \in Users : <<u, h>> \notin {req[q].rem} \cup req[q].setRem

-----------------------------------------------------------------------------
(* The browser.                                                            *)

\* Overlapping requests of one browser are no longer alone.
Start(q, b, op, u, rm) ==
    LET others == {p \in Slots : Active(p) /\ req[p].browser = b} IN
    /\ ~Active(q)
    /\ req' = [p \in Slots |->
          IF p = q THEN [FreeSlot EXCEPT !.pc = "load", !.browser = b, !.op = op,
                            !.user = u, !.remember = rm, !.sess = jar[b].sess,
                            !.rem = jar[b].rem, !.alone = others = {}]
          ELSE IF p \in others THEN [req[p] EXCEPT !.alone = FALSE]
          ELSE req[p]]
    /\ known' = [known EXCEPT ![b] =
          [out |-> @.out /\ op # "login",
           as  |-> IF op \in {"login", "logout"} THEN None ELSE @.as,
           rem |-> IF op \in {"login", "logout"} THEN None ELSE @.rem]]
    /\ UNCHANGED <<users, rows, store, jar, ended, raced>>

Send(q) ==
    \E b \in Browsers :
       \/ \E op \in Ops \ {"login"} : Start(q, b, op, None, FALSE)
       \/ /\ "login" \in Ops
          /\ \E u \in Users, box \in Boxes : Start(q, b, "login", u, box)

\* The response arrives with its cookies.
Respond(q) ==
    LET c == req[q]
        b == c.browser
        told == c.alone /\ c.status = "ok"
    IN
    /\ c.pc = "respond"
    /\ jar' = [jar EXCEPT
          ![b].sess = IF c.setSess = None THEN @ ELSE c.setSess,
          ![b].rem  = IF c.setRem = {} THEN @ ELSE CHOOSE k \in c.setRem : TRUE]
    /\ req' = [req EXCEPT ![q] = FreeSlot]
    /\ known' = [known EXCEPT ![b] =
          [out |-> @.out \/ (told /\ c.op = "logout"),
           as  |-> IF told /\ c.op = "login" /\ ~c.expired THEN c.user ELSE @.as,
           rem |-> IF told /\ c.op = "login" /\ c.remember THEN c.user ELSE @.rem]]
    /\ UNCHANGED <<users, rows, store, ended, raced>>

\* The client is gone: the response and its cookies are lost.
LoseResponse(q) ==
    LET b == req[q].browser IN
    /\ req[q].pc = "respond"
    /\ req' = [req EXCEPT ![q] = FreeSlot]
    /\ known' = [known EXCEPT ![b] = NotTold]
    /\ UNCHANGED <<users, rows, store, jar, ended, raced>>

\* The browser is closed: session cookies go, the remember cookie stays.
CloseBrowser(b) ==
    /\ \A q \in Slots : Active(q) => req[q].browser # b
    /\ jar[b].sess # None
    /\ jar' = [jar EXCEPT ![b].sess = None]
    /\ known' = [known EXCEPT ![b].as = None]
    /\ UNCHANGED <<users, rows, store, req, ended, raced>>

-----------------------------------------------------------------------------
(* The environment of the server.                                          *)

\* The deadline of a session passes, also for the copies of it in flight.
Expire(t) ==
    /\ store[t] # None
    /\ store' = [store EXCEPT ![t] = None]
    /\ req' = [q \in Slots |-> IF t \in {req[q].token, req[q].setSess}
                               THEN [req[q] EXCEPT !.expired = TRUE] ELSE req[q]]
    /\ known' = [b \in Browsers |-> [known[b] EXCEPT !.as = None]]
    /\ UNCHANGED <<users, rows, jar, ended, raced>>

\* User.Delete; the foreign key deletes the remember tokens of the user.
DeleteUser(u) ==
    /\ u \in users
    /\ users' = users \ {u}
    /\ rows' = {row \in rows : row[1] # u}
    /\ known' = [b \in Browsers |-> NotTold]
    /\ req' = [q \in Slots |-> [req[q] EXCEPT !.alone = FALSE]]
    /\ UNCHANGED <<store, jar, ended, raced>>

-----------------------------------------------------------------------------
(* The copy of the session in a request is private: what a handler does to *)
(* it between two accesses to the store or the database is one step with   *)
(* the access before it.                                                   *)

Become(q, c) == req' = [req EXCEPT ![q] = c]

\* The response is on its way and the copy is forgotten.
Answer(c) == [c EXCEPT !.pc = "respond", !.sess = None, !.rem = None,
                       !.token = None, !.values = NoValues, !.modified = FALSE]

\* The response is written: LoadAndSave commits the copy if it was modified.
Finish(c) == IF c.modified THEN [c EXCEPT !.pc = "commit", !.rem = None]
             ELSE Answer(c)

\* Mutant: the browser is not told of the failure.
FailsSilently(q) == Become(q, Answer(req[q]))

\* An error page without a commit: Load or Commit failed, or a panic.
Fail(q) == Become(q, Answer([req[q] EXCEPT !.status = "fail"]))

\* A page: defaultData pops error and flash.
Visit(c) == Finish([c EXCEPT !.values.note = FALSE,
                             !.modified = @ \/ c.values.note])

\* PostResetPassword leaves a flash message.
PostResetPassword(c) == Finish([c EXCEPT !.values.note = TRUE, !.modified = TRUE])

\* Logout deletes the remember token if the session has one.
Logout(c) == [c EXCEPT !.pc = IF c.values.rt # None THEN "delrow" ELSE "leave",
                       !.forced = FALSE, !.rem = None]

\* next.ServeHTTP: the handler up to its first access.
Handle(c) == CASE c.op = "visit"  -> Visit(c)
               [] c.op = "reset"  -> PostResetPassword(c)
               [] c.op = "logout" -> Logout(c)
               [] c.op = "login"  -> [c EXCEPT !.pc = "auth", !.rem = None]

-----------------------------------------------------------------------------
(* The session manager and the middleware.                                 *)

\* Mutant: the cookie is trusted, also for a session that is gone.
LoadAdopts(q) ==
    LET t == req[q].sess
        c == [req[q] EXCEPT !.sess = None, !.token = t, !.values =
                 IF t # None /\ store[t] # None THEN store[t] ELSE NoValues]
    IN
    /\ req[q].pc = "load"
    /\ Become(q, IF c.values.user # None \/ c.rem = None THEN Handle(c)
                 ELSE [c EXCEPT !.pc = "check"])
    /\ UNCHANGED <<users, rows, store, jar, history>>

\* Load: the copy of the session, or a new one without a token.  A browser
\* that is not logged in and has a remember cookie is checked for it.
Load(q) ==
    LET t     == req[q].sess
        found == t # None /\ store[t] # None
        c     == [req[q] EXCEPT !.sess = None, !.token = IF found THEN t ELSE None,
                     !.values = IF found THEN store[t] ELSE NoValues]
    IN
    /\ req[q].pc = "load"
    /\ Become(q, IF c.values.user # None \/ c.rem = None THEN Handle(c)
                 ELSE [c EXCEPT !.pc = "check"])
    /\ UNCHANGED <<users, rows, store, jar, history>>

LoadFails(q) ==
    /\ StoreFails
    /\ req[q].pc = "load"
    /\ req[q].sess # None
    /\ Fail(q)
    /\ UNCHANGED <<users, rows, store, jar, history>>

\* CheckRemember asks CheckForRememberToken, which also says no when the
\* database fails.
CheckRemember(q) ==
    LET c == req[q] IN
    /\ c.pc = "check"
    /\ \/ /\ c.rem \in rows
          /\ Become(q, [c EXCEPT !.pc = "getuser"])
          /\ UNCHANGED known
       \/ /\ c.rem \notin rows \/ DbFails
          /\ Become(q, [c EXCEPT !.pc = "leave", !.forced = TRUE, !.rem = None])
          /\ known' = IF c.rem \in rows THEN [known EXCEPT ![c.browser].rem = None]
                      ELSE known
    /\ UNCHANGED <<users, rows, store, jar, ended, raced>>

\* The valid hash logs the user in.  u.Get drops its error: without a user
\* the middleware panics, and a panic passes LoadAndSave without a commit.
GetRemembered(q) ==
    LET c == req[q] IN
    /\ c.pc = "getuser"
    /\ \/ /\ c.rem[1] \in users
          /\ Become(q, Handle([c EXCEPT !.values.user = c.rem[1],
                                 !.values.rt = c.rem[2], !.modified = TRUE]))
       \/ /\ c.rem[1] \notin users \/ DbFails
          /\ Fail(q)
    /\ UNCHANGED <<users, rows, store, jar, history>>

\* Mutants: one of the things that leaving takes away is forgotten, the user,
\* the remember token or the cookie, or is emptied instead of removed.
LeftKeeps(c, user, rt, cookie) ==
    LET out == [c EXCEPT !.values.user = user, !.values.rt = rt,
                         !.modified = TRUE, !.setRem = cookie]
    IN IF c.forced THEN Handle([out EXCEPT !.values.note = TRUE]) ELSE Finish(out)
LeftKeepsUser(c)   == LeftKeeps(c, c.values.user, None, {None})
LeftKeepsToken(c)  == LeftKeeps(c, None, c.values.rt, {None})
LeftKeepsCookie(c) == LeftKeeps(c, None, None, {})
LeftEmpties(c)     == LeftKeeps(c, None, "", {None})

\* RenewToken, Remove, Destroy, RenewToken, all errors ignored, as Logout and
\* deleteRememberCookie call them; the latter adds the error message and goes
\* on to the handler.
Left(c) ==
    LET out == [c EXCEPT !.values.user = None, !.values.rt = None,
                         !.modified = TRUE, !.setRem = {None}]
    IN IF c.forced THEN Handle([out EXCEPT !.values.note = TRUE]) ELSE Finish(out)

\* Requests that have a copy of session t that they may still commit.
Holders(t, q) == {p \in Slots \ {q} : req[p].token = t}

\* One of the deletes of the old token succeeds.  Without failures the copy
\* is emptied; when RenewToken or Destroy failed, the message survives.
Leave(q) ==
    LET c == req[q] IN
    /\ c.pc = "leave"
    /\ \E t \in Tokens :
          /\ FreshToken(t)
          /\ \E note \in {FALSE} \cup IF StoreFails THEN {c.values.note} ELSE {} :
                Become(q, Left([c EXCEPT !.token = t, !.expired = FALSE,
                                         !.values.note = note]))
          /\ ended' = (ended \ {t}) \cup ({c.token} \ {None})
          /\ raced' = (raced \ {t}) \cup
                {x \in {c.token} \ {None} : Holders(x, q) # {}}
    /\ store' = IF c.token = None THEN store ELSE [store EXCEPT ![c.token] = None]
    /\ UNCHANGED <<users, rows, jar, known>>

\* All three deletes fail, and the copy keeps its token.
LeaveFails(q) ==
    LET c == req[q] IN
    /\ StoreFails
    /\ c.pc = "leave"
    /\ c.token # None
    /\ Become(q, Left(c))
    /\ UNCHANGED <<users, rows, store, jar, history>>

\* Commit: the copy overwrites what the store holds by now.  What is past its
\* deadline is not found again.
Commit(q) ==
    LET c == req[q] IN
    /\ c.pc = "commit"
    /\ \E t \in IF c.token = None THEN {x \in Tokens : FreshToken(x)}
                ELSE {c.token} :
          /\ Become(q, Answer([c EXCEPT !.setSess = t]))
          /\ store' = [store EXCEPT ![t] = IF c.expired THEN None ELSE c.values]
          /\ ended' = IF c.token = None THEN ended \ {t} ELSE ended
          /\ raced' = IF c.token = None THEN raced \ {t} ELSE raced
    /\ UNCHANGED <<users, rows, jar, known>>

CommitFails(q) ==
    /\ StoreFails
    /\ req[q].pc = "commit"
    /\ Fail(q)
    /\ UNCHANGED <<users, rows, store, jar, history>>

-----------------------------------------------------------------------------
(* The handlers that use the database.                                     *)

\* A login or a registration of the cookie that failed: an error text, and
\* the commit of what the request did to the session before.
Refused(c) == Finish([c EXCEPT !.status = "fail"])

\* PostUserLogin finds the user and compares the password.
PostUserLogin(q) ==
    LET c == req[q] IN
    /\ c.pc = "auth"
    /\ \/ /\ c.user \in users
          /\ Become(q, IF c.remember THEN [c EXCEPT !.pc = "insert"]
                       ELSE Finish([c EXCEPT !.values.user = c.user,
                                             !.modified = TRUE]))
       \/ Become(q, Refused(c))
    /\ UNCHANGED <<users, rows, store, jar, history>>

\* Mutant: the cookie is sent although the insert failed.
InsertTokenUnchecked(q) ==
    LET c == req[q] IN
    /\ c.pc = "insert"
    /\ \E h \in Hashes :
          /\ FreshHash(h)
          /\ rows' \in {rows} \cup
                IF c.user \in users THEN {rows \cup {<<c.user, h>>}} ELSE {}
          /\ Become(q, Finish([c EXCEPT
                !.modified = TRUE, !.setRem = {<<c.user, h>>},
                !.values.user = c.user, !.values.rt = h]))
    /\ UNCHANGED <<users, store, jar, history>>

\* Mutant: a login over an earlier one leaves the user in the session.
InsertTokenKeepsUser(q) ==
    LET c == req[q] IN
    /\ c.pc = "insert"
    /\ \E h \in Hashes :
          /\ FreshHash(h)
          /\ rows' = rows \cup {<<c.user, h>>}
          /\ Become(q, Finish([c EXCEPT
                !.modified = TRUE, !.setRem = {<<c.user, h>>},
                !.values.user = IF @ = None THEN c.user ELSE @, !.values.rt = h]))
    /\ UNCHANGED <<users, store, jar, history>>

\* InsertToken, the remember cookie, then the session.
InsertToken(q) ==
    LET c == req[q] IN
    /\ c.pc = "insert"
    /\ \/ /\ c.user \in users
          /\ \E h \in Hashes :
                /\ FreshHash(h)
                /\ rows' = rows \cup {<<c.user, h>>}
                /\ Become(q, Finish([c EXCEPT
                      !.modified = TRUE, !.setRem = {<<c.user, h>>},
                      !.values.user = c.user, !.values.rt = h]))
       \/ /\ c.user \notin users \/ DbFails
          /\ Become(q, Refused(c))
          /\ UNCHANGED rows
    /\ UNCHANGED <<users, store, jar, history>>

\* Mutant: the tokens of the user on all devices are deleted.
DeleteRows(q) ==
    LET c == req[q] IN
    /\ c.pc = "delrow"
    /\ rows' = {row \in rows : row[1] # c.values.user}
    /\ Become(q, [c EXCEPT !.pc = "leave"])
    /\ UNCHANGED <<users, store, jar, history>>

\* RememberToken.Delete, its error ignored.
DeleteRow(q) ==
    LET c == req[q] IN
    /\ c.pc = "delrow"
    /\ \/ rows' = {row \in rows : row[2] # c.values.rt}
       \/ DbFails /\ UNCHANGED rows
    /\ Become(q, [c EXCEPT !.pc = "leave"])
    /\ UNCHANGED <<users, store, jar, history>>

-----------------------------------------------------------------------------
Browser(q) == Send(q) \/ Respond(q) \/ LoseResponse(q)

Manager(q) == \/ Load(q) \/ LoadFails(q) \/ CheckRemember(q) \/ GetRemembered(q)
              \/ Leave(q) \/ LeaveFails(q) \/ Commit(q) \/ CommitFails(q)

Handlers(q) == PostUserLogin(q) \/ InsertToken(q) \/ DeleteRow(q)

Next == \/ \E q \in Slots : Browser(q) \/ Manager(q) \/ Handlers(q)
        \/ \E b \in Browsers : CloseBrowser(b)
        \/ \E t \in Tokens : Expire(t)
        \/ \E u \in Users : DeleteUser(u)

Spec == Init /\ [][Next]_vars

-----------------------------------------------------------------------------
(* Properties.                                                             *)

LoggedIn(b) ==
    \/ jar[b].sess # None /\ store[jar[b].sess] # None
         /\ store[jar[b].sess].user # None
    \/ jar[b].rem \in rows

\* A session that holds a remember token is logged in, so that Logout always
\* finds the token of whoever it logs out; also the copies in flight.
RememberedIsLoggedIn ==
    /\ \A t \in Tokens : store[t] # None /\ store[t].rt # None
                            => store[t].user # None
    /\ \A q \in Slots : req[q].values.rt # None => req[q].values.user # None

\* A session that a logout ended comes back only if another request held a
\* copy of it at that moment: a stale cookie alone never revives it.
OnlyRacesRevive == \A t \in ended : store[t] # None => t \in raced

\* A browser that was told it is logged out, by a logout that none of its own
\* requests overlapped, is logged out, whatever failed in the store or in the
\* database, until it logs in again.
LogoutTakesEffect == \A b \in Browsers : known[b].out => ~LoggedIn(b)

\* A browser that was told it is logged in as u, by a login that none of its
\* own requests overlapped, is logged in as u until it logs out or in again,
\* closes, or its session expires.
LoginTakesEffect ==
    \A b \in Browsers : known[b].as # None =>
        /\ jar[b].sess # None
        /\ store[jar[b].sess] # None
        /\ store[jar[b].sess].user = known[b].as

\* A browser that logged in as u with "remember me" keeps a cookie that logs
\* it in as u, across closed browsers and expired sessions.
RememberLasts ==
    \A b \in Browsers : known[b].rem # None =>
        jar[b].rem \in rows /\ jar[b].rem[1] = known[b].rem

\* What the comment on Logout says (auth-handlers.go:94), it logs the user
\* out: no later response but that of a login brings the session back.
LoggedOutStaysOut ==
    [][ \A q \in Slots :
          LET t == req[q].token IN
          req[q].pc = "commit" /\ req'[q].pc = "respond" /\ req[q].op # "login"
             /\ t \in ended /\ store'[t] # None
          => store'[t].user = None ]_vars

=============================================================================
