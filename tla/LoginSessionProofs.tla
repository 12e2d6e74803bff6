------------------------- MODULE LoginSessionProofs -------------------------
(***************************************************************************)
(* Theorems about sessions and logins, for every number of users, browsers *)
(* and overlapping requests, and any supply of tokens and hashes.          *)
(***************************************************************************)
EXTENDS LoginSession, TLAPS

(* Session values that hold a remember token hold its user.                *)
Paired(v) == v.rt # None => v.user # None

(* A request, the copy that it may still commit, and the cookie with which *)
(* CheckRemember is looking up the user.                                   *)
Good(c) ==
    /\ c \in Request
    /\ Paired(c.values)
    /\ c.pc = "getuser" => c.rem \in Users \X Hashes

(* A copy of an ended session was there when the session ended.            *)
Witnessed(c) == c.token \in ended => c.token \in raced

(* The inductive invariant. *)
IInv ==
    /\ TypeOK
    /\ \A q \in Slots : Good(req[q]) /\ Witnessed(req[q])
    /\ \A t \in Tokens : store[t] # None => Paired(store[t])
    /\ OnlyRacesRevive
-----------------------------------------------------------------------------
(* What a request carries when it is over, or not yet begun.               *)
LEMMA FreeGood == Good(FreeSlot) /\ FreeSlot.token = None
BY DEF Good, FreeSlot, Request, Paired, NoValues, Values, Pc, Op, Cookie

(* How a handler leaves the copy: in order, and with the same token or     *)
(* none.                                                                   *)
Leads(c, d) == Good(d) /\ d.token \in {c.token, None}

(* New values for the copy.                                                *)
LEMMA NewValues ==
    ASSUME NEW c, Good(c), NEW v \in Values, NEW b \in BOOLEAN, Paired(v)
    PROVE  /\ Good([c EXCEPT !.values = v, !.modified = b])
           /\ [c EXCEPT !.values = v, !.modified = b].token = c.token
BY DEF Request, Good

(* The request goes on to another place, and forgets a cookie it has read. *)
LEMMA Moves ==
    ASSUME NEW c, Good(c), NEW p \in Pc \ {"getuser"}, NEW f \in BOOLEAN
    PROVE  Leads(c, [c EXCEPT !.pc = p, !.forced = f, !.rem = None])
<1> DEFINE d == [c EXCEPT !.pc = p, !.forced = f, !.rem = None]
<1>1. /\ d \in Request /\ d.values = c.values /\ d.pc = p /\ d.token = c.token
      /\ p # "getuser"
  BY DEF Good, Request, Cookie
<1> HIDE DEF d
<1>2. Leads(c, d)  BY <1>1 DEF Leads, Good
<1>3. QED  BY <1>2 DEF d

(* A response loses the copy.                                              *)
LEMMA AnswerLeads ==
    ASSUME NEW c, Good(c)
    PROVE  Good(Answer(c)) /\ Answer(c).token = None
<1> DEFINE d == [c EXCEPT !.pc = "respond", !.sess = None, !.rem = None]
           e == [d EXCEPT !.token = None, !.values = NoValues, !.modified = FALSE]
<1>1. d \in Request /\ d.pc = "respond"  BY DEF Good, Request, Pc, Cookie
<1>2. NoValues \in Values /\ Paired(NoValues)  BY DEF NoValues, Values, Paired
<1>3. Answer(c) = e  BY DEF Answer, Good, Request
<1> HIDE DEF d
<1>4. e \in Request /\ e.values = NoValues /\ e.token = None /\ e.pc = "respond"
  BY <1>1, <1>2 DEF Request
<1> HIDE DEF e
<1>5. QED  BY <1>2, <1>3, <1>4 DEF Good

(* LoadAndSave commits, or answers.                                        *)
LEMMA FinishLeads ==
    ASSUME NEW c, Good(c)
    PROVE  Leads(c, Finish(c))
<1>1. CASE c.modified
  <2>1. Finish(c) = [c EXCEPT !.pc = "commit", !.rem = None]  BY <1>1 DEF Finish
  <2>2. Leads(c, [c EXCEPT !.pc = "commit", !.rem = None])
    BY DEF Leads, Good, Request, Pc, Cookie
  <2>3. QED  BY <2>1, <2>2
<1>2. CASE ~c.modified
  <2>1. Finish(c) = Answer(c)  BY <1>2 DEF Finish
  <2>2. QED  BY <2>1, AnswerLeads DEF Leads
<1>3. QED  BY <1>1, <1>2

(* Leads goes on.                                                          *)
LEMMA LeadsOn ==
    ASSUME NEW c, NEW d, NEW e, d.token = c.token, Leads(d, e)
    PROVE  Leads(c, e)
BY DEF Leads

(* A page pops the message; a password reset leaves one.                   *)
LEMMA NoteLeads ==
    ASSUME NEW c, Good(c)
    PROVE  Leads(c, Visit(c)) /\ Leads(c, PostResetPassword(c))
<1>1. ASSUME NEW n \in BOOLEAN, NEW b \in BOOLEAN
      PROVE  Leads(c, Finish([c EXCEPT !.values.note = n, !.modified = b]))
  <2> DEFINE d == [c EXCEPT !.values.note = n, !.modified = b]
             v == [c.values EXCEPT !.note = n]
  <2>1. v \in Values /\ Paired(v)  BY DEF Good, Request, Values, Paired
  <2>2. d = [c EXCEPT !.values = v, !.modified = b]  BY DEF Good, Request
  <2>3. Good(d) /\ d.token = c.token  BY <2>1, <2>2, NewValues
  <2> HIDE DEF d
  <2>4. Leads(c, Finish(d))  BY <2>3, FinishLeads, LeadsOn
  <2>5. QED  BY <2>4 DEF d
<1>2. c.modified \in BOOLEAN /\ c.values.note \in BOOLEAN  BY DEF Good, Request, Values
<1>3. (c.modified \/ c.values.note) \in BOOLEAN  BY <1>2
<1>4. Leads(c, Visit(c))
  <2> DEFINE b == c.modified \/ c.values.note
  <2>1. Visit(c) = Finish([c EXCEPT !.values.note = FALSE, !.modified = b])  BY DEF Visit
  <2>2. b \in BOOLEAN /\ FALSE \in BOOLEAN  BY <1>3
  <2> HIDE DEF b
  <2>3. QED  BY <1>1, <2>1, <2>2
<1>5. Leads(c, PostResetPassword(c))  BY <1>1 DEF PostResetPassword
<1>6. QED  BY <1>4, <1>5

(* Up to the first access of its handler a request keeps its copy.         *)
LEMMA HandleLeads ==
    ASSUME NEW c, Good(c)
    PROVE  Leads(c, Handle(c))
<1>1. c.op \in Op  BY DEF Good, Request
<1>2. CASE c.op = "visit"  BY <1>2, NoteLeads DEF Handle
<1>3. CASE c.op = "reset"  BY <1>3, NoteLeads DEF Handle
<1>4. CASE c.op = "logout"
  <2>1. Handle(c) = Logout(c)  BY <1>4 DEF Handle
  <2>2. ASSUME NEW p \in {"delrow", "leave"}
        PROVE  Leads(c, [c EXCEPT !.pc = p, !.forced = FALSE, !.rem = None])
    <3>1. p \in Pc \ {"getuser"} /\ FALSE \in BOOLEAN  BY DEF Pc
    <3>2. QED  BY <3>1, Moves
  <2>3. QED  BY <2>1, <2>2 DEF Logout
<1>5. CASE c.op = "login"
  <2>1. Handle(c) = [c EXCEPT !.pc = "auth", !.rem = None]  BY <1>5 DEF Handle
  <2>2. Leads(c, [c EXCEPT !.pc = "auth", !.rem = None])
    BY DEF Leads, Good, Request, Pc, Cookie
  <2>3. QED  BY <2>1, <2>2
<1>6. QED  BY <1>1, <1>2, <1>3, <1>4, <1>5 DEF Op

(* What RenewToken, Remove and Destroy take away, and the cookie.          *)
LEMMA LeftLeads ==
    ASSUME NEW c, Good(c)
    PROVE  Leads(c, Left(c))
<1> DEFINE v == [c.values EXCEPT !.user = None, !.rt = None]
           d == [c EXCEPT !.values = v, !.modified = TRUE]
           out0 == [c EXCEPT !.values.user = None, !.values.rt = None, !.modified = TRUE,
                             !.setRem = {None}]
           out == [d EXCEPT !.setRem = {None}]
           w == [v EXCEPT !.note = TRUE]
           told == [out EXCEPT !.values = w, !.modified = TRUE]
<1>1. v \in Values /\ Paired(v) /\ w \in Values /\ Paired(w)
  BY DEF Good, Request, Values, Paired
<1>2. Good(d) /\ d.token = c.token /\ d.values = v /\ d.modified = TRUE
  BY <1>1, NewValues DEF Good, Request
<1>3. out0 = out  BY DEF Good, Request
<1>4. Left(c) = IF c.forced THEN Handle([out0 EXCEPT !.values.note = TRUE]) ELSE Finish(out0)
  BY DEF Left
<1> HIDE DEF d, v, out0
<1>5. Good(out) /\ out.token = c.token /\ out.values = v /\ out.modified = TRUE
  BY <1>2 DEF Good, Request, Cookie
<1>6. [out EXCEPT !.values.note = TRUE] = told
  BY <1>5 DEF Good, Request
<1> HIDE DEF out, w
<1>7. Good(told) /\ told.token = c.token
  BY <1>1, <1>5, NewValues DEF Good
<1> HIDE DEF told
<1>8. Leads(c, Handle(told)) /\ Leads(c, Finish(out))
  BY <1>5, <1>7, HandleLeads, FinishLeads, LeadsOn
<1>9. Left(c) = IF c.forced THEN Handle(told) ELSE Finish(out)
  <2>1. [out0 EXCEPT !.values.note = TRUE] = told  BY <1>3, <1>6
  <2>2. QED  BY <1>3, <1>4, <2>1
<1>10. QED  BY <1>8, <1>9
-----------------------------------------------------------------------------
(* Keeping the token, or having none, is witnessed.                        *)
LEMMA KeepsWitness ==
    ASSUME IInv, NEW q \in Slots, NEW d, d.token \in {req[q].token, None}
    PROVE  Witnessed(d)
<1>1. None \notin ended  BY NoneAssumption DEF NoneAssumption, IInv, TypeOK
<1>2. QED  BY <1>1 DEF IInv, Witnessed

(* A step of one request that leaves the store and the jars as they are.   *)
LEMMA RequestStep ==
    ASSUME IInv, NEW q \in Slots, NEW d, Good(d), Witnessed(d), Become(q, d),
           users' \in SUBSET Users, rows' \in SUBSET (Users \X Hashes),
           known' \in [Browsers -> Told], UNCHANGED <<store, jar, ended, raced>>
    PROVE  IInv'
<1>1. req' = [req EXCEPT ![q] = d] /\ d \in Request  BY DEF Become, Good
<1>2. TypeOK'  BY <1>1 DEF TypeOK, IInv
<1>3. ASSUME NEW p \in Slots PROVE Good(req'[p]) /\ Witnessed(req[p])'
  <2>1. CASE p = q
    <3>1. req'[p] = d  BY <1>1, <2>1 DEF IInv, TypeOK
    <3>2. QED  BY <3>1 DEF Witnessed
  <2>2. CASE p # q
    <3>1. req'[p] = req[p]  BY <1>1, <2>2 DEF IInv, TypeOK
    <3>2. QED  BY <3>1 DEF IInv, Witnessed
  <2>3. QED  BY <2>1, <2>2
<1>4. QED  BY <1>2, <1>3 DEF IInv, OnlyRacesRevive

(* What the invariant says of one request.                                 *)
LEMMA OfRequest ==
    ASSUME IInv, NEW q \in Slots
    PROVE  /\ Good(req[q]) /\ Witnessed(req[q]) /\ req[q] \in Request
           /\ users \in SUBSET Users /\ rows \in SUBSET (Users \X Hashes)
           /\ known \in [Browsers -> Told]
BY DEF IInv, Good, TypeOK

(* A request that fails answers without its copy; one that is refused      *)
(* commits it.                                                             *)
LEMMA FailLeads ==
    ASSUME NEW c, Good(c)
    PROVE  /\ Leads(c, Answer([c EXCEPT !.status = "fail"]))
           /\ Leads(c, Refused(c))
<1> DEFINE d == [c EXCEPT !.status = "fail"]
<1>1. Good(d) /\ d.token = c.token  BY DEF Good, Request
<1>2. Refused(c) = Finish(d)  BY DEF Refused
<1> HIDE DEF d
<1>3. Good(Answer(d)) /\ Answer(d).token = None /\ Leads(c, Finish(d))
  BY <1>1, AnswerLeads, FinishLeads, LeadsOn
<1>4. Leads(c, Answer(d)) /\ Leads(c, Refused(c))  BY <1>2, <1>3 DEF Leads
<1>5. QED  BY <1>4 DEF d

(* The session is loaded: its values are those of the store, and if it had *)
(* ended then another request brought it back.                             *)
LEMMA LoadStep == ASSUME IInv, NEW q \in Slots, Load(q) PROVE IInv'
<1> DEFINE t == req[q].sess
           found == t # None /\ store[t] # None
           tok == IF found THEN t ELSE None
           v == IF found THEN store[t] ELSE NoValues
           c == [req[q] EXCEPT !.sess = None, !.token = tok, !.values = v]
           d == IF c.values.user # None \/ c.rem = None THEN Handle(c) ELSE [c EXCEPT !.pc = "check"]
<1>1. req[q] \in Request /\ t \in Tokens \union {None}  BY OfRequest DEF Request
<1>2. v \in Values /\ Paired(v)
  <2>1. NoValues \in Values /\ Paired(NoValues)  BY DEF NoValues, Values, Paired
  <2>2. ASSUME found PROVE store[t] \in Values /\ Paired(store[t])
    BY <1>1, <2>2 DEF IInv, TypeOK
  <2>3. QED  BY <2>1, <2>2
<1>3. tok \in Tokens \union {None} /\ (tok \in ended => tok \in raced)
  <2>1. None \notin ended  BY NoneAssumption DEF NoneAssumption, IInv, TypeOK
  <2>2. ASSUME found, t \in ended PROVE t \in raced
    BY <2>2 DEF IInv, OnlyRacesRevive
  <2>3. QED  BY <1>1, <2>1, <2>2
<1>4. Become(q, d) /\ UNCHANGED <<users, rows, store, jar, ended, raced, known>>
  BY DEF Load, history
<1>5. req[q].pc = "load"  BY DEF Load
<1> HIDE DEF v, tok
<1>6. c \in Request /\ c.values = v /\ c.token = tok /\ c.pc = req[q].pc
  BY <1>1, <1>2, <1>3 DEF Request
<1>7. Good(c)  BY <1>2, <1>6, <1>5 DEF Good
<1>8. c.token \in ended => c.token \in raced  BY <1>3, <1>6
<1> HIDE DEF c
<1>9. Leads(c, Handle(c)) /\ Leads(c, [c EXCEPT !.pc = "check"])
  BY <1>7, HandleLeads DEF Leads, Good, Request, Pc
<1>10. Good(d) /\ d.token \in {c.token, None}  BY <1>9 DEF Leads
<1> HIDE DEF d
<1>11. Witnessed(d)
  <2>1. None \notin ended  BY NoneAssumption DEF NoneAssumption, IInv, TypeOK
  <2>2. QED  BY <1>8, <1>10, <2>1 DEF Witnessed
<1>12. QED  BY <1>4, <1>10, <1>11, OfRequest, RequestStep

(* A step of one request on a copy that it keeps.                          *)
LEMMA LeadsStep ==
    ASSUME IInv, NEW q \in Slots, NEW d, Leads(req[q], d), Become(q, d),
           users' \in SUBSET Users, rows' \in SUBSET (Users \X Hashes),
           known' \in [Browsers -> Told], UNCHANGED <<store, jar, ended, raced>>
    PROVE  IInv'
BY KeepsWitness, RequestStep DEF Leads

(* Load, the commit and the look-ups may fail.                             *)
LEMMA FailStep ==
    ASSUME IInv, NEW q \in Slots, LoadFails(q) \/ CommitFails(q)
    PROVE  IInv'
<1>1. Fail(q) /\ UNCHANGED <<users, rows, store, jar, history>>
  BY DEF LoadFails, CommitFails
<1>2. Become(q, Answer([req[q] EXCEPT !.status = "fail"]))  BY <1>1 DEF Fail
<1>3. Leads(req[q], Answer([req[q] EXCEPT !.status = "fail"]))  BY OfRequest, FailLeads
<1>4. QED  BY <1>1, <1>2, <1>3, OfRequest, LeadsStep DEF history

(* CheckRemember only looks.                                               *)
LEMMA CheckStep == ASSUME IInv, NEW q \in Slots, CheckRemember(q) PROVE IInv'
<1> DEFINE c == req[q]
           yes == [c EXCEPT !.pc = "getuser"]
           no == [c EXCEPT !.pc = "leave", !.forced = TRUE, !.rem = None]
<1>1. Good(c) /\ c \in Request  BY OfRequest
<1>2. ASSUME c.rem \in rows PROVE Leads(c, yes)
  <2>1. c.rem \in Users \X Hashes  BY <1>2, OfRequest
  <2>2. /\ yes \in Request /\ yes.values = c.values /\ yes.rem = c.rem
        /\ yes.token = c.token
    BY <1>1 DEF Request, Pc
  <2> HIDE DEF yes, c
  <2>3. QED  BY <1>1, <2>1, <2>2 DEF Leads, Good
<1>3. Leads(c, no)
  <2>1. "leave" \in Pc \ {"getuser"} /\ TRUE \in BOOLEAN  BY DEF Pc
  <2>2. QED  BY <1>1, <2>1, Moves
<1>4. /\ (c.rem \in rows /\ Become(q, yes)) \/ Become(q, no)
      /\ UNCHANGED <<users, rows, store, jar, ended, raced>>
  BY DEF CheckRemember
<1>5. known' \in [Browsers -> Told]
  <2>1. known \in [Browsers -> Told]  BY OfRequest
  <2>2. ASSUME NEW b PROVE [known EXCEPT ![b].rem = None] \in [Browsers -> Told]
    BY <2>1 DEF Told
  <2>3. known' \in {known, [known EXCEPT ![c.browser].rem = None]}  BY DEF CheckRemember
  <2>4. QED  BY <2>1, <2>2, <2>3
<1> HIDE DEF yes, no
<1>6. QED  BY <1>2, <1>3, <1>4, <1>5, OfRequest, LeadsStep

(* The user of a valid hash and the hash enter the copy together.          *)
LEMMA GetRememberedStep == ASSUME IInv, NEW q \in Slots, GetRemembered(q) PROVE IInv'
<1> DEFINE c == req[q]
           v == [c.values EXCEPT !.user = c.rem[1], !.rt = c.rem[2]]
           d == [c EXCEPT !.values = v, !.modified = TRUE]
           d0 == [c EXCEPT !.values.user = c.rem[1], !.values.rt = c.rem[2], !.modified = TRUE]
<1>0. Good(c) /\ c \in Request /\ users \in SUBSET Users  BY OfRequest
<1>1. UNCHANGED <<users, rows, store, jar, ended, raced, known>>
  BY DEF GetRemembered, history
<1>2. CASE Fail(q)
  <2>1. Become(q, Answer([req[q] EXCEPT !.status = "fail"]))  BY <1>2 DEF Fail
  <2>2. Leads(req[q], Answer([req[q] EXCEPT !.status = "fail"]))  BY OfRequest, FailLeads
  <2>3. QED  BY <1>1, <2>1, <2>2, OfRequest, LeadsStep
<1>3. CASE c.rem[1] \in users /\ Become(q, Handle(d0))
  <2>1. c.rem[1] \in Users /\ c.rem[1] # None
    BY <1>0, <1>3, NoneAssumption DEF NoneAssumption
  <2>2. c.rem[2] \in Hashes  BY <1>0 DEF GetRemembered, Good
  <2>3. v \in Values /\ Paired(v)  BY <1>0, <2>1, <2>2 DEF Values, Paired, Request
  <2>4. d0 = d  BY <1>0 DEF Request
  <2> HIDE DEF v
  <2>5. Good(d) /\ d.token = c.token  BY <1>0, <2>3, NewValues
  <2> HIDE DEF d, d0
  <2>6. Leads(c, Handle(d))  BY <2>5, HandleLeads, LeadsOn
  <2>7. QED  BY <1>1, <1>3, <2>4, <2>6, OfRequest, LeadsStep
<1>4. QED  BY <1>2, <1>3 DEF GetRemembered

(* PostUserLogin puts a user that exists into the copy.                    *)
LEMMA LoginStep == ASSUME IInv, NEW q \in Slots, PostUserLogin(q) PROVE IInv'
<1> DEFINE c == req[q]
           v == [c.values EXCEPT !.user = c.user]
           d == [c EXCEPT !.values = v, !.modified = TRUE]
           d0 == [c EXCEPT !.values.user = c.user, !.modified = TRUE]
           ins == [c EXCEPT !.pc = "insert"]
<1>0. Good(c) /\ c \in Request /\ users \in SUBSET Users  BY OfRequest
<1>1. UNCHANGED <<users, rows, store, jar, ended, raced, known>>
  BY DEF PostUserLogin, history
<1>2. \/ c.user \in users /\ (Become(q, ins) \/ Become(q, Finish(d0)))
      \/ Become(q, Refused(c))
  BY DEF PostUserLogin
<1>3. CASE c.user \in users /\ Become(q, Finish(d0))
  <2>1. c.user \in Users /\ c.user # None
    BY <1>0, <1>3, NoneAssumption DEF NoneAssumption
  <2>2. v \in Values /\ Paired(v)  BY <1>0, <2>1 DEF Values, Paired, Request
  <2>3. d0 = d  BY <1>0 DEF Request
  <2> HIDE DEF v
  <2>4. Good(d) /\ d.token = c.token  BY <1>0, <2>2, NewValues
  <2> HIDE DEF d, d0
  <2>5. Leads(c, Finish(d))  BY <2>4, FinishLeads, LeadsOn
  <2>6. QED  BY <1>1, <1>3, <2>3, <2>5, OfRequest, LeadsStep
<1>4. CASE Become(q, ins)
  <2>1. Leads(c, ins)  BY <1>0 DEF Leads, Good, Request, Pc
  <2> HIDE DEF ins
  <2>2. QED  BY <1>1, <1>4, <2>1, OfRequest, LeadsStep
<1>5. CASE Become(q, Refused(c))
  <2>1. Leads(c, Refused(c))  BY <1>0, FailLeads
  <2>2. QED  BY <1>1, <1>5, <2>1, OfRequest, LeadsStep
<1>6. QED  BY <1>2, <1>3, <1>4, <1>5

(* InsertToken puts the user and the hash of the new row into the copy.    *)
LEMMA InsertStep == ASSUME IInv, NEW q \in Slots, InsertToken(q) PROVE IInv'
<1> DEFINE c == req[q]
<1>0. Good(c) /\ c \in Request /\ users \in SUBSET Users /\ rows \in SUBSET (Users \X Hashes)
  BY OfRequest
<1>1. UNCHANGED <<users, store, jar, ended, raced, known>>
  BY DEF InsertToken, history
<1>2. ASSUME c.user \in users, NEW h \in Hashes, rows' = rows \cup {<<c.user, h>>},
             Become(q, Finish([c EXCEPT !.modified = TRUE, !.setRem = {<<c.user, h>>},
                                        !.values.user = c.user, !.values.rt = h]))
      PROVE  IInv'
  <2> DEFINE v == [c.values EXCEPT !.user = c.user, !.rt = h]
             d == [c EXCEPT !.values = v, !.modified = TRUE]
             e == [d EXCEPT !.setRem = {<<c.user, h>>}]
             e0 == [c EXCEPT !.modified = TRUE, !.setRem = {<<c.user, h>>},
                             !.values.user = c.user, !.values.rt = h]
  <2>1. c.user \in Users /\ c.user # None
    BY <1>0, <1>2, NoneAssumption DEF NoneAssumption
  <2>2. v \in Values /\ Paired(v)  BY <1>0, <2>1 DEF Values, Paired, Request
  <2>3. e0 = e  BY <1>0 DEF Request
  <2>4. <<c.user, h>> \in Users \X Hashes  BY <2>1
  <2> HIDE DEF v
  <2>5. Good(d) /\ d.token = c.token  BY <1>0, <2>2, NewValues
  <2> HIDE DEF d
  <2>6. /\ e \in Request /\ e.values = d.values /\ e.token = d.token /\ e.pc = d.pc
        /\ e.rem = d.rem
    BY <2>4, <2>5 DEF Good, Request, Cookie
  <2> HIDE DEF e, e0
  <2>7. Good(e) /\ e.token = c.token  BY <2>5, <2>6 DEF Good
  <2>8. Leads(c, Finish(e))  BY <2>7, FinishLeads, LeadsOn
  <2>9. Become(q, Finish(e))  BY <1>2, <2>3 DEF e0
  <2>10. rows' \in SUBSET (Users \X Hashes)  BY <1>0, <1>2, <2>4
  <2>11. QED  BY <1>0, <1>1, <2>8, <2>9, <2>10, OfRequest, LeadsStep
<1>3. CASE Become(q, Refused(c)) /\ rows' = rows
  <2>1. Leads(c, Refused(c))  BY <1>0, FailLeads
  <2>2. QED  BY <1>1, <1>3, <2>1, OfRequest, LeadsStep
<1>4. QED  BY <1>2, <1>3 DEF InsertToken

(* The row of the remember token goes, or an error is ignored.             *)
LEMMA DeleteRowStep == ASSUME IInv, NEW q \in Slots, DeleteRow(q) PROVE IInv'
<1> DEFINE c == req[q]
           d == [c EXCEPT !.pc = "leave"]
<1>1. Good(c) /\ c \in Request  BY OfRequest
<1>2. Leads(c, d)  BY <1>1 DEF Leads, Good, Request, Pc
<1>3. Become(q, d) /\ UNCHANGED <<users, store, jar, ended, raced, known>>
  BY DEF DeleteRow, history
<1>4. rows' \in SUBSET (Users \X Hashes)  BY OfRequest DEF DeleteRow
<1> HIDE DEF d
<1>5. QED  BY <1>2, <1>3, <1>4, OfRequest, LeadsStep

(* The deletes of the session fail and nobody looks.                       *)
LEMMA LeaveFailsStep == ASSUME IInv, NEW q \in Slots, LeaveFails(q) PROVE IInv'
<1>1. Become(q, Left(req[q])) /\ UNCHANGED <<users, rows, store, jar, ended, raced, known>>
  BY DEF LeaveFails, history
<1>2. Leads(req[q], Left(req[q]))  BY OfRequest, LeftLeads
<1>3. QED  BY <1>1, <1>2, OfRequest, LeadsStep

(* A response that is lost.                                                *)
LEMMA LoseStep == ASSUME IInv, NEW q \in Slots, LoseResponse(q) PROVE IInv'
<1>1. Become(q, FreeSlot) /\ UNCHANGED <<users, rows, store, jar, ended, raced>>
  BY DEF LoseResponse, Become
<1>2. Leads(req[q], FreeSlot)  BY FreeGood DEF Leads
<1>3. known' \in [Browsers -> Told]
  <2>1. NotTold \in Told  BY DEF NotTold, Told
  <2>2. QED  BY <2>1, OfRequest DEF LoseResponse
<1>4. QED  BY <1>1, <1>2, <1>3, OfRequest, LeadsStep
-----------------------------------------------------------------------------
(* Steps that change no token, copy or store entry of any request keep     *)
(* what is said of sessions.                                               *)
LEMMA SessionsKept ==
    ASSUME IInv, TypeOK', UNCHANGED <<store, ended, raced>>,
           \A p \in Slots : Good(req'[p]) /\ req'[p].token \in {req[p].token, None}
    PROVE  IInv'
<1>1. ASSUME NEW p \in Slots PROVE Witnessed(req[p])'
  <2>1. Witnessed(req'[p])  BY KeepsWitness
  <2>2. QED  BY <2>1 DEF Witnessed
<1>2. QED  BY <1>1 DEF IInv, OnlyRacesRevive

(* The response arrives: its cookies enter the jar.                        *)
LEMMA RespondStep == ASSUME IInv, NEW q \in Slots, Respond(q) PROVE IInv'
<1> DEFINE c == req[q]
           b == c.browser
           told == c.alone /\ c.status = "ok"
           js == IF c.setSess = None THEN jar[b].sess ELSE c.setSess
           jr == IF c.setRem = {} THEN jar[b].rem ELSE CHOOSE k \in c.setRem : TRUE
           ko == known[b].out \/ (told /\ c.op = "logout")
           ka == IF told /\ c.op = "login" /\ ~c.expired THEN c.user ELSE known[b].as
           kr == IF told /\ c.op = "login" /\ c.remember THEN c.user ELSE known[b].rem
<1>0. c \in Request /\ TypeOK  BY OfRequest DEF IInv
<1>1. UNCHANGED <<users, rows, store, ended, raced>> /\ req' = [req EXCEPT ![q] = FreeSlot]
  BY DEF Respond
<1>2. jar' \in [Browsers -> [sess : Tokens \union {None}, rem : Cookie]]
  <2>1. jar' = [jar EXCEPT ![b].sess = js, ![b].rem = jr]  BY DEF Respond
  <2>2. ASSUME b \in Browsers PROVE js \in Tokens \union {None} /\ jr \in Cookie
    <3>1. jar[b].sess \in Tokens \union {None} /\ jar[b].rem \in Cookie
      BY <1>0, <2>2 DEF TypeOK
    <3>2. c.setSess \in Tokens \union {None} /\ c.setRem \subseteq Cookie  BY <1>0 DEF Request
    <3>3. c.setRem # {} => (CHOOSE k \in c.setRem : TRUE) \in c.setRem  BY Zenon
    <3>4. QED  BY <3>1, <3>2, <3>3
  <2> HIDE DEF js, jr
  <2>3. QED  BY <1>0, <2>1, <2>2 DEF TypeOK
<1>3. known' \in [Browsers -> Told]
  <2>1. known' = [known EXCEPT ![b] = [out |-> ko, as |-> ka, rem |-> kr]]  BY DEF Respond
  <2>2. ASSUME b \in Browsers PROVE ko \in BOOLEAN /\ ka \in Users \union {None} /\ kr \in Users \union {None}
    <3>1. known[b] \in Told  BY <1>0, <2>2 DEF TypeOK
    <3>2. c.user \in Users \union {None} /\ c.alone \in BOOLEAN  BY <1>0 DEF Request
    <3>3. QED  BY <3>1, <3>2 DEF Told
  <2> HIDE DEF ko, ka, kr
  <2>3. QED  BY <1>0, <2>1, <2>2 DEF TypeOK, Told
<1>4. FreeSlot \in Request /\ Good(FreeSlot) /\ FreeSlot.token = None  BY FreeGood DEF Good
<1>5. TypeOK'  BY <1>0, <1>1, <1>2, <1>3, <1>4 DEF TypeOK
<1>6. ASSUME NEW p \in Slots PROVE Good(req'[p]) /\ req'[p].token \in {req[p].token, None}
  <2>1. CASE p = q  BY <1>0, <1>1, <1>4, <2>1 DEF TypeOK
  <2>2. CASE p # q
    <3>1. req'[p] = req[p]  BY <1>0, <1>1, <2>2 DEF TypeOK
    <3>2. QED  BY <3>1, OfRequest
  <2>3. QED  BY <2>1, <2>2
<1>7. QED  BY <1>1, <1>5, <1>6, SessionsKept

(* A browser is closed.                                                    *)
LEMMA CloseStep == ASSUME IInv, NEW b \in Browsers, CloseBrowser(b) PROVE IInv'
<1>0. TypeOK  BY DEF IInv
<1>1. UNCHANGED <<users, rows, store, req, ended, raced>>  BY DEF CloseBrowser
<1>2. jar' \in [Browsers -> [sess : Tokens \union {None}, rem : Cookie]]
  BY <1>0 DEF CloseBrowser, TypeOK
<1>3. known' \in [Browsers -> Told]  BY <1>0 DEF CloseBrowser, TypeOK, Told
<1>4. TypeOK'  BY <1>0, <1>1, <1>2, <1>3 DEF TypeOK
<1>5. ASSUME NEW p \in Slots PROVE Good(req'[p]) /\ req'[p].token \in {req[p].token, None}
  BY <1>1, OfRequest
<1>6. QED  BY <1>1, <1>4, <1>5, SessionsKept

(* A request as a browser sends it.                                        *)
NewRequest(b, op, u, rm, s, r, al) ==
    [FreeSlot EXCEPT !.pc = "load", !.browser = b, !.op = op, !.user = u, !.remember = rm,
                     !.sess = s, !.rem = r, !.alone = al]

(* It has no copy of a session yet.                                        *)
LEMMA NewGood ==
    ASSUME NEW b \in Browsers, NEW op \in Op, NEW u \in Users \union {None}, NEW rm \in BOOLEAN,
           NEW s \in Tokens \union {None}, NEW r \in Cookie, NEW al \in BOOLEAN
    PROVE  /\ Good(NewRequest(b, op, u, rm, s, r, al))
           /\ NewRequest(b, op, u, rm, s, r, al).token = None
<1> DEFINE e == [FreeSlot EXCEPT !.pc = "load", !.browser = b]
           f == [e EXCEPT !.op = op, !.user = u]
           g == [f EXCEPT !.remember = rm, !.sess = s]
           n == [g EXCEPT !.rem = r, !.alone = al]
<1>1. FreeSlot \in Request /\ FreeSlot.values = NoValues /\ FreeSlot.token = None
  BY FreeGood DEF Good, FreeSlot
<1>2. NewRequest(b, op, u, rm, s, r, al) = n  BY DEF NewRequest, FreeSlot
<1> HIDE DEF n
<1>3. f \in Request /\ f.values = NoValues /\ f.token = None /\ f.pc = "load"
  <2>1. "load" \in Pc  BY DEF Pc
  <2>2. e \in Request /\ e.values = NoValues /\ e.token = None /\ e.pc = "load"
    BY <1>1, <2>1 DEF Request
  <2> HIDE DEF e
  <2>3. QED  BY <2>2 DEF Request
<1> HIDE DEF f
<1>4. n \in Request /\ n.values = NoValues /\ n.token = None /\ n.pc = "load"
  <2>1. g \in Request /\ g.values = NoValues /\ g.token = None /\ g.pc = "load"
    BY <1>3 DEF Request
  <2> HIDE DEF g
  <2>2. QED  BY <2>1 DEF Request, n
<1>5. QED  BY <1>2, <1>4 DEF Good, Paired, NoValues

(* A browser sends a request; those it overlaps are no longer alone.       *)
LEMMA SendStep == ASSUME IInv, NEW q \in Slots, Send(q) PROVE IInv'
<1>0. TypeOK  BY DEF IInv
<1>1. PICK b \in Browsers, op \in Op, u \in Users \union {None}, rm \in BOOLEAN : Start(q, b, op, u, rm)
  BY InputAssumption DEF Send, InputAssumption
<1> DEFINE others == {p \in Slots : Active(p) /\ req[p].browser = b}
           new == [FreeSlot EXCEPT !.pc = "load", !.browser = b, !.op = op, !.user = u,
                                   !.remember = rm, !.sess = jar[b].sess, !.rem = jar[b].rem,
                                   !.alone = others = {}]
           ko == known[b].out /\ op # "login"
           ka == IF op \in {"login", "logout"} THEN None ELSE known[b].as
           kr == IF op \in {"login", "logout"} THEN None ELSE known[b].rem
<1>2. UNCHANGED <<users, rows, store, jar, ended, raced>>  BY <1>1 DEF Start
<1>3. Good(new) /\ new.token = None
  <2>1. jar[b].sess \in Tokens \union {None} /\ jar[b].rem \in Cookie  BY <1>0 DEF TypeOK
  <2> DEFINE al == others = {}
  <2>2. al \in BOOLEAN  OBVIOUS
  <2>3. new = NewRequest(b, op, u, rm, jar[b].sess, jar[b].rem, al)
    BY Zenon DEF NewRequest
  <2> HIDE DEF new, others, al
  <2>4. QED  BY <2>1, <2>2, <2>3, NewGood
<1>4. req' = [p \in Slots |-> IF p = q THEN new
                              ELSE IF p \in others THEN [req[p] EXCEPT !.alone = FALSE]
                              ELSE req[p]]
  BY <1>1 DEF Start
<1>5. ASSUME NEW p \in Slots PROVE Good(req'[p]) /\ req'[p].token \in {req[p].token, None}
  <2> HIDE DEF new, others
  <2>1. Good(req[p]) /\ req[p] \in Request  BY OfRequest
  <2>2. Good([req[p] EXCEPT !.alone = FALSE]) /\ [req[p] EXCEPT !.alone = FALSE].token = req[p].token
    BY <2>1 DEF Good, Request
  <2>3. QED  BY <1>3, <1>4, <2>1, <2>2
<1>6. known' \in [Browsers -> Told]
  <2>1. known' = [known EXCEPT ![b] = [out |-> ko, as |-> ka, rem |-> kr]]  BY <1>1 DEF Start
  <2>2. known[b] \in Told  BY <1>0 DEF TypeOK
  <2>3. ko \in BOOLEAN /\ ka \in Users \union {None} /\ kr \in Users \union {None}  BY <2>2 DEF Told
  <2> HIDE DEF ko, ka, kr
  <2>4. QED  BY <1>0, <2>1, <2>3 DEF TypeOK, Told
<1> HIDE DEF new, others
<1>7. req' \in [Slots -> Request]  BY <1>4, <1>5 DEF Good
<1>8. TypeOK'  BY <1>0, <1>2, <1>6, <1>7 DEF TypeOK
<1>9. QED  BY <1>2, <1>5, <1>8, SessionsKept

(* A user is deleted, with its remember tokens.                            *)
LEMMA DeleteUserStep == ASSUME IInv, NEW u \in Users, DeleteUser(u) PROVE IInv'
<1>0. TypeOK  BY DEF IInv
<1>1. UNCHANGED <<store, jar, ended, raced>> /\ users' \in SUBSET Users
      /\ rows' \in SUBSET (Users \X Hashes)
  BY <1>0 DEF DeleteUser, TypeOK
<1>2. known' \in [Browsers -> Told]
  <2>1. NotTold \in Told  BY DEF NotTold, Told
  <2>2. QED  BY <2>1 DEF DeleteUser
<1>3. ASSUME NEW p \in Slots
      PROVE  Good(req'[p]) /\ req'[p].token \in {req[p].token, None}
  <2>1. Good(req[p]) /\ req[p] \in Request  BY OfRequest
  <2>2. req'[p] = [req[p] EXCEPT !.alone = FALSE]  BY DEF DeleteUser
  <2>3. QED  BY <2>1, <2>2 DEF Good, Request
<1>4. req' \in [Slots -> Request]  BY <1>3 DEF DeleteUser, Good
<1>5. TypeOK'  BY <1>0, <1>1, <1>2, <1>4 DEF TypeOK
<1>6. QED  BY <1>1, <1>3, <1>5, SessionsKept

(* The deadline of a session passes.                                       *)
LEMMA ExpireStep == ASSUME IInv, NEW t \in Tokens, Expire(t) PROVE IInv'
<1>0. TypeOK  BY DEF IInv
<1>1. UNCHANGED <<users, rows, jar, ended, raced>> /\ store' = [store EXCEPT ![t] = None]
  BY DEF Expire
<1>2. known' \in [Browsers -> Told]
  <2>1. \A b \in Browsers : [known[b] EXCEPT !.as = None] \in Told  BY <1>0 DEF TypeOK, Told
  <2>2. known' = [b \in Browsers |-> [known[b] EXCEPT !.as = None]]  BY DEF Expire
  <2>3. QED  BY <2>1, <2>2
<1>3. ASSUME NEW p \in Slots
      PROVE  Good(req'[p]) /\ req'[p].token = req[p].token
  <2>1. Good(req[p]) /\ req[p] \in Request  BY OfRequest
  <2>2. req'[p] \in {req[p], [req[p] EXCEPT !.expired = TRUE]}  BY DEF Expire
  <2>3. QED  BY <2>1, <2>2 DEF Good, Request
<1>4. req' \in [Slots -> Request]
  <2>1. req' = [p \in Slots |-> req'[p]]  BY DEF Expire
  <2>2. QED  BY <1>3, <2>1 DEF Good
<1>5. TypeOK'  BY <1>0, <1>1, <1>2, <1>4 DEF TypeOK
<1>6. \A x \in Tokens : store'[x] # None => store'[x] = store[x]  BY <1>0, <1>1 DEF TypeOK
<1>7. ASSUME NEW p \in Slots PROVE Witnessed(req[p])'
  BY <1>1, <1>3, OfRequest DEF Witnessed
<1>8. \A x \in Tokens : store'[x] # None => Paired(store'[x])  BY <1>6 DEF IInv
<1>9. OnlyRacesRevive'
  <2>1. ended \subseteq Tokens  BY <1>0 DEF TypeOK
  <2>2. QED  BY <1>1, <1>6, <2>1 DEF IInv, OnlyRacesRevive
<1>10. QED  BY <1>3, <1>5, <1>7, <1>8, <1>9 DEF IInv

(* A new token is in nobody's hands, and was in nobody's.                  *)
LEMMA FreshNotHeld ==
    ASSUME NEW t, FreshToken(t)
    PROVE  store[t] = None /\ \A p \in Slots : req[p].token # t
BY DEF FreshToken

(* Logout takes the session out of the store and notes who holds a copy.   *)
LEMMA LeaveStep == ASSUME IInv, NEW q \in Slots, Leave(q) PROVE IInv'
<1> DEFINE c == req[q]
<1>0. Good(c) /\ c \in Request /\ TypeOK  BY OfRequest DEF IInv
<1>1. PICK t \in Tokens :
        /\ FreshToken(t)
        /\ \E note \in {FALSE} \union IF StoreFails THEN {c.values.note} ELSE {} :
              Become(q, Left([c EXCEPT !.token = t, !.expired = FALSE, !.values.note = note]))
        /\ ended' = (ended \ {t}) \union ({c.token} \ {None})
        /\ raced' = (raced \ {t}) \union {x \in {c.token} \ {None} : Holders(x, q) # {}}
  BY DEF Leave
<1>2. c.values.note \in BOOLEAN /\ c.token \in Tokens \union {None}
  BY <1>0 DEF Request, Values
<1>3. PICK note \in BOOLEAN :
        Become(q, Left([c EXCEPT !.token = t, !.expired = FALSE, !.values.note = note]))
  BY <1>1, <1>2
<1> DEFINE d == [c EXCEPT !.token = t, !.expired = FALSE, !.values.note = note]
<1>4. Good(d) /\ d.token = t
  <2> DEFINE v == [c.values EXCEPT !.note = note]
             e == [c EXCEPT !.token = t, !.expired = FALSE, !.values = v]
  <2>1. v \in Values /\ Paired(v)  BY <1>0 DEF Good, Request, Values, Paired
  <2>2. d = e  BY <1>0 DEF Request
  <2> HIDE DEF v
  <2>3. e \in Request /\ e.values = v /\ e.token = t /\ e.pc = c.pc /\ e.rem = c.rem
    BY <1>0, <2>1 DEF Request
  <2> HIDE DEF e, d
  <2>4. QED  BY <1>0, <2>1, <2>2, <2>3 DEF Good
<1>5. req' = [req EXCEPT ![q] = Left(d)]  BY <1>3 DEF Become
<1> HIDE DEF d
<1>6. Good(Left(d)) /\ Left(d) \in Request /\ Left(d).token \in {t, None}
  BY <1>4, LeftLeads DEF Leads, Good
<1>7. /\ store' \in [Tokens -> Values \union {None}]
      /\ \A x \in Tokens : store'[x] # None => store'[x] = store[x] /\ x # c.token
  <2>1. store' = IF c.token = None THEN store ELSE [store EXCEPT ![c.token] = None]
    BY DEF Leave
  <2>2. None \notin Tokens  BY NoneAssumption DEF NoneAssumption
  <2> HIDE DEF c
  <2>3. QED  BY <1>0, <1>2, <2>1, <2>2 DEF TypeOK
<1>8. UNCHANGED <<users, rows, jar, known>>  BY DEF Leave
<1>9. ended' \subseteq Tokens /\ raced' \subseteq Tokens
  BY <1>0, <1>1, <1>2 DEF TypeOK
<1>10. TypeOK'  BY <1>0, <1>5, <1>6, <1>7, <1>8, <1>9 DEF TypeOK
<1>11. \A p \in Slots : req[p].token # t  BY <1>1, FreshNotHeld
<1>12. t \notin ended' /\ None \notin ended'
  <2>1. None \notin ended  BY <1>0, NoneAssumption DEF NoneAssumption, TypeOK
  <2>2. t # None  BY NoneAssumption DEF NoneAssumption
  <2>3. QED  BY <1>1, <1>11, <2>1, <2>2
<1>13. ASSUME NEW p \in Slots PROVE Good(req'[p]) /\ Witnessed(req[p])'
  <2>1. CASE p = q
    <3>1. req'[p] = Left(d)  BY <1>0, <1>5, <2>1 DEF TypeOK
    <3>2. QED  BY <1>6, <1>12, <3>1 DEF Witnessed
  <2>2. CASE p # q
    <3>1. req'[p] = req[p]  BY <1>0, <1>5, <2>2 DEF TypeOK
    <3>2. Good(req[p]) /\ Witnessed(req[p])  BY OfRequest
    <3>3. ASSUME req[p].token \in ended' PROVE req[p].token \in raced'
      <4>1. CASE req[p].token = c.token
        <5>1. p \in Holders(c.token, q)  BY <2>2, <4>1 DEF Holders
        <5>2. c.token # None  BY <1>12, <3>3, <4>1
        <5>3. QED  BY <1>1, <4>1, <5>1, <5>2
      <4>2. CASE req[p].token # c.token
        BY <1>1, <1>11, <3>2, <3>3, <4>2 DEF Witnessed
      <4>3. QED  BY <4>1, <4>2
    <3>4. QED  BY <3>1, <3>2, <3>3 DEF Witnessed
  <2>3. QED  BY <2>1, <2>2
<1>14. \A x \in Tokens : store'[x] # None => Paired(store'[x])  BY <1>7 DEF IInv
<1>15. ASSUME NEW x \in ended', store'[x] # None PROVE x \in raced'
  <2>1. x \in Tokens /\ x # c.token /\ store[x] # None  BY <1>7, <1>9, <1>15
  <2>2. x \in ended /\ x # t  BY <1>1, <1>12, <1>15, <2>1
  <2>3. x \in raced  BY <2>1, <2>2 DEF IInv, OnlyRacesRevive
  <2>4. QED  BY <1>1, <2>2, <2>3
<1>16. QED  BY <1>10, <1>13, <1>14, <1>15 DEF IInv, OnlyRacesRevive

(* A commit writes the copy under its token, or under a new one.           *)
LEMMA CommitStep == ASSUME IInv, NEW q \in Slots, Commit(q) PROVE IInv'
<1> DEFINE c == req[q]
<1>0. Good(c) /\ Witnessed(c) /\ c \in Request /\ TypeOK  BY OfRequest DEF IInv
<1>1. c.token \in Tokens \union {None} /\ c.values \in Values /\ Paired(c.values)
  BY <1>0 DEF Request, Good
<1>2. None \notin Tokens /\ None \notin ended
  BY <1>0, NoneAssumption DEF NoneAssumption, TypeOK
<1>3. PICK t \in IF c.token = None THEN {x \in Tokens : FreshToken(x)} ELSE {c.token} :
        /\ Become(q, Answer([c EXCEPT !.setSess = t]))
        /\ store' = [store EXCEPT ![t] = IF c.expired THEN None ELSE c.values]
        /\ ended' = IF c.token = None THEN ended \ {t} ELSE ended
        /\ raced' = IF c.token = None THEN raced \ {t} ELSE raced
  BY DEF Commit
<1>4. t \in Tokens /\ (c.token = None => FreshToken(t)) /\ (c.token # None => t = c.token)
  BY <1>1, <1>3
<1> DEFINE d == [c EXCEPT !.setSess = t]
<1>5. Good(d)  BY <1>0, <1>4 DEF Good, Request
<1>6. req' = [req EXCEPT ![q] = Answer(d)]  BY <1>3 DEF Become
<1> HIDE DEF d
<1>7. Good(Answer(d)) /\ Answer(d) \in Request /\ Answer(d).token = None
  BY <1>5, AnswerLeads DEF Good
<1>8. UNCHANGED <<users, rows, jar, known>>  BY DEF Commit
<1>9. /\ store' \in [Tokens -> Values \union {None}] /\ ended' \subseteq ended
      /\ ended' \subseteq Tokens /\ raced' \subseteq Tokens
      /\ \A x \in Tokens : x # t => store'[x] = store[x]
      /\ store'[t] # None => store'[t] = c.values
  BY <1>0, <1>1, <1>3, <1>4 DEF TypeOK
<1>10. TypeOK'  BY <1>0, <1>6, <1>7, <1>8, <1>9 DEF TypeOK
<1>11. ASSUME NEW x, x \in ended', x \in raced PROVE x \in raced'
  BY <1>3, <1>11
<1>12. ASSUME NEW p \in Slots PROVE Good(req'[p]) /\ Witnessed(req[p])'
  <2>1. CASE p = q
    <3>1. req'[p] = Answer(d)  BY <1>0, <1>6, <2>1 DEF TypeOK
    <3>2. QED  BY <1>2, <1>7, <1>9, <3>1 DEF Witnessed
  <2>2. CASE p # q
    <3>1. req'[p] = req[p]  BY <1>0, <1>6, <2>2 DEF TypeOK
    <3>2. Good(req[p]) /\ Witnessed(req[p])  BY OfRequest
    <3>3. QED  BY <1>9, <1>11, <3>1, <3>2 DEF Witnessed
  <2>3. QED  BY <2>1, <2>2
<1>13. ASSUME NEW x \in Tokens, store'[x] # None PROVE Paired(store'[x])
  BY <1>1, <1>9, <1>13 DEF IInv
<1>14. ASSUME NEW x \in ended', store'[x] # None PROVE x \in raced'
  <2>1. x \in ended /\ x \in Tokens  BY <1>9
  <2>2. CASE x # t
    <3>1. x \in raced  BY <1>9, <1>14, <2>1, <2>2 DEF IInv, OnlyRacesRevive
    <3>2. QED  BY <1>11, <3>1
  <2>3. CASE x = t
    <3>1. c.token # None  BY <1>3, <1>14, <2>3
    <3>2. x \in raced  BY <1>0, <1>4, <2>1, <2>3, <3>1 DEF Witnessed
    <3>3. QED  BY <1>11, <3>2
  <2>4. QED  BY <2>2, <2>3
<1>15. QED  BY <1>10, <1>12, <1>13, <1>14 DEF IInv, OnlyRacesRevive
-----------------------------------------------------------------------------
(* Every step keeps the invariant.                                         *)
LEMMA Step == IInv /\ [Next]_vars => IInv'
<1> SUFFICES ASSUME IInv, [Next]_vars PROVE IInv'
  OBVIOUS
<1>1. ASSUME NEW q \in Slots, Browser(q) PROVE IInv'
  BY <1>1, SendStep, RespondStep, LoseStep DEF Browser
<1>2. ASSUME NEW q \in Slots, Manager(q) PROVE IInv'
  BY <1>2, LoadStep, FailStep, CheckStep, GetRememberedStep, LeaveStep, LeaveFailsStep, CommitStep
  DEF Manager
<1>3. ASSUME NEW q \in Slots, Handlers(q) PROVE IInv'
  BY <1>3, LoginStep, InsertStep, DeleteRowStep DEF Handlers
<1>4. ASSUME NEW b \in Browsers, CloseBrowser(b) PROVE IInv'  BY <1>4, CloseStep
<1>5. ASSUME NEW t \in Tokens, Expire(t) PROVE IInv'  BY <1>5, ExpireStep
<1>6. ASSUME NEW u \in Users, DeleteUser(u) PROVE IInv'  BY <1>6, DeleteUserStep
<1>7. CASE UNCHANGED vars
  BY <1>7 DEF vars, IInv, TypeOK, Witnessed, OnlyRacesRevive
<1>8. QED  BY <1>1, <1>2, <1>3, <1>4, <1>5, <1>6, <1>7 DEF Next

(* At the beginning there are no sessions and no requests.                 *)
LEMMA Beginning == Init => IInv
<1> SUFFICES ASSUME Init PROVE IInv
  OBVIOUS
<1>1. FreeSlot \in Request /\ NotTold \in Told /\ None \in Cookie
  BY FreeGood DEF Good, NotTold, Told, Cookie
<1>2. TypeOK  BY <1>1 DEF Init, TypeOK
<1>3. ASSUME NEW q \in Slots PROVE Good(req[q]) /\ Witnessed(req[q])
  BY FreeGood DEF Init, Witnessed
<1>4. QED  BY <1>2, <1>3 DEF Init, IInv, OnlyRacesRevive

(* The invariant of sessions: types, copies in order, and a witness for    *)
(* every copy of a session that ended.                                     *)
THEOREM Invariant == Spec => []IInv
BY Beginning, Step, PTL DEF Spec

(* The variables of LoginSession keep their types.                         *)
THEOREM Types == Spec => []TypeOK
<1>1. IInv => TypeOK  BY DEF IInv
<1>2. QED  BY <1>1, Invariant, PTL

(* Whatever fails and overlaps, a session with a remember token has its    *)
(* user, so that Logout (auth-handlers.go:97) withdraws the token of the   *)
(* user it logs out.                                                       *)
THEOREM Remembered == Spec => []RememberedIsLoggedIn
<1>1. IInv => RememberedIsLoggedIn  BY DEF IInv, Good, Paired, RememberedIsLoggedIn
<1>2. QED  BY <1>1, Invariant, PTL

(* A session that ended comes back only through a request that held a copy *)
(* of it when it ended: never through a stale cookie.                      *)
THEOREM RacesOnly == Spec => []OnlyRacesRevive
<1>1. IInv => OnlyRacesRevive  BY DEF IInv
<1>2. QED  BY <1>1, Invariant, PTL
=============================================================================
