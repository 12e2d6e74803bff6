--------------------------- MODULE AccountsProofs ---------------------------
(***************************************************************************)
(* Theorems about the tables users and tokens, for every number of calls   *)
(* that overlap, users, emails, values and tokens.                         *)
(***************************************************************************)
EXTENDS Accounts, TLAPS

Copying == {"getToken", "getTokenOnce", "getAgain", "update"}
Inserting == {"deleteTokens", "insertToken"}
Checking == {"getByToken", "getTokenAgain", "findToken", "getUser", "validUser"}
Places == Finished \union Copying \union Inserting \union Checking

(* What a call carries. *)
CallOK(c) ==
    /\ c \in CallState
    /\ c.pc \in Copying => c.value \in Values /\ (c.id # 0 => c.row # NoRow)
    /\ c.row # NoRow => c.row \in Row /\ c.id \in Ids
    /\ c.pc \in Inserting => /\ c.secret \in Secrets /\ c.target \in Ids
                             /\ c.id \in {0, c.target} /\ c.row = NoRow
    /\ c.pc \in Checking => c.secret \in Secrets

(* A token that was withdrawn when the call began stays so: it is not      *)
(* inserted again.  The first check that lets a call pass says that its    *)
(* token was not withdrawn; ValidToken looks at the expiry last.           *)
LateOK(c, tk, ex, iss) ==
    /\ c.late /\ c.pc \in Checking => c.secret \in iss /\ (tk[c.secret] = 0 \/ c.secret \in ex)
    /\ c.late => c.pc \notin {"getTokenAgain", "getUser", "accepted"}
    /\ c.late /\ c.pc = "validUser" => c.secret \in ex

(* A copy that is not stale is the row.                                    *)
CopyOK(c, us, ser) ==
    c.row # NoRow =>
        c.id < ser /\ (~c.stale /\ us[c.id] # NoRow => us[c.id] = c.row)

(* A token about to be inserted is new, and its user has no other, unless  *)
(* calls crossed.                                                          *)
NewOK(c, tk, iss, cr) ==
    /\ c.pc \in Inserting => c.secret \notin iss
    /\ c.pc = "insertToken" /\ c.id = c.target /\ c.target \notin cr =>
         \A s \in Secrets : tk[s] # c.target

OwnSecrets ==
    \A p, q \in Calls :
        call[p].pc \in Inserting /\ call[q].pc \in Inserting /\ call[p].secret = call[q].secret
        => p = q

CallInv ==
    /\ \A p \in Calls : /\ CallOK(call[p]) /\ LateOK(call[p], tokens, expired, issued)
                        /\ CopyOK(call[p], users, serial) /\ NewOK(call[p], tokens, issued, crossed)
    /\ OwnSecrets

IntendedOK == \A id \in Ids : users[id] # NoRow => intended[id] \in Row

(* The inductive invariant. *)
IInv ==
    /\ TypeOK /\ CallInv /\ OneTokenPerUser /\ IssuedTokenWorks
    /\ IntendedOK /\ OnlyStaleCopiesLoseUpdates
-----------------------------------------------------------------------------
(* What the assumptions say. *)
LEMMA Bounds == MaxUsers \in Nat /\ None \notin Secrets /\ None \notin Emails
BY AccountsAssumption DEF AccountsAssumption

(* Ids are numbers, and no user has the id 0.                              *)
LEMMA IdRange ==
    /\ 0 \in 0 .. MaxUsers /\ 0 \in 0 .. MaxUsers + 1 /\ 0 \notin Ids
    /\ Ids \subseteq 0 .. MaxUsers /\ 0 .. MaxUsers \subseteq 0 .. MaxUsers + 1
    /\ 0 .. MaxUsers + 1 \subseteq Nat
    /\ \A n \in 0 .. MaxUsers : n # 0 => n \in Ids
BY Bounds DEF Ids

(* A call that is over is a call, whatever it was.                         *)
LEMMA NoCallType == NoCall \in CallState
BY IdRange DEF NoCall, CallState, Finished

(* Where a call arrives, and what it carries there.                        *)
LEMMA ReachedType ==
    ASSUME NEW c \in CallState, NEW pc \in Places
    PROVE  /\ Reached(c, pc) \in CallState /\ Reached(c, pc).pc = pc
           /\ Reached(c, pc).late = c.late
           /\ pc \in Finished => Reached(c, pc).row = NoRow
           /\ pc \notin Finished =>
                /\ Reached(c, pc).target = c.target /\ Reached(c, pc).id = c.id
                /\ Reached(c, pc).row = c.row /\ Reached(c, pc).field = c.field
                /\ Reached(c, pc).value = c.value /\ Reached(c, pc).secret = c.secret
                /\ Reached(c, pc).stale = c.stale
<1>1. CASE pc \in Finished
  <2> DEFINE d == [NoCall EXCEPT !.pc = pc, !.late = c.late]
  <2>1. d \in CallState
    BY <1>1, NoCallType DEF CallState
  <2>2. d.pc = pc /\ d.late = c.late /\ d.row = NoRow
    BY DEF NoCall
  <2>3. Reached(c, pc) = d
    BY <1>1 DEF Reached
  <2> QED BY <1>1, <2>1, <2>2, <2>3
<1>2. CASE pc \notin Finished
  <2> DEFINE d == [c EXCEPT !.pc = pc]
  <2>1. d \in CallState
    BY DEF CallState, Places, Copying, Inserting, Checking
  <2>2. /\ d.pc = pc /\ d.target = c.target /\ d.id = c.id /\ d.row = c.row /\ d.field = c.field
        /\ d.value = c.value /\ d.secret = c.secret /\ d.stale = c.stale /\ d.late = c.late
    BY DEF CallState
  <2>3. Reached(c, pc) = d
    BY <1>2 DEF Reached
  <2> QED BY <1>2, <2>1, <2>2, <2>3
<1> QED BY <1>1, <1>2

(* A call that goes on keeps what it carries.                              *)
LEMMA MoveOK ==
    ASSUME NEW tk, NEW ex, NEW iss, NEW us, NEW ser, NEW c, NEW pc \in Places,
           CallOK(c), LateOK(c, tk, ex, iss), CopyOK(c, us, ser),
           pc \in Copying => c.pc \in Copying,
           pc \in Inserting => c.pc \in Inserting,
           pc \in Checking => c.pc \in Checking,
           pc \in {"getTokenAgain", "getUser", "accepted"} => ~c.late,
           pc = "validUser" /\ c.late => c.secret \in ex
    PROVE  /\ CallOK(Reached(c, pc)) /\ LateOK(Reached(c, pc), tk, ex, iss)
           /\ CopyOK(Reached(c, pc), us, ser) /\ Reached(c, pc).pc = pc
<1> DEFINE d == Reached(c, pc)
<1>1. /\ d \in CallState /\ d.pc = pc /\ d.late = c.late
      /\ pc \in Finished => d.row = NoRow
      /\ pc \notin Finished =>
           /\ d.target = c.target /\ d.id = c.id /\ d.row = c.row
           /\ d.value = c.value /\ d.secret = c.secret /\ d.stale = c.stale
  BY ReachedType DEF CallOK
<1>2. pc \in Finished => pc \notin Copying /\ pc \notin Inserting /\ pc \notin Checking
  BY DEF Finished, Copying, Inserting, Checking
<1> HIDE DEF d
<1>3. CallOK(d)
  BY <1>1, <1>2 DEF CallOK
<1>4. LateOK(d, tk, ex, iss)
  <2>1. d.late /\ d.pc \in Checking => c.late /\ c.pc \in Checking /\ d.secret = c.secret
    BY <1>1, <1>2
  <2>2. d.late => d.pc \notin {"getTokenAgain", "getUser", "accepted"}
    BY <1>1
  <2>3. d.late /\ d.pc = "validUser" => d.secret \in ex
    <3>1. "validUser" \notin Finished
      BY DEF Finished
    <3> QED BY <1>1, <3>1
  <2> QED BY <2>1, <2>2, <2>3 DEF LateOK
<1>5. CopyOK(d, us, ser)
  BY <1>1 DEF CopyOK
<1> QED BY <1>1, <1>3, <1>4, <1>5 DEF d

(* A call that begins.                                                     *)
LEMMA StartType ==
    ASSUME NEW p, NEW pc \in Places, NEW id \in 0 .. MaxUsers + 1
    PROVE  /\ Start(p, pc, id) \in CallState
           /\ Start(p, pc, id).pc = pc /\ Start(p, pc, id).target = id /\ Start(p, pc, id).id = 0
           /\ Start(p, pc, id).row = NoRow /\ ~Start(p, pc, id).late
           /\ Start(p, pc, id).value = None /\ Start(p, pc, id).secret = None
           /\ ~Start(p, pc, id).stale
<1>1. Start(p, pc, id) \in CallState
  BY NoCallType DEF Start, CallState, Places, Copying, Inserting, Checking
<1> QED BY <1>1, NoCallType DEF Start, NoCall

Good(c) ==
    /\ CallOK(c) /\ LateOK(c, tokens, expired, issued) /\ CopyOK(c, users, serial)
    /\ NewOK(c, tokens, issued, crossed)

(* What a call is after a step that reads or fails.                        *)
Quiet(p, c) ==
    /\ Become(p, c) /\ Good(c)
    /\ c.pc \in Inserting => c.pc = "deleteTokens" /\ Fresh(c.secret)

(* A call that goes on but inserts nothing.                                *)
LEMMA QuietMove ==
    ASSUME CallInv, NEW p \in Calls, NEW pc \in Places, Goto(p, pc), pc \notin Inserting,
           pc \in Copying => call[p].pc \in Copying,
           pc \in Checking => call[p].pc \in Checking,
           pc \in {"getTokenAgain", "getUser", "accepted"} => ~call[p].late,
           pc = "validUser" /\ call[p].late => call[p].secret \in expired
    PROVE  \E c : Quiet(p, c)
<1> DEFINE c == Reached(call[p], pc)
<1>1. CallOK(call[p]) /\ LateOK(call[p], tokens, expired, issued) /\ CopyOK(call[p], users, serial)
  BY DEF CallInv
<1>2. /\ CallOK(c) /\ LateOK(c, tokens, expired, issued) /\ CopyOK(c, users, serial) /\ c.pc = pc
  BY <1>1, MoveOK
<1>3. Become(p, c)
  BY DEF Goto
<1> HIDE DEF c
<1>4. "insertToken" \in Inserting
  BY DEF Inserting
<1>5. NewOK(c, tokens, issued, crossed)
  BY <1>2, <1>4 DEF NewOK
<1> QED BY <1>2, <1>3, <1>5 DEF Quiet, Good

(* A call that takes a copy of a row that exists.                          *)
LEMMA QuietCopy ==
    ASSUME TypeOK, NEW p, NEW c \in CallState, Become(p, c), c.pc \in Copying,
           NEW id \in Ids, users[id] # NoRow, c.id = id, c.row = users[id], ~c.late,
           c.value \in Values
    PROVE  \E d : Quiet(p, d)
<1>1. users[id] \in Row /\ id < serial
  <2>1. users[id] \in Row
    BY DEF TypeOK
  <2>2. ~(id >= serial)
    BY DEF TypeOK
  <2>3. id \in Nat /\ serial \in Nat
    BY Bounds DEF TypeOK, Ids
  <2> QED BY <2>1, <2>2, <2>3
<1>2. c.pc \notin Inserting /\ c.pc \notin Checking /\ c.pc # "accepted" /\ c.pc # "insertToken"
  BY DEF Copying, Inserting, Checking
<1>3. CallOK(c)
  BY <1>1, <1>2 DEF CallOK
<1>4. LateOK(c, tokens, expired, issued) /\ NewOK(c, tokens, issued, crossed)
  BY <1>2 DEF LateOK, NewOK, Checking
<1>5. CopyOK(c, users, serial)
  BY <1>1 DEF CopyOK
<1> QED BY <1>2, <1>3, <1>4, <1>5 DEF Quiet, Good

(* A call that has failed.                                                 *)
LEMMA QuietError ==
    ASSUME NEW p, Become(p, [NoCall EXCEPT !.pc = "error"]) PROVE \E c : Quiet(p, c)
<1> DEFINE c == [NoCall EXCEPT !.pc = "error"]
<1>1. c \in CallState /\ c.pc = "error" /\ c.row = NoRow /\ ~c.late
  BY NoCallType DEF CallState, NoCall, Finished
<1> HIDE DEF c
<1>2. c.pc \notin Copying /\ c.pc \notin Inserting /\ c.pc \notin Checking /\ c.pc # "insertToken"
  BY <1>1 DEF Copying, Inserting, Checking
<1>3. Good(c)
  BY <1>1, <1>2 DEF Good, CallOK, LateOK, CopyOK, NewOK
<1> QED BY <1>2, <1>3 DEF Quiet, c

(* Every call that begins begins well.                                     *)
LEMMA QuietAsk ==
    ASSUME TypeOK, CallInv, NEW p \in Calls, Ask(p)
    PROVE  \E c : Quiet(p, c)
<1>s. 1 .. serial \subseteq 0 .. MaxUsers + 1 /\ Ids \subseteq 0 .. MaxUsers + 1
  BY Bounds DEF TypeOK, Ids
<1>1. ASSUME NEW id \in 1 .. serial, NEW v \in Values, GetForUpdate(p, id, v)
      PROVE  \E c : Quiet(p, c)
  <2> DEFINE c == [Start(p, "getToken", id) EXCEPT !.id = id, !.row = users[id], !.value = v]
  <2>1. CASE Exists(id)
    <3>1. "getToken" \in Copying /\ "getToken" \in Places
      BY DEF Copying, Places
    <3>2. users[id] \in Row /\ id \in Ids /\ users[id] # NoRow /\ id \in 0 .. MaxUsers
      BY <2>1, IdRange DEF Exists, TypeOK
    <3>3. /\ Start(p, "getToken", id) \in CallState /\ Start(p, "getToken", id).pc = "getToken"
          /\ ~Start(p, "getToken", id).late
      BY <1>s, <3>1, StartType
    <3>4. /\ c \in CallState /\ c.pc = "getToken" /\ c.id = id /\ c.row = users[id] /\ c.value = v
          /\ c.late = Start(p, "getToken", id).late
      BY <3>2, <3>3 DEF CallState
    <3>5. Become(p, c)
      BY <1>1, <2>1 DEF GetForUpdate
    <3> HIDE DEF c
    <3> QED BY <3>1, <3>2, <3>3, <3>4, <3>5, QuietCopy
  <2>2. CASE ~Exists(id)
    BY <1>1, <2>2, QuietError DEF GetForUpdate
  <2> QED BY <2>1, <2>2
<1>2. ASSUME NEW e \in Emails, NEW v \in Values, GetForReset(p, e, v)
      PROVE  \E c : Quiet(p, c)
  <2>1. ASSUME NEW id \in Ids, users[id].email = e,
               Become(p, [Start(p, "getTokenOnce", id) EXCEPT
                            !.id = id, !.row = users[id], !.field = "password", !.value = v])
        PROVE  \E c : Quiet(p, c)
    <3> DEFINE c == [Start(p, "getTokenOnce", id) EXCEPT
                       !.id = id, !.row = users[id], !.field = "password", !.value = v]
    <3>1. "getTokenOnce" \in Copying /\ "getTokenOnce" \in Places
      BY DEF Copying, Places
    <3>2. users[id] # NoRow
      BY <2>1, Bounds DEF NoRow
    <3>3. users[id] \in Row /\ id \in 0 .. MaxUsers
      BY <3>2, IdRange DEF TypeOK
    <3>4. /\ Start(p, "getTokenOnce", id) \in CallState
          /\ Start(p, "getTokenOnce", id).pc = "getTokenOnce"
          /\ ~Start(p, "getTokenOnce", id).late
      BY <1>s, <3>1, StartType
    <3>5. /\ c \in CallState /\ c.pc = "getTokenOnce" /\ c.id = id /\ c.row = users[id]
          /\ c.value = v /\ c.late = Start(p, "getTokenOnce", id).late
      BY <3>3, <3>4 DEF CallState
    <3>6. Become(p, c)
      BY <2>1
    <3> HIDE DEF c
    <3> QED BY <3>1, <3>2, <3>4, <3>5, <3>6, QuietCopy
  <2> QED BY <1>2, <2>1, QuietError DEF GetForReset
<1>3. ASSUME NEW id \in 1 .. serial, NEW v \in Values, ResetOnEmpty(p, id, v)
      PROVE  \E c : Quiet(p, c)
  <2> DEFINE s == Start(p, "getAgain", id)  c == [s EXCEPT !.field = "password", !.value = v]
  <2>1. "getAgain" \in Copying /\ "getAgain" \in Places
    BY DEF Copying, Places
  <2>2. s \in CallState /\ s.pc = "getAgain" /\ ~s.late /\ s.row = NoRow /\ s.id = 0
    BY <1>s, <2>1, StartType
  <2> HIDE DEF s
  <2>3. c \in CallState /\ c.pc = "getAgain" /\ c.value = v /\ c.late = s.late /\ c.row = NoRow
        /\ c.id = 0
    BY <2>2 DEF CallState
  <2>4. Become(p, c)
    BY <1>3 DEF ResetOnEmpty, s
  <2> HIDE DEF c
  <2>5. c.pc \notin Inserting /\ c.pc \notin Checking /\ c.pc # "accepted"
    BY <2>3 DEF Inserting, Checking
  <2>6. CallOK(c) /\ CopyOK(c, users, serial)
    BY <2>3, <2>5 DEF CallOK, CopyOK
  <2>7. LateOK(c, tokens, expired, issued) /\ NewOK(c, tokens, issued, crossed)
    BY <2>2, <2>3, <2>5 DEF LateOK, NewOK
  <2> QED BY <2>4, <2>5, <2>6, <2>7 DEF Quiet, Good
<1>4. ASSUME NEW id \in Ids, NEW s \in Secrets, NEW uid \in {0, id}, GenerateToken(p, id, uid, s)
      PROVE  \E c : Quiet(p, c)
  <2> DEFINE b == Start(p, "deleteTokens", id)  c == [b EXCEPT !.id = uid, !.secret = s]
  <2>1. "deleteTokens" \in Inserting /\ "deleteTokens" \in Places
    BY DEF Inserting, Places
  <2>2. /\ b \in CallState /\ b.pc = "deleteTokens" /\ ~b.late /\ b.row = NoRow /\ b.target = id
    BY <1>s, <2>1, StartType
  <2>3. uid \in 0 .. MaxUsers
    BY IdRange
  <2> HIDE DEF b
  <2>4. /\ c \in CallState /\ c.pc = "deleteTokens" /\ c.id = uid /\ c.secret = s
        /\ c.late = b.late /\ c.row = NoRow /\ c.target = id
    BY <2>2, <2>3 DEF CallState
  <2>5. Become(p, c) /\ Fresh(s)
    BY <1>4 DEF GenerateToken, b
  <2> HIDE DEF c
  <2>6. c.pc \notin Copying /\ c.pc \notin Checking /\ c.pc # "accepted" /\ c.pc # "insertToken"
    BY <2>4 DEF Copying, Checking
  <2>7. CallOK(c) /\ CopyOK(c, users, serial)
    BY <2>4, <2>6 DEF CallOK, CopyOK
  <2>8. LateOK(c, tokens, expired, issued) /\ NewOK(c, tokens, issued, crossed)
    BY <2>2, <2>4, <2>5, <2>6 DEF LateOK, NewOK, Fresh, Checking
  <2> QED BY <2>4, <2>5, <2>7, <2>8 DEF Quiet, Good
<1>5. ASSUME NEW s \in Secrets, NEW pc \in {"getByToken", "findToken"}, Present(p, s, pc)
      PROVE  \E c : Quiet(p, c)
  <2> DEFINE b == Start(p, pc, 0)  l == Withdrawn(s)  c == [b EXCEPT !.secret = s, !.late = l]
  <2>1. pc \in Checking /\ pc \in Places /\ pc \notin Copying /\ pc \notin Inserting
        /\ pc \notin {"getTokenAgain", "getUser", "accepted", "validUser", "insertToken"}
    BY DEF Checking, Places, Copying, Inserting
  <2>2. b \in CallState /\ b.pc = pc /\ b.row = NoRow
    BY <2>1, IdRange, StartType
  <2>3. l \in BOOLEAN
    BY DEF Withdrawn
  <2>4. Become(p, c)
    BY <1>5 DEF Present
  <2>5. l => s \in issued /\ (tokens[s] = 0 \/ s \in expired)
    BY DEF Withdrawn
  <2> HIDE DEF b, l
  <2>6. /\ c \in CallState /\ c.pc = pc /\ c.secret = s /\ c.late = l /\ c.row = NoRow
    BY <2>2, <2>3 DEF CallState
  <2> HIDE DEF c
  <2>7. CallOK(c) /\ CopyOK(c, users, serial)
    BY <2>1, <2>6 DEF CallOK, CopyOK
  <2>8. LateOK(c, tokens, expired, issued) /\ NewOK(c, tokens, issued, crossed)
    BY <2>1, <2>3, <2>5, <2>6 DEF LateOK, NewOK
  <2> QED BY <2>1, <2>4, <2>6, <2>7, <2>8 DEF Quiet, Good
<1> QED BY <1>1, <1>2, <1>3, <1>4, <1>5 DEF Ask

(* Every call that reads goes on well.                                     *)
LEMMA QuietRead ==
    ASSUME TypeOK, CallInv, NEW p \in Calls, Read(p)
    PROVE  \E c : Quiet(p, c)
<1>0. /\ CallOK(call[p]) /\ LateOK(call[p], tokens, expired, issued)
      /\ CopyOK(call[p], users, serial)
  BY DEF CallInv
<1>p. {"getAgain", "getToken", "update", "getTokenAgain", "getUser", "validUser", "accepted", "error"}
      \subseteq Places \ Inserting
  BY DEF Places, Finished, Copying, Checking, Inserting
<1>c. /\ {"getAgain", "getToken", "getTokenOnce", "update"} \cap Checking = {}
      /\ {"getTokenAgain", "getUser", "validUser", "accepted", "error"} \cap Copying = {}
      /\ {"error", "accepted"} \cap Checking = {}
      /\ {"getByToken", "getTokenAgain", "findToken", "getUser", "validUser"} \subseteq Checking
      /\ {"getAgain", "getToken", "getTokenOnce", "update"} \subseteq Copying
  BY DEF Copying, Checking
<1>1. CASE GetToken(p)
  <2>1. CASE At(p, "getTokenOnce") /\ Goto(p, "getAgain")
    BY <2>1, <1>p, <1>c, QuietMove DEF At
  <2>2. CASE At(p, "getToken") /\ Goto(p, "update")
    BY <2>2, <1>p, <1>c, QuietMove DEF At
  <2> QED BY <1>1, <2>1, <2>2 DEF GetToken
<1>2. CASE GetAgain(p)
  <2>1. At(p, "getAgain") /\ (Goto(p, "getToken") \/ Goto(p, "error"))
    BY <1>2 DEF GetAgain
  <2> QED BY <2>1, <1>p, <1>c, QuietMove DEF At
<1>3. CASE GetByToken(p)
  <2>1. At(p, "getByToken") /\ call[p].pc \in Checking
    BY <1>3, <1>c DEF GetByToken, At
  <2>2. CASE tokens[call[p].secret] # 0 /\ call[p].secret \notin expired
    <3>1. ~call[p].late
      BY <1>0, <2>1, <2>2 DEF LateOK
    <3>2. Goto(p, "getTokenAgain")
      BY <1>3, <2>2 DEF GetByToken
    <3> QED BY <2>1, <3>1, <3>2, <1>p, <1>c, QuietMove
  <2>3. CASE ~(tokens[call[p].secret] # 0 /\ call[p].secret \notin expired)
    <3>1. Goto(p, "error")
      BY <1>3, <2>3 DEF GetByToken
    <3> QED BY <3>1, <1>p, <1>c, QuietMove
  <2> QED BY <2>2, <2>3
<1>4. CASE GetUserForToken(p)
  <2> DEFINE s == call[p].secret
  <2>1. ASSUME NEW pc, call[p].pc \in {"getTokenAgain", "findToken"},
               Become(p, Reached([call[p] EXCEPT !.target = tokens[s]], pc)),
               \/ pc = "error"
               \/ pc = "validUser" /\ At(p, "findToken") /\ tokens[s] # 0
               \/ pc = "getUser" /\ At(p, "getTokenAgain")
        PROVE  \E c : Quiet(p, c)
    <3> DEFINE b == [call[p] EXCEPT !.target = tokens[s]]  c == Reached(b, pc)
    <3>1. call[p].pc \in Checking /\ call[p].pc \notin Copying /\ call[p].pc \notin Inserting
      BY <2>1, <1>c DEF Inserting, Copying
    <3>2. s \in Secrets /\ call[p] \in CallState
      BY <1>0, <3>1 DEF CallOK
    <3>3. tokens[s] \in 0 .. MaxUsers + 1
      BY <3>2, IdRange DEF TypeOK
    <3>4. /\ b \in CallState /\ b.pc = call[p].pc /\ b.row = call[p].row /\ b.id = call[p].id
          /\ b.secret = s /\ b.late = call[p].late /\ b.stale = call[p].stale
      <4> HIDE DEF s
      <4> QED BY <3>2, <3>3 DEF CallState, s
    <3>5. Become(p, c) /\ pc \in Places
      BY <2>1, <1>p
    <3>6. call[p].late /\ tokens[s] # 0 => s \in expired
      BY <1>0, <3>1 DEF LateOK
    <3>7. At(p, "getTokenAgain") => ~call[p].late
      BY <1>0 DEF LateOK, At
    <3> HIDE DEF b, s
    <3>8. CallOK(b) /\ CopyOK(b, users, serial)
      BY <1>0, <3>1, <3>2, <3>4 DEF CallOK, CopyOK
    <3>9. LateOK(b, tokens, expired, issued)
      BY <1>0, <3>4 DEF LateOK, s
    <3>10. CallOK(c) /\ LateOK(c, tokens, expired, issued) /\ CopyOK(c, users, serial) /\ c.pc = pc
      <4>1. pc \notin Copying /\ pc \notin Inserting /\ (pc \in Checking => b.pc \in Checking)
        BY <2>1, <3>1, <3>4, <1>p, <1>c
      <4>2. pc \in {"getTokenAgain", "getUser", "accepted"} => ~b.late
        BY <2>1, <3>4, <3>7
      <4>3. pc = "validUser" /\ b.late => b.secret \in expired
        BY <2>1, <3>4, <3>6
      <4> QED BY <3>5, <3>8, <3>9, <4>1, <4>2, <4>3, MoveOK
    <3> HIDE DEF c
    <3>11. pc \notin Inserting /\ pc # "insertToken"
      BY <2>1, <1>p
    <3>12. NewOK(c, tokens, issued, crossed)
      BY <3>10, <3>11 DEF NewOK
    <3> QED BY <3>5, <3>10, <3>11, <3>12 DEF Quiet, Good
  <2>3. CASE /\ call[p].pc \in {"getTokenAgain", "findToken"}
             /\ Become(p, Reached([call[p] EXCEPT !.target = tokens[s]],
                          IF tokens[s] = 0 THEN "error"
                          ELSE IF At(p, "findToken") THEN "validUser" ELSE "getUser"))
    <3> DEFINE pc == IF tokens[s] = 0 THEN "error"
                     ELSE IF At(p, "findToken") THEN "validUser" ELSE "getUser"
    <3>1. Become(p, Reached([call[p] EXCEPT !.target = tokens[s]], pc))
      BY <2>3
    <3>2. \/ pc = "error"
          \/ pc = "validUser" /\ At(p, "findToken") /\ tokens[s] # 0
          \/ pc = "getUser" /\ At(p, "getTokenAgain")
      BY <2>3 DEF At
    <3> HIDE DEF pc
    <3> QED BY <2>1, <2>3, <3>1, <3>2
  <2>4. CASE /\ call[p].pc \in {"getUser", "validUser"}
             /\ Goto(p, IF Exists(call[p].target) /\ ~(At(p, "validUser") /\ s \in expired)
                        THEN "accepted" ELSE "error")
    <3>1. CASE Exists(call[p].target) /\ ~(At(p, "validUser") /\ s \in expired)
      <4>1. Goto(p, "accepted")
        BY <2>4, <3>1
      <4>2. call[p].pc \in {"getUser", "validUser"}
        BY <2>4
      <4>3. ~(At(p, "validUser") /\ s \in expired)
        BY <3>1
      <4>4. ~call[p].late
        BY <1>0, <4>2, <4>3 DEF LateOK, At
      <4> QED BY <4>1, <4>2, <4>4, <1>p, <1>c, QuietMove
    <3>2. CASE ~(Exists(call[p].target) /\ ~(At(p, "validUser") /\ s \in expired))
      <4>1. Goto(p, "error")
        BY <2>4, <3>2
      <4> QED BY <4>1, <1>p, <1>c, QuietMove
    <3> QED BY <3>1, <3>2
  <2> QED BY <1>4, <2>3, <2>4 DEF GetUserForToken
<1> QED BY <1>1, <1>2, <1>3, <1>4 DEF Read

(* So does every call that fails.                                          *)
LEMMA QuietFail ==
    ASSUME CallInv, NEW p \in Calls, Fail(p) \/ InsertTokenFails(p)
    PROVE  \E c : Quiet(p, c)
<1>1. Goto(p, "error")
  BY DEF Fail, InsertTokenFails
<1>2. "error" \in Places /\ "error" \notin Inserting \union Copying \union Checking
  BY DEF Places, Finished, Inserting, Copying, Checking
<1> QED BY <1>1, <1>2, QuietMove
-----------------------------------------------------------------------------
(* The invariant is kept by a call that reads or fails.                    *)
LEMMA QuietStep ==
    ASSUME IInv, NEW p \in Calls, NEW c, Quiet(p, c), UNCHANGED Tables, UNCHANGED history
    PROVE  IInv'
<1>1. /\ UNCHANGED <<users, serial, tokens, expired>>
      /\ UNCHANGED <<issued, given, crossed, intended, overtaken>>
  BY DEF Tables, history
<1>2. /\ TypeOK /\ CallInv /\ OneTokenPerUser /\ IssuedTokenWorks /\ IntendedOK
      /\ OnlyStaleCopiesLoseUpdates
  BY DEF IInv
<1>3. call'[p] = c /\ (\A q \in Calls \ {p} : call'[q] = call[q]) /\ c \in CallState
      /\ call' \in [Calls -> CallState]
  BY <1>2 DEF TypeOK, Quiet, Good, CallOK, Become
<1>4. TypeOK'
  BY <1>1, <1>2, <1>3 DEF TypeOK, Exists
<1>5. OwnSecrets'
  BY <1>2, <1>3 DEF CallInv, OwnSecrets, Quiet, Fresh
<1>6. ASSUME NEW q \in Calls
      PROVE  /\ CallOK(call'[q]) /\ LateOK(call'[q], tokens', expired', issued')
             /\ CopyOK(call'[q], users', serial') /\ NewOK(call'[q], tokens', issued', crossed')
  <2>1. Good(call'[q])
    BY <1>2, <1>3 DEF CallInv, Quiet, Good
  <2> QED BY <1>1, <2>1 DEF Good
<1>7. CallInv'
  BY <1>5, <1>6 DEF CallInv
<1>8. OneTokenPerUser' /\ IssuedTokenWorks' /\ IntendedOK' /\ OnlyStaleCopiesLoseUpdates'
  BY <1>1, <1>2 DEF OneTokenPerUser, IssuedTokenWorks, IntendedOK, OnlyStaleCopiesLoseUpdates, Exists
<1> QED BY <1>4, <1>7, <1>8 DEF IInv

(* A row that is inserted gets an id that no copy has.                     *)
LEMMA InsertUserStep ==
    ASSUME IInv, NEW e \in Emails, NEW w \in Values, InsertUser(e, w)
    PROVE  IInv'
<1> DEFINE r == [email |-> e, password |-> w, name |-> w]
<1>1. /\ TypeOK /\ CallInv /\ OneTokenPerUser /\ IssuedTokenWorks /\ IntendedOK
      /\ OnlyStaleCopiesLoseUpdates
  BY DEF IInv
<1>2. /\ serial \in Ids /\ users' = [users EXCEPT ![serial] = r]
      /\ intended' = [intended EXCEPT ![serial] = users'[serial]] /\ serial' = serial + 1
      /\ UNCHANGED <<tokens, expired, call, issued, given, crossed, overtaken>>
  BY DEF InsertUser
<1>3. r \in Row /\ r # NoRow
  <2>1. r \in Row
    BY DEF Row
  <2>2. r.email # NoRow.email
    BY Bounds DEF NoRow
  <2> QED BY <2>1, <2>2
<1> HIDE DEF r
<1>4. users[serial] = NoRow
  <2>1. serial >= serial
    BY <1>2 DEF Ids
  <2> QED BY <1>1, <1>2, <2>1 DEF TypeOK
<1>5. /\ users'[serial] = r /\ intended'[serial] = r
      /\ \A id \in Ids \ {serial} : users'[id] = users[id] /\ intended'[id] = intended[id]
  BY <1>1, <1>2 DEF TypeOK
<1>6. serial' \in 1 .. MaxUsers + 1 /\ \A id \in Ids : id >= serial' => id >= serial /\ id # serial
  BY <1>2, Bounds DEF Ids
<1>7. TypeOK'
  <2>1. users' \in [Ids -> Row \union {NoRow}] /\ intended' \in [Ids -> Row \union {NoRow}]
    BY <1>1, <1>2, <1>3, <1>5 DEF TypeOK
  <2>2. \A id \in Ids : id >= serial' => users'[id] = NoRow
    BY <1>1, <1>5, <1>6 DEF TypeOK
  <2>3. \A s \in Secrets : tokens'[s] # 0 => Exists(tokens[s])' /\ s \in issued'
    <3> SUFFICES ASSUME NEW s \in Secrets, tokens[s] # 0 PROVE Exists(tokens[s])' /\ s \in issued
      BY <1>2
    <3>1. Exists(tokens[s]) /\ s \in issued
      BY <1>1 DEF TypeOK
    <3> QED BY <1>2, <1>3, <1>5, <3>1 DEF Exists
  <2> QED BY <1>1, <1>2, <1>6, <2>1, <2>2, <2>3 DEF TypeOK
<1>8. ASSUME NEW q \in Calls PROVE CopyOK(call[q], users', serial')
  <2> SUFFICES ASSUME call[q].row # NoRow
               PROVE  /\ call[q].id < serial'
                      /\ ~call[q].stale /\ users'[call[q].id] # NoRow => users'[call[q].id] = call[q].row
    BY DEF CopyOK
  <2>1. /\ call[q].id \in Ids /\ call[q].id < serial
        /\ ~call[q].stale /\ users[call[q].id] # NoRow => users[call[q].id] = call[q].row
    BY <1>1 DEF CallInv, CallOK, CopyOK
  <2>2. call[q].id < serial' /\ call[q].id # serial
    <3>1. \A i \in Nat, n \in Nat : i < n => i < n + 1 /\ i # n
      OBVIOUS
    <3>2. serial \in Nat /\ call[q].id \in Nat
      BY <1>2, <2>1, Bounds DEF Ids
    <3> QED BY <1>2, <2>1, <3>1, <3>2
  <2> QED BY <1>5, <2>1, <2>2
<1>9. CallInv'
  BY <1>1, <1>2, <1>8 DEF CallInv, OwnSecrets
<1>10. OneTokenPerUser' /\ IssuedTokenWorks'
  BY <1>1, <1>2 DEF OneTokenPerUser, IssuedTokenWorks
<1>11. IntendedOK' /\ OnlyStaleCopiesLoseUpdates'
  <2> SUFFICES ASSUME NEW id \in Ids, users'[id] # NoRow
               PROVE  /\ intended'[id] \in Row
                      /\ id \notin overtaken' =>
                           /\ users'[id].password = intended'[id].password
                           /\ users'[id].name = intended'[id].name
    BY DEF IntendedOK, OnlyStaleCopiesLoseUpdates, Exists
  <2>1. CASE id = serial
    BY <1>3, <1>5, <2>1
  <2>2. CASE id # serial
    BY <1>1, <1>2, <1>5, <2>2 DEF IntendedOK, OnlyStaleCopiesLoseUpdates, Exists
  <2> QED BY <2>1, <2>2
<1> QED BY <1>7, <1>9, <1>10, <1>11 DEF IInv

(* Tokens that go or expire, of whomever, leave the calls as they were.    *)
LEMMA FewerTokens ==
    ASSUME IInv, UNCHANGED call, UNCHANGED issued, UNCHANGED crossed,
           \A s \in Secrets : tokens'[s] \in {0, tokens[s]},
           expired \subseteq expired',
           \A q \in Calls : CopyOK(call[q], users', serial')
    PROVE  CallInv' /\ OneTokenPerUser'
<1>1. TypeOK /\ CallInv /\ OneTokenPerUser
  BY DEF IInv
<1>2. ASSUME NEW q \in Calls
      PROVE  LateOK(call[q], tokens', expired', issued) /\ NewOK(call[q], tokens', issued, crossed)
  <2>1. /\ CallOK(call[q]) /\ LateOK(call[q], tokens, expired, issued)
        /\ NewOK(call[q], tokens, issued, crossed)
    BY <1>1 DEF CallInv
  <2>2. LateOK(call[q], tokens', expired', issued)
    BY <2>1 DEF LateOK, CallOK
  <2>3. NewOK(call[q], tokens', issued, crossed)
    <3>1. "insertToken" \in Inserting
      BY DEF Inserting
    <3> QED BY <2>1, <3>1, IdRange DEF NewOK, CallOK
  <2> QED BY <2>2, <2>3
<1>3. CallInv'
  BY <1>1, <1>2 DEF CallInv, OwnSecrets
<1>4. OneTokenPerUser'
  BY <1>1 DEF OneTokenPerUser
<1> QED BY <1>3, <1>4

(* A user goes with its tokens.                                            *)
LEMMA DeleteUserStep ==
    ASSUME IInv, NEW id \in Ids, DeleteUser(id)
    PROVE  IInv'
<1>1. /\ TypeOK /\ CallInv /\ OneTokenPerUser /\ IssuedTokenWorks /\ IntendedOK
      /\ OnlyStaleCopiesLoseUpdates
  BY DEF IInv
<1>2. /\ users' = [users EXCEPT ![id] = NoRow]
      /\ tokens' = [s \in Secrets |-> IF tokens[s] = id THEN 0 ELSE tokens[s]]
      /\ given' = [given EXCEPT ![id] = None]
      /\ intended' = [intended EXCEPT ![id] = NoRow]
      /\ overtaken' = overtaken \ {id}
      /\ UNCHANGED <<serial, expired, call, issued, crossed>>
  BY DEF DeleteUser
<1>3. /\ users'[id] = NoRow /\ intended'[id] = NoRow /\ given'[id] = None
      /\ \A i \in Ids \ {id} : /\ users'[i] = users[i] /\ intended'[i] = intended[i]
                               /\ given'[i] = given[i]
      /\ \A s \in Secrets : tokens'[s] = IF tokens[s] = id THEN 0 ELSE tokens[s]
  BY <1>1, <1>2 DEF TypeOK
<1>4. TypeOK'
  <2>1. users' \in [Ids -> Row \union {NoRow}] /\ intended' \in [Ids -> Row \union {NoRow}]
    BY <1>1, <1>2 DEF TypeOK
  <2>2. tokens' \in [Secrets -> 0 .. MaxUsers] /\ given' \in [Ids -> Secrets \union {None}]
    <3>1. tokens' \in [Secrets -> 0 .. MaxUsers]
      BY <1>1, <1>2, IdRange DEF TypeOK
    <3> QED BY <1>1, <1>2, <3>1 DEF TypeOK
  <2>3. \A i \in Ids : i >= serial' => users'[i] = NoRow
    BY <1>1, <1>2, <1>3 DEF TypeOK
  <2>4. \A s \in Secrets : tokens'[s] # 0 => Exists(tokens[s])' /\ s \in issued'
    <3> SUFFICES ASSUME NEW s \in Secrets, tokens'[s] # 0
                 PROVE  Exists(tokens[s])' /\ s \in issued'
      OBVIOUS
    <3>1. tokens'[s] = tokens[s] /\ tokens[s] # id /\ tokens[s] # 0
      BY <1>3
    <3>2. tokens[s] \in Ids /\ users[tokens[s]] # NoRow /\ s \in issued
      BY <1>1, <3>1 DEF TypeOK, Exists
    <3> QED BY <1>2, <1>3, <3>1, <3>2 DEF Exists
  <2> QED BY <1>1, <1>2, <2>1, <2>2, <2>3, <2>4 DEF TypeOK
<1>5. ASSUME NEW q \in Calls PROVE CopyOK(call[q], users', serial')
  BY <1>1, <1>2, <1>3 DEF CallInv, CallOK, CopyOK
<1>6. CallInv' /\ OneTokenPerUser'
  BY <1>2, <1>3, <1>5, FewerTokens
<1>7. IssuedTokenWorks'
  BY <1>1, <1>2, <1>3 DEF IssuedTokenWorks, TypeOK
<1>8. IntendedOK' /\ OnlyStaleCopiesLoseUpdates'
  BY <1>1, <1>2, <1>3 DEF IntendedOK, OnlyStaleCopiesLoseUpdates, Exists
<1> QED BY <1>4, <1>6, <1>7, <1>8 DEF IInv

(* A token goes or expires.                                                *)
LEMMA EndTokenStep ==
    ASSUME IInv, NEW s \in Secrets, DeleteToken(s) \/ Expire(s)
    PROVE  IInv'
<1>1. /\ TypeOK /\ CallInv /\ OneTokenPerUser /\ IssuedTokenWorks /\ IntendedOK
      /\ OnlyStaleCopiesLoseUpdates
  BY DEF IInv
<1>2. /\ tokens' = tokens \/ tokens' = [tokens EXCEPT ![s] = 0]
      /\ expired' = expired \/ expired' = expired \union {s}
      /\ given' = [id \in Ids |-> IF given[id] = s THEN None ELSE given[id]]
      /\ UNCHANGED <<users, serial, call, issued, crossed, intended, overtaken>>
  BY DEF DeleteToken, Expire
<1>3. /\ \A t \in Secrets : tokens'[t] \in {0, tokens[t]} /\ (t # s => tokens'[t] = tokens[t])
      /\ \A t \in Secrets : t # s => (t \in expired' <=> t \in expired)
      /\ expired \subseteq expired'
  BY <1>1, <1>2 DEF TypeOK
<1>4. TypeOK'
  <2>1. tokens' \in [Secrets -> 0 .. MaxUsers] /\ expired' \subseteq Secrets
    BY <1>1, <1>2, IdRange DEF TypeOK
  <2>2. given' \in [Ids -> Secrets \union {None}]
    BY <1>1, <1>2 DEF TypeOK
  <2>3. \A t \in Secrets : tokens'[t] # 0 => Exists(tokens[t])' /\ t \in issued'
    <3> SUFFICES ASSUME NEW t \in Secrets, tokens'[t] # 0
                 PROVE  Exists(tokens[t])' /\ t \in issued'
      OBVIOUS
    <3>1. tokens'[t] = tokens[t]
      BY <1>3
    <3>2. Exists(tokens[t]) /\ t \in issued
      BY <1>1, <3>1 DEF TypeOK
    <3> QED BY <1>2, <3>1, <3>2 DEF Exists
  <2> QED BY <1>1, <1>2, <2>1, <2>2, <2>3 DEF TypeOK
<1>5. \A q \in Calls : CopyOK(call[q], users', serial')
  BY <1>1, <1>2 DEF CallInv
<1>6. CallInv' /\ OneTokenPerUser'
  BY <1>2, <1>3, <1>5, FewerTokens
<1>7. IssuedTokenWorks'
  BY <1>1, <1>2, <1>3 DEF IssuedTokenWorks, TypeOK
<1>8. IntendedOK' /\ OnlyStaleCopiesLoseUpdates'
  BY <1>1, <1>2 DEF IntendedOK, OnlyStaleCopiesLoseUpdates, Exists
<1> QED BY <1>4, <1>6, <1>7, <1>8 DEF IInv

(* An Update writes the row; the copies that others hold become stale, and *)
(* a stale copy that is written is recorded.                               *)
LEMMA UpdateStep ==
    ASSUME IInv, NEW p \in Calls, NEW answer \in {"done", "error"}, Update(p, answer)
    PROVE  IInv'
<1> DEFINE c == call[p]  id == c.id  w == Written(p)  d == Reached(c, answer)
<1>1. /\ TypeOK /\ CallInv /\ OneTokenPerUser /\ IssuedTokenWorks /\ IntendedOK
      /\ OnlyStaleCopiesLoseUpdates
  BY DEF IInv
<1>2. CallOK(c) /\ LateOK(c, tokens, expired, issued) /\ CopyOK(c, users, serial)
  BY <1>1 DEF CallInv
<1>3. c.pc = "update" /\ UNCHANGED <<serial, tokens, expired, issued, given, crossed>>
  BY DEF Update, At
<1>a. /\ answer \in Places /\ answer \in Finished /\ answer \notin Copying \union Inserting \union Checking
      /\ answer # "accepted" /\ answer # "validUser"
  BY DEF Places, Finished, Copying, Inserting, Checking
<1>4. CASE ~Exists(id)
  <2>1. Goto(p, answer) /\ UNCHANGED <<users, intended, overtaken>>
    BY <1>4 DEF Update
  <2>2. \E x : Quiet(p, x)
    BY <1>1, <1>a, <2>1, QuietMove
  <2> QED BY <1>3, <2>1, <2>2, QuietStep DEF Tables, history
<1>5. CASE Exists(id)
  <2>1. /\ users' = [users EXCEPT ![id] = w]
        /\ intended' = [intended EXCEPT ![id][c.field] = c.value]
        /\ overtaken' = IF c.stale THEN overtaken \union {id} ELSE overtaken
        /\ call' = [q \in Calls |->
                      IF q = p THEN d
                      ELSE IF HoldsCopy(q, id) THEN [call[q] EXCEPT !.stale = TRUE] ELSE call[q]]
    BY <1>5 DEF Update
  <2>2. id \in Ids /\ users[id] # NoRow /\ id # 0
    BY <1>5, IdRange DEF Exists
  <2>3. c.row \in Row /\ c.value \in Values /\ c.field \in {"name", "password"} /\ c \in CallState
    BY <1>2, <1>3, <2>2 DEF CallOK, CallState, Copying
  <2>4. w = [c.row EXCEPT ![c.field] = c.value]
    BY DEF Written
  <2>5. w \in Row /\ w # NoRow
    <3>1. w \in Row
      BY <2>3, <2>4 DEF Row
    <3>2. w.email # NoRow.email
      BY <3>1, Bounds DEF Row, NoRow
    <3> QED BY <3>1, <3>2
  <2>6. /\ CallOK(d) /\ LateOK(d, tokens, expired, issued) /\ d.pc = answer /\ d.row = NoRow
    BY <1>2, <1>a, <2>3, MoveOK, ReachedType
  <2>7. intended[id] \in Row /\ intended'[id] = [intended[id] EXCEPT ![c.field] = c.value]
    BY <1>1, <2>1, <2>2 DEF IntendedOK, TypeOK
  <2>8. intended'[id] \in Row
    BY <2>3, <2>7 DEF Row
  <2>9. /\ users'[id] = w
        /\ \A i \in Ids \ {id} : users'[i] = users[i] /\ intended'[i] = intended[i]
    BY <1>1, <2>1, <2>2 DEF TypeOK
  <2>10. call'[p] = d
    BY <2>1
  <2>11. ASSUME NEW q \in Calls, q # p
         PROVE  /\ call'[q] \in CallState
                /\ call'[q].pc = call[q].pc /\ call'[q].target = call[q].target
                /\ call'[q].id = call[q].id /\ call'[q].row = call[q].row
                /\ call'[q].value = call[q].value /\ call'[q].secret = call[q].secret
                /\ call'[q].late = call[q].late
                /\ call[q].id = id /\ call[q].row # NoRow => call'[q].stale = TRUE
                /\ call[q].id # id => call'[q].stale = call[q].stale
    <3>1. call[q] \in CallState
      BY <1>1 DEF TypeOK
    <3>2. CASE HoldsCopy(q, id)
      <4>1. call'[q] = [call[q] EXCEPT !.stale = TRUE]
        BY <2>1, <2>11, <3>2
      <4>2. call[q].id = id
        BY <3>2 DEF HoldsCopy
      <4> HIDE DEF id
      <4> QED BY <3>1, <4>1, <4>2 DEF CallState
    <3>3. CASE ~HoldsCopy(q, id)
      <4>1. call'[q] = call[q]
        BY <2>1, <2>11, <3>3
      <4> QED BY <3>1, <3>3, <4>1 DEF HoldsCopy
    <3> QED BY <3>2, <3>3
  <2>f. call' \in [Calls -> CallState]
    <3>1. \A q \in Calls : call'[q] \in CallState
      BY <2>6, <2>10, <2>11 DEF CallOK
    <3>2. call' = [q \in Calls |-> call'[q]]
      BY <2>1
    <3> QED BY <3>1, <3>2
  <2> HIDE DEF c, id, w, d
  <2>12. TypeOK'
    <3>1. users' \in [Ids -> Row \union {NoRow}]
      BY <1>1, <2>1, <2>5 DEF TypeOK
    <3>2. intended' \in [Ids -> Row \union {NoRow}]
      <4>1. DOMAIN intended' = Ids /\ intended' = [i \in Ids |-> intended'[i]]
        BY <1>1, <2>1 DEF TypeOK
      <4>2. \A i \in Ids : intended'[i] \in Row \union {NoRow}
        BY <1>1, <2>8, <2>9 DEF TypeOK
      <4> QED BY <4>1, <4>2
    <3>3. overtaken' \subseteq Ids
      BY <1>1, <2>1, <2>2 DEF TypeOK
    <3>4. \A i \in Ids : i >= serial' => users'[i] = NoRow
      <4> SUFFICES ASSUME NEW i \in Ids, i >= serial PROVE users'[i] = NoRow
        BY <1>3
      <4>1. users[i] = NoRow
        BY <1>1 DEF TypeOK
      <4> QED BY <2>2, <2>9, <4>1
    <3>5. \A s \in Secrets : tokens'[s] # 0 => Exists(tokens[s])' /\ s \in issued'
      <4> SUFFICES ASSUME NEW s \in Secrets, tokens[s] # 0 PROVE Exists(tokens[s])' /\ s \in issued
        BY <1>3
      <4>1. Exists(tokens[s]) /\ s \in issued
        BY <1>1 DEF TypeOK
      <4>2. tokens'[s] = tokens[s]
        BY <1>3
      <4> QED BY <2>5, <2>9, <4>1, <4>2 DEF Exists
    <3> QED BY <1>1, <1>3, <2>f, <3>1, <3>2, <3>3, <3>4, <3>5 DEF TypeOK
  <2>13. ASSUME NEW q \in Calls
         PROVE  /\ CallOK(call'[q]) /\ LateOK(call'[q], tokens', expired', issued')
                /\ CopyOK(call'[q], users', serial') /\ NewOK(call'[q], tokens', issued', crossed')
    <3>1. CASE q = p
      <4>1. CopyOK(d, users', serial')
        BY <2>6 DEF CopyOK
      <4>2. NewOK(d, tokens', issued', crossed')
        BY <1>a, <2>6 DEF NewOK, Inserting
      <4> QED BY <1>3, <2>6, <2>10, <3>1, <4>1, <4>2
    <3>2. CASE q # p
      <4>1. /\ CallOK(call[q]) /\ LateOK(call[q], tokens, expired, issued)
            /\ CopyOK(call[q], users, serial) /\ NewOK(call[q], tokens, issued, crossed)
        BY <1>1 DEF CallInv
      <4>2. CallOK(call'[q])
        BY <2>11, <3>2, <4>1 DEF CallOK
      <4>3. LateOK(call'[q], tokens', expired', issued')
        <5>1. LateOK(call[q], tokens', expired', issued')
          BY <1>3, <4>1
        <5> QED BY <2>11, <3>2, <5>1, Zenon DEF LateOK
      <4>4. CopyOK(call'[q], users', serial')
        <5> SUFFICES ASSUME call[q].row # NoRow
                     PROVE  /\ call'[q].id < serial'
                            /\ ~call'[q].stale /\ users'[call'[q].id] # NoRow =>
                                 users'[call'[q].id] = call'[q].row
          BY <2>11, <3>2 DEF CopyOK
        <5>1. call'[q].id = call[q].id /\ call'[q].row = call[q].row /\ call[q].id \in Ids
          BY <2>11, <3>2, <4>1 DEF CallOK
        <5>2. call[q].id < serial'
          BY <1>3, <4>1 DEF CopyOK
        <5>3. CASE call[q].id = id
          BY <2>11, <3>2, <5>1, <5>2, <5>3
        <5>4. CASE call[q].id # id
          <6>1. users'[call[q].id] = users[call[q].id] /\ call'[q].stale = call[q].stale
            BY <2>9, <2>11, <3>2, <5>1, <5>4
          <6> QED BY <4>1, <5>1, <5>2, <6>1 DEF CopyOK
        <5> QED BY <5>3, <5>4
      <4>5. NewOK(call'[q], tokens', issued', crossed')
        BY <1>3, <2>11, <3>2, <4>1 DEF NewOK
      <4> QED BY <4>2, <4>3, <4>4, <4>5
    <3> QED BY <3>1, <3>2
  <2>14. OwnSecrets'
    <3> SUFFICES ASSUME NEW q \in Calls, NEW r \in Calls, call'[q].pc \in Inserting,
                        call'[r].pc \in Inserting, call'[q].secret = call'[r].secret
                 PROVE  q = r
      BY DEF OwnSecrets
    <3>1. q # p /\ r # p
      BY <1>a, <2>6, <2>10
    <3> QED BY <1>1, <2>11, <3>1 DEF CallInv, OwnSecrets
  <2>15. CallInv'
    BY <2>13, <2>14 DEF CallInv
  <2>16. OneTokenPerUser' /\ IssuedTokenWorks'
    BY <1>1, <1>3 DEF OneTokenPerUser, IssuedTokenWorks
  <2>17. IntendedOK'
    BY <1>1, <2>8, <2>9 DEF IntendedOK
  <2>18. OnlyStaleCopiesLoseUpdates'
    <3> SUFFICES ASSUME NEW i \in Ids, users'[i] # NoRow, i \notin overtaken'
                 PROVE  /\ users'[i].password = intended'[i].password
                        /\ users'[i].name = intended'[i].name
      BY DEF OnlyStaleCopiesLoseUpdates, Exists
    <3>1. CASE i # id
      <4>1. i \notin overtaken
        BY <2>1
      <4> QED BY <1>1, <2>9, <3>1, <4>1 DEF OnlyStaleCopiesLoseUpdates, Exists
    <3>2. CASE i = id
      <4>1. ~c.stale /\ id \notin overtaken
        BY <2>1, <3>2
      <4>2. c.row # NoRow
        BY <2>3, Bounds DEF Row, NoRow
      <4>3. c.row = users[id]
        BY <1>2, <2>2, <4>1, <4>2 DEF CopyOK, id
      <4>4. c.row.password = intended[id].password /\ c.row.name = intended[id].name
        BY <1>1, <2>2, <4>1, <4>3 DEF OnlyStaleCopiesLoseUpdates, Exists
      <4>5. users'[id] = [c.row EXCEPT ![c.field] = c.value]
        BY <2>4, <2>9
      <4>6. CASE c.field = "name"
        BY <2>3, <2>7, <3>2, <4>4, <4>5, <4>6 DEF Row
      <4>7. CASE c.field = "password"
        BY <2>3, <2>7, <3>2, <4>4, <4>5, <4>7 DEF Row
      <4> QED BY <2>3, <4>6, <4>7
    <3> QED BY <3>1, <3>2
  <2> QED BY <2>12, <2>15, <2>16, <2>17, <2>18 DEF IInv
<1> QED BY <1>4, <1>5

(* The tokens of the user go before the new one comes.                     *)
LEMMA DeleteTokensStep ==
    ASSUME IInv, NEW p \in Calls, NEW answer \in {"insertToken", "error"}, DeleteTokens(p, answer)
    PROVE  IInv'
<1> DEFINE c == call[p]  id == c.id  d == Reached(c, answer)
<1>1. /\ TypeOK /\ CallInv /\ OneTokenPerUser /\ IssuedTokenWorks /\ IntendedOK
      /\ OnlyStaleCopiesLoseUpdates
  BY DEF IInv
<1>2. /\ CallOK(c) /\ LateOK(c, tokens, expired, issued) /\ CopyOK(c, users, serial)
      /\ NewOK(c, tokens, issued, crossed)
  BY <1>1 DEF CallInv
<1>3. /\ c.pc = "deleteTokens"
      /\ tokens' = [s \in Secrets |-> IF id # 0 /\ tokens[s] = id THEN 0 ELSE tokens[s]]
      /\ given' = [u \in Ids |-> IF u = id THEN None ELSE given[u]]
      /\ crossed' = crossed \ {id} /\ Become(p, d)
      /\ UNCHANGED <<users, serial, expired, issued, intended, overtaken>>
  BY DEF DeleteTokens, At, Goto
<1>a. /\ answer \in Places /\ answer \notin Copying \union Checking
      /\ answer # "accepted" /\ answer # "validUser"
      /\ answer \in Inserting <=> answer = "insertToken"
      /\ answer \in Finished <=> answer = "error"
      /\ c.pc \in Inserting
  BY <1>3 DEF Places, Finished, Copying, Inserting, Checking
<1>4. /\ c.secret \in Secrets /\ c.target \in Ids /\ id \in {0, c.target} /\ c.row = NoRow
      /\ c.secret \notin issued /\ c \in CallState
  BY <1>2, <1>a DEF CallOK, NewOK
<1>5. /\ CallOK(d) /\ LateOK(d, tokens, expired, issued) /\ CopyOK(d, users, serial) /\ d.pc = answer
      /\ answer = "insertToken" => d.secret = c.secret /\ d.target = c.target /\ d.id = id
  BY <1>2, <1>4, <1>a, MoveOK, ReachedType
<1>6. \A s \in Secrets : tokens'[s] \in {0, tokens[s]} /\ (id # 0 => tokens'[s] # id)
                         /\ (tokens[s] # id => tokens'[s] = tokens[s])
  BY <1>3
<1>7. /\ call'[p] = d /\ \A q \in Calls \ {p} : call'[q] = call[q]
      /\ call' \in [Calls -> CallState]
  BY <1>1, <1>3, <1>5 DEF TypeOK, CallOK, Become
<1> HIDE DEF c, id, d
<1>8. TypeOK'
  <2>1. tokens' \in [Secrets -> 0 .. MaxUsers]
    BY <1>1, <1>3, IdRange DEF TypeOK
  <2>2. given' \in [Ids -> Secrets \union {None}] /\ crossed' \subseteq 0 .. MaxUsers
    BY <1>1, <1>3 DEF TypeOK
  <2>3. \A s \in Secrets : tokens'[s] # 0 => Exists(tokens[s])' /\ s \in issued'
    <3> SUFFICES ASSUME NEW s \in Secrets, tokens'[s] # 0 PROVE Exists(tokens[s])' /\ s \in issued'
      OBVIOUS
    <3>1. tokens'[s] = tokens[s]
      BY <1>6
    <3>2. Exists(tokens[s]) /\ s \in issued
      BY <1>1, <3>1 DEF TypeOK
    <3> QED BY <1>3, <3>1, <3>2 DEF Exists
  <2> QED BY <1>1, <1>3, <1>7, <2>1, <2>2, <2>3 DEF TypeOK
<1>9. ASSUME NEW q \in Calls
      PROVE  /\ CallOK(call'[q]) /\ LateOK(call'[q], tokens', expired', issued')
             /\ CopyOK(call'[q], users', serial') /\ NewOK(call'[q], tokens', issued', crossed')
  <2>1. /\ CallOK(call'[q]) /\ LateOK(call'[q], tokens, expired, issued)
        /\ CopyOK(call'[q], users, serial)
    BY <1>1, <1>5, <1>7 DEF CallInv
  <2>2. LateOK(call'[q], tokens', expired', issued')
    BY <1>3, <1>6, <2>1 DEF LateOK, CallOK
  <2>3. NewOK(call'[q], tokens', issued', crossed')
    <3>1. CASE q = p
      <4>1. d.pc \in Inserting => d.secret \notin issued'
        BY <1>3, <1>4, <1>5, <1>a
      <4>2. ASSUME d.pc = "insertToken", d.id = d.target PROVE \A s \in Secrets : tokens'[s] # d.target
        <5>1. d.target = id /\ id # 0
          BY <1>4, <1>5, <4>2, IdRange
        <5> QED BY <1>6, <5>1
      <4> QED BY <1>7, <3>1, <4>1, <4>2 DEF NewOK
    <3>2. CASE q # p
      <4>1. NewOK(call[q], tokens, issued, crossed) /\ CallOK(call[q]) /\ call'[q] = call[q]
        BY <1>1, <1>7, <3>2 DEF CallInv
      <4>2. ASSUME call[q].pc = "insertToken", call[q].id = call[q].target,
                   call[q].target \notin crossed'
            PROVE  \A s \in Secrets : tokens'[s] # call[q].target
        <5>1. call[q].target # 0
          BY <4>1, <4>2, IdRange DEF CallOK, Inserting
        <5>2. CASE call[q].target = id
          BY <1>6, <5>1, <5>2
        <5>3. CASE call[q].target # id
          <6>1. call[q].target \notin crossed
            BY <1>3, <4>2, <5>3
          <6>2. \A s \in Secrets : tokens[s] # call[q].target
            BY <4>1, <4>2, <6>1 DEF NewOK
          <6> QED BY <1>6, <5>1, <6>2
        <5> QED BY <5>2, <5>3
      <4> QED BY <1>3, <4>1, <4>2 DEF NewOK
    <3> QED BY <3>1, <3>2
  <2> QED BY <1>3, <2>1, <2>2, <2>3
<1>10. OwnSecrets'
  <2> SUFFICES ASSUME NEW q \in Calls, NEW r \in Calls, call'[q].pc \in Inserting,
                      call'[r].pc \in Inserting, call'[q].secret = call'[r].secret
               PROVE  q = r
    BY DEF OwnSecrets
  <2>1. /\ call[q].pc \in Inserting /\ call[r].pc \in Inserting
        /\ call'[q].secret = call[q].secret /\ call'[r].secret = call[r].secret
    BY <1>5, <1>7, <1>a DEF c
  <2> QED BY <1>1, <2>1 DEF CallInv, OwnSecrets
<1>11. CallInv'
  BY <1>9, <1>10 DEF CallInv
<1>12. OneTokenPerUser'
  <2> SUFFICES ASSUME NEW s \in Secrets, NEW t \in Secrets, tokens'[s] # 0,
                      tokens'[s] = tokens'[t], tokens'[s] \notin crossed'
               PROVE  s = t
    BY DEF OneTokenPerUser
  <2>1. tokens'[s] = tokens[s] /\ tokens'[t] = tokens[t]
    BY <1>6
  <2>2. tokens[s] # id
    BY <1>6, <2>1
  <2> QED BY <1>1, <1>3, <2>1, <2>2 DEF OneTokenPerUser
<1>13. IssuedTokenWorks'
  <2> SUFFICES ASSUME NEW u \in Ids, given'[u] # None
               PROVE  tokens'[given'[u]] = u /\ given'[u] \notin expired'
    BY DEF IssuedTokenWorks
  <2>1. u # id /\ given'[u] = given[u] /\ given[u] \in Secrets
    BY <1>1, <1>3 DEF TypeOK
  <2>2. tokens[given[u]] = u /\ given[u] \notin expired
    BY <1>1, <2>1, Bounds DEF IssuedTokenWorks
  <2> QED BY <1>3, <1>6, <2>1, <2>2
<1>14. IntendedOK' /\ OnlyStaleCopiesLoseUpdates'
  BY <1>1, <1>3 DEF IntendedOK, OnlyStaleCopiesLoseUpdates, Exists
<1> QED BY <1>8, <1>11, <1>12, <1>13, <1>14 DEF IInv

(* The new token comes: nobody else knows it, and the user has no other    *)
(* unless calls crossed.                                                   *)
LEMMA InsertTokenStep ==
    ASSUME IInv, NEW p \in Calls, NEW answer \in {"done", "error"}, InsertToken(p, answer)
    PROVE  IInv'
<1> DEFINE c == call[p]  u == c.target  s == c.secret  d == Reached(c, answer)
<1>1. /\ TypeOK /\ CallInv /\ OneTokenPerUser /\ IssuedTokenWorks /\ IntendedOK
      /\ OnlyStaleCopiesLoseUpdates
  BY DEF IInv
<1>2. /\ CallOK(c) /\ LateOK(c, tokens, expired, issued) /\ CopyOK(c, users, serial)
      /\ NewOK(c, tokens, issued, crossed)
  BY <1>1 DEF CallInv
<1>3. /\ c.pc = "insertToken" /\ Exists(u)
      /\ tokens' = [tokens EXCEPT ![s] = u] /\ issued' = issued \union {s}
      /\ given' = [given EXCEPT ![u] = IF answer = "error" \/ s \in expired THEN None ELSE s]
      /\ crossed' = IF Overlapped(p) THEN crossed \union {u} ELSE crossed
      /\ Become(p, d) /\ UNCHANGED <<users, serial, expired, intended, overtaken>>
  BY DEF InsertToken, At, Goto
<1>a. /\ answer \in Places /\ answer \in Finished
      /\ answer \notin Copying \union Inserting \union Checking
      /\ answer # "accepted" /\ answer # "validUser" /\ c.pc \in Inserting
  BY <1>3 DEF Places, Finished, Copying, Inserting, Checking
<1>4. s \in Secrets /\ u \in Ids /\ s \notin issued /\ s # None /\ u # 0
  BY <1>2, <1>a, Bounds, IdRange DEF CallOK, NewOK
<1>5. tokens[s] = 0
  BY <1>1, <1>4 DEF TypeOK
<1>6. CallOK(d) /\ LateOK(d, tokens, expired, issued) /\ CopyOK(d, users, serial) /\ d.pc = answer
  BY <1>2, <1>a, MoveOK
<1>7. /\ call'[p] = d /\ \A q \in Calls \ {p} : call'[q] = call[q]
      /\ call' \in [Calls -> CallState]
  BY <1>1, <1>3, <1>6 DEF TypeOK, CallOK, Become
<1>8. /\ tokens'[s] = u /\ \A t \in Secrets \ {s} : tokens'[t] = tokens[t]
      /\ given'[u] = (IF answer = "error" \/ s \in expired THEN None ELSE s)
      /\ \A i \in Ids \ {u} : given'[i] = given[i]
  BY <1>1, <1>3, <1>4 DEF TypeOK
<1>9. /\ crossed \subseteq crossed' /\ crossed' \subseteq crossed \union {u}
      /\ u \notin crossed' =>
           /\ c.id = u
           /\ \A q \in Calls \ {p} : ~(call[q].pc = "insertToken" /\ call[q].target = u)
  BY <1>3 DEF Overlapped, At
<1>10. u \notin crossed' => \A t \in Secrets : tokens[t] # u
  <2> SUFFICES ASSUME u \notin crossed' PROVE \A t \in Secrets : tokens[t] # u
    OBVIOUS
  <2>1. c.id = c.target /\ c.target \notin crossed
    BY <1>9
  <2> QED BY <1>2, <1>3, <2>1 DEF NewOK
<1> HIDE DEF c, u, s, d
<1>11. TypeOK'
  <2>1. tokens' \in [Secrets -> 0 .. MaxUsers] /\ issued' \subseteq Secrets
    BY <1>1, <1>3, <1>4, IdRange DEF TypeOK
  <2>2. given' \in [Ids -> Secrets \union {None}]
    BY <1>1, <1>3, <1>4 DEF TypeOK
  <2>3. crossed' \subseteq 0 .. MaxUsers
    BY <1>1, <1>4, <1>9, IdRange DEF TypeOK
  <2>4. \A t \in Secrets : tokens'[t] # 0 => Exists(tokens[t])' /\ t \in issued'
    <3> SUFFICES ASSUME NEW t \in Secrets, tokens'[t] # 0 PROVE Exists(tokens[t])' /\ t \in issued'
      OBVIOUS
    <3>1. CASE t = s
      <4>1. users'[u] # NoRow /\ tokens'[t] = u
        BY <1>3, <1>8, <3>1 DEF Exists
      <4> QED BY <1>3, <1>4, <3>1, <4>1 DEF Exists
    <3>2. CASE t # s
      <4>1. tokens'[t] = tokens[t]
        BY <1>8, <3>2
      <4>2. Exists(tokens[t]) /\ t \in issued
        BY <1>1, <4>1 DEF TypeOK
      <4> QED BY <1>3, <4>1, <4>2 DEF Exists
    <3> QED BY <3>1, <3>2
  <2> QED BY <1>1, <1>3, <1>7, <2>1, <2>2, <2>3, <2>4 DEF TypeOK
<1>12. ASSUME NEW q \in Calls
       PROVE  /\ CallOK(call'[q]) /\ LateOK(call'[q], tokens', expired', issued')
              /\ CopyOK(call'[q], users', serial') /\ NewOK(call'[q], tokens', issued', crossed')
  <2>1. /\ CallOK(call'[q]) /\ LateOK(call'[q], tokens, expired, issued)
        /\ CopyOK(call'[q], users, serial)
    BY <1>1, <1>6, <1>7 DEF CallInv
  <2>2. LateOK(call'[q], tokens', expired', issued')
    BY <1>3, <1>4, <1>8, <2>1 DEF LateOK, CallOK
  <2>3. NewOK(call'[q], tokens', issued', crossed')
    <3>1. CASE q = p
      BY <1>6, <1>7, <1>a, <3>1 DEF NewOK, Inserting
    <3>2. CASE q # p
      <4>1. NewOK(call[q], tokens, issued, crossed) /\ CallOK(call[q]) /\ call'[q] = call[q]
        BY <1>1, <1>7, <3>2 DEF CallInv
      <4>2. call[q].pc \in Inserting => call[q].secret \notin issued'
        <5>1. call[q].pc \in Inserting => call[q].secret # s
          BY <1>1, <1>a, <3>2 DEF CallInv, OwnSecrets, c, s
        <5> QED BY <1>3, <4>1, <5>1 DEF NewOK
      <4>3. ASSUME call[q].pc = "insertToken", call[q].id = call[q].target,
                   call[q].target \notin crossed'
            PROVE  \A t \in Secrets : tokens'[t] # call[q].target
        <5>1. call[q].target # u
          BY <1>9, <3>2, <4>3
        <5>2. \A t \in Secrets : tokens[t] # call[q].target
          BY <1>9, <4>1, <4>3 DEF NewOK
        <5> QED BY <1>8, <5>1, <5>2
      <4> QED BY <4>1, <4>2, <4>3 DEF NewOK
    <3> QED BY <3>1, <3>2
  <2> QED BY <1>3, <2>1, <2>2, <2>3
<1>13. OwnSecrets'
  <2> SUFFICES ASSUME NEW q \in Calls, NEW r \in Calls, call'[q].pc \in Inserting,
                      call'[r].pc \in Inserting, call'[q].secret = call'[r].secret
               PROVE  q = r
    BY DEF OwnSecrets
  <2>1. q # p /\ r # p
    BY <1>6, <1>7, <1>a
  <2> QED BY <1>1, <1>7, <2>1 DEF CallInv, OwnSecrets
<1>14. CallInv'
  BY <1>12, <1>13 DEF CallInv
<1>15. OneTokenPerUser'
  <2> SUFFICES ASSUME NEW t \in Secrets, NEW w \in Secrets, tokens'[t] # 0,
                      tokens'[t] = tokens'[w], tokens'[t] \notin crossed'
               PROVE  t = w
    BY DEF OneTokenPerUser
  <2>1. CASE t = s \/ w = s
    BY <1>8, <1>10, <2>1
  <2>2. CASE t # s /\ w # s
    BY <1>1, <1>8, <1>9, <2>2 DEF OneTokenPerUser
  <2> QED BY <2>1, <2>2
<1>16. IssuedTokenWorks'
  <2> SUFFICES ASSUME NEW i \in Ids, given'[i] # None
               PROVE  tokens'[given'[i]] = i /\ given'[i] \notin expired'
    BY DEF IssuedTokenWorks
  <2>1. CASE i = u
    BY <1>3, <1>8, <2>1
  <2>2. CASE i # u
    <3>1. given'[i] = given[i] /\ given[i] \in Secrets
      BY <1>1, <1>8, <2>2 DEF TypeOK
    <3>2. tokens[given[i]] = i /\ given[i] \notin expired
      BY <1>1, <3>1 DEF IssuedTokenWorks
    <3>3. given[i] # s
      BY <1>5, <3>2, IdRange
    <3> QED BY <1>3, <1>8, <3>1, <3>2, <3>3
  <2> QED BY <2>1, <2>2
<1>17. IntendedOK' /\ OnlyStaleCopiesLoseUpdates'
  BY <1>1, <1>3 DEF IntendedOK, OnlyStaleCopiesLoseUpdates, Exists
<1> QED BY <1>11, <1>14, <1>15, <1>16, <1>17 DEF IInv
-----------------------------------------------------------------------------
(* The inductive invariant holds at first.                                 *)
LEMMA InvInit == Init => IInv
<1> SUFFICES ASSUME Init PROVE IInv
  OBVIOUS
<1>1. /\ users = [id \in Ids |-> NoRow] /\ serial = 1 /\ tokens = [s \in Secrets |-> 0]
      /\ expired = {} /\ issued = {} /\ crossed = {} /\ overtaken = {}
      /\ call = [p \in Calls |-> NoCall] /\ given = [id \in Ids |-> None]
      /\ intended = [id \in Ids |-> NoRow]
  BY DEF Init
<1>2. NoCall \in CallState /\ NoCall.pc = "done" /\ NoCall.row = NoRow /\ ~NoCall.late
  BY NoCallType DEF NoCall
<1>3. "done" \notin Copying \union Inserting \union Checking
  BY DEF Copying, Inserting, Checking
<1>4. TypeOK
  <2>1. serial \in 1 .. MaxUsers + 1
    BY <1>1, Bounds
  <2> QED BY <1>1, <1>2, <2>1, IdRange DEF TypeOK
<1>5. CallInv
  <2>1. CallOK(NoCall)
    BY <1>2, <1>3 DEF CallOK
  <2>2. LateOK(NoCall, tokens, expired, issued) /\ CopyOK(NoCall, users, serial)
    BY <1>2 DEF LateOK, CopyOK
  <2>3. NewOK(NoCall, tokens, issued, crossed)
    BY <1>2, <1>3 DEF NewOK
  <2>4. OwnSecrets
    BY <1>1, <1>2, <1>3 DEF OwnSecrets
  <2> QED BY <1>1, <2>1, <2>2, <2>3, <2>4 DEF CallInv
<1>6. OneTokenPerUser /\ IssuedTokenWorks
  BY <1>1 DEF OneTokenPerUser, IssuedTokenWorks
<1>7. IntendedOK /\ OnlyStaleCopiesLoseUpdates
  BY <1>1 DEF IntendedOK, OnlyStaleCopiesLoseUpdates, Exists
<1> QED BY <1>4, <1>5, <1>6, <1>7 DEF IInv

(* Every step and every stutter keeps it.                                  *)
LEMMA InvNext == IInv /\ [Next]_vars => IInv'
<1> SUFFICES ASSUME IInv, [Next]_vars PROVE IInv'
  OBVIOUS
<1>0. TypeOK /\ CallInv
  BY DEF IInv
<1>1. ASSUME NEW e \in Emails, NEW v \in Values, InsertUser(e, v) PROVE IInv'
  BY <1>1, InsertUserStep
<1>2. ASSUME NEW id \in Ids, DeleteUser(id) PROVE IInv'
  BY <1>2, DeleteUserStep
<1>3. ASSUME NEW s \in Secrets, DeleteToken(s) \/ Expire(s) PROVE IInv'
  BY <1>3, EndTokenStep
<1>4. ASSUME NEW p \in Calls, Ask(p) \/ Read(p), UNCHANGED <<Tables, history>> PROVE IInv'
  <2>1. \E c : Quiet(p, c)
    BY <1>0, <1>4, QuietAsk, QuietRead
  <2> QED BY <1>4, <2>1, QuietStep
<1>5. ASSUME NEW p \in Calls, Fail(p) \/ InsertTokenFails(p), UNCHANGED Tables PROVE IInv'
  <2>1. \E c : Quiet(p, c)
    BY <1>0, <1>5, QuietFail
  <2>2. UNCHANGED history
    BY <1>5 DEF Fail, InsertTokenFails
  <2> QED BY <1>5, <2>1, <2>2, QuietStep
<1>6. ASSUME NEW p \in Calls, Write(p) PROVE IInv'
  BY <1>6, UpdateStep, DeleteTokensStep, InsertTokenStep DEF Write
<1>7. CASE UNCHANGED vars
  BY <1>7 DEF vars, IInv, TypeOK, CallInv, OwnSecrets, OneTokenPerUser, IssuedTokenWorks,
              IntendedOK, OnlyStaleCopiesLoseUpdates, Exists
<1> QED BY <1>1, <1>2, <1>3, <1>4, <1>5, <1>6, <1>7 DEF Next

(* It holds always.                                                        *)
LEMMA InvAlways == Spec => []IInv
BY InvInit, InvNext, PTL DEF Spec

(* The tables and the calls are well formed, and no token outlives its     *)
(* user (the cascade of auth_tables.postgres.sql).                         *)
THEOREM Types == Spec => []TypeOK
<1>1. IInv => TypeOK
  BY DEF IInv
<1> QED BY <1>1, InvAlways, PTL

(* Tokens.Insert leaves one token to a user, unless calls for the user     *)
(* overlapped or it was given a user without its id.                       *)
THEOREM OneToken == Spec => []OneTokenPerUser
<1>1. IInv => OneTokenPerUser
  BY DEF IInv
<1> QED BY <1>1, InvAlways, PTL

(* The token of an Insert that succeeded works until it expires, it or its *)
(* user is deleted, or another Insert for the user begins.                 *)
THEOREM IssuedWorks == Spec => []IssuedTokenWorks
<1>1. IInv => IssuedTokenWorks
  BY DEF IInv
<1> QED BY <1>1, InvAlways, PTL

(* Neither AuthenticateToken nor ValidToken accepts a token that had been  *)
(* withdrawn when it was called.                                           *)
THEOREM WithdrawnRejected == Spec => []WithdrawnNotAccepted
<1>1. IInv => WithdrawnNotAccepted
  BY DEF IInv, CallInv, LateOK, WithdrawnNotAccepted, At
<1> QED BY <1>1, InvAlways, PTL

(* Only a row written from a stale copy loses what another call wrote.     *)
THEOREM StaleCopiesLose == Spec => []OnlyStaleCopiesLoseUpdates
<1>1. IInv => OnlyStaleCopiesLoseUpdates
  BY DEF IInv
<1> QED BY <1>1, InvAlways, PTL
=============================================================================
