-------------------------- MODULE LoginEffectProofs --------------------------
(***************************************************************************)
(* What a browser may count on after a response that it got: a logout has  *)
(* logged it out, a login has logged it in, and "remember me" lasts.  The  *)
(* proof needs to know who may touch a session or a remember token: each   *)
(* is held by one browser only, and a request that no other request of its *)
(* browser overlapped has no rival.                                        *)
(***************************************************************************)
EXTENDS LoginSessionProofs

-----------------------------------------------------------------------------
(* Who holds what.                                                         *)

Toks(c) == {c.sess, c.token, c.setSess}

\* The request holds hash h: in its copy, or in a cookie it got or sets.
Marks(c, h) == \/ c.values.rt = h
               \/ \E u \in Users : c.rem = <<u, h>> \/ <<u, h>> \in c.setRem

\* The browsers that hold a token, in the jar or in a request.
TokenHolders ==
    [t \in Tokens |-> {b \in Browsers :
        \/ jar[b].sess = t
        \/ \E q \in Slots : req[q].browser = b /\ t \in Toks(req[q])}]

\* The browsers that hold a hash, in the jar, in a request or in a session.
HashHolders ==
    [h \in Hashes |-> {b \in Browsers :
        \/ \E u \in Users : jar[b].rem = <<u, h>>
        \/ \E q \in Slots : req[q].browser = b /\ Marks(req[q], h)
        \/ \E t \in Tokens : b \in TokenHolders[t] /\ store[t] # None /\ store[t].rt = h}]

\* No token and no hash has two holders.
Owned ==
    /\ \A t \in Tokens : \A a, b \in TokenHolders[t] : a = b
    /\ \A h \in Hashes : \A a, b \in HashHolders[h] : a = b

\* A request that is alone has no rival.
AloneInv ==
    \A p, q \in Slots :
       p # q /\ req[p].browser = req[q].browser /\ req[p].browser # None => ~req[q].alone

-----------------------------------------------------------------------------
(* Where a request may be, and what it has done when it answers.           *)

LogoutDone(c) ==
    /\ c.setRem = {None}
    /\ c.pc = "commit" => c.values.user = None

LoginDone(c) ==
    /\ c.remember => \E h \in Hashes : c.setRem = {<<c.user, h>>}
    /\ c.pc = "commit" => c.values.user = c.user

Done(c) ==
    c.pc \in {"commit", "respond"} /\ c.status = "ok" =>
       /\ c.op = "logout" => LogoutDone(c)
       /\ c.op = "login" => LoginDone(c)
       /\ c.op \in {"login", "logout"} /\ c.pc = "respond" => c.setSess \in Tokens

Shape(c) ==
    /\ c.pc = "free" <=> c.browser = None
    /\ c.op = "login" => c.user \in Users
    /\ c.pc \in {"auth", "insert"} => c.op = "login"
    /\ c.pc = "insert" => c.remember
    /\ c.pc = "delrow" => c.op = "logout"
    /\ c.pc = "leave" => c.op = "logout" \/ c.forced
    /\ Done(c)

-----------------------------------------------------------------------------
(* What a browser counts on, and what its requests may do to it.           *)

\* Tokens under which nobody is logged in.
Bare == {t \in Tokens : store[t] = None \/ store[t].user = None}

\* A request that logs nobody in.
Harmless(c) ==
    /\ c.op # "login"
    /\ c.pc # "getuser"
    /\ c.values.user = None
    /\ c.rem \notin rows
    /\ c.setRem \cap rows = {}

Out(b) ==
    known[b].out =>
       /\ jar[b].rem \notin rows
       /\ \A t \in Tokens : b \in TokenHolders[t] => t \in Bare
       /\ \A q \in Slots : req[q].browser = b => Harmless(req[q])

\* A request that keeps user u under token s.
KeepsLogin(c, s, u) ==
    /\ c.op \in {"visit", "reset"}
    /\ ~c.expired
    /\ c.pc \in {"load", "commit", "respond"}
    /\ c.pc = "load" => c.sess = s
    /\ c.pc = "commit" => c.token = s /\ c.values.user = u
    /\ c.setSess \in {None, s}

As(b) ==
    known[b].as # None =>
       /\ jar[b].sess \in Tokens
       /\ store[jar[b].sess] # None
       /\ store[jar[b].sess].user = known[b].as
       /\ \A q \in Slots : req[q].browser = b =>
             KeepsLogin(req[q], jar[b].sess, known[b].as)

\* A request that keeps the remember cookie k.
KeepsCookie(c, k) ==
    /\ c.op \in {"visit", "reset"}
    /\ c.setRem = {}
    /\ c.pc # "leave"
    /\ c.pc \in {"load", "check", "getuser"} => c.rem = k

Rem(b) ==
    known[b].rem # None =>
       /\ jar[b].rem \in rows
       /\ jar[b].rem[1] = known[b].rem
       /\ \A q \in Slots : req[q].browser = b => KeepsCookie(req[q], jar[b].rem)

\* What a request that is alone has done it will be able to tell.
Tells(c) ==
    c.alone /\ c.status = "ok" =>
       /\ c.op = "logout" /\ c.pc = "respond" => c.setSess \in Bare
       /\ c.op = "login" /\ c.pc = "respond" /\ ~c.expired =>
             store[c.setSess] # None /\ store[c.setSess].user = c.user
       /\ c.op = "login" /\ c.remember /\ c.pc \in {"commit", "respond"} =>
             c.setRem \subseteq rows

EffectInv ==
    /\ Owned
    /\ AloneInv
    /\ \A q \in Slots : Shape(req[q]) /\ Tells(req[q])
    /\ \A b \in Browsers : Out(b) /\ As(b) /\ Rem(b)

-----------------------------------------------------------------------------
(* A step in the affairs of one browser: it leaves the cookies and the     *)
(* requests of the others alone, and the sessions and remember tokens that *)
(* they hold.                                                              *)
Only(b) ==
    /\ \A a \in Browsers \ {b} : jar'[a] = jar[a] /\ known'[a] = known[a]
    /\ \A p \in Slots :
          req'[p] = req[p] \/ {req[p].browser, req'[p].browser} \subseteq {b, None}
    /\ \A t \in Tokens : store'[t] = store[t] \/ TokenHolders[t] \subseteq {b}
    /\ \A h \in Hashes :
          \/ \A u \in Users : <<u, h>> \in rows' <=> <<u, h>> \in rows
          \/ HashHolders[h] \subseteq {b}

(* The requests of another browser are what they were.                     *)
LEMMA OthersSame ==
    ASSUME NEW b \in Browsers, Only(b), NEW a \in Browsers \ {b}, NEW p \in Slots
    PROVE  /\ req'[p].browser = a <=> req[p].browser = a
           /\ req[p].browser = a => req'[p] = req[p]
<1>1. a \notin {b, None}  BY NoneAssumption DEF NoneAssumption
<1>2. QED  BY <1>1 DEF Only

(* Another browser holds what it held.                                     *)
LEMMA OthersHold ==
    ASSUME NEW b \in Browsers, Only(b), NEW a \in Browsers \ {b}
    PROVE  /\ \A t \in Tokens : a \in TokenHolders'[t] <=> a \in TokenHolders[t]
           /\ \A h \in Hashes : a \in HashHolders'[h] <=> a \in HashHolders[h]
<1>1. jar'[a] = jar[a]  BY DEF Only
<1>2. ASSUME NEW t \in Tokens PROVE a \in TokenHolders'[t] <=> a \in TokenHolders[t]
  <2>1. ASSUME NEW p \in Slots
        PROVE  (req'[p].browser = a /\ t \in Toks(req'[p])) <=> (req[p].browser = a /\ t \in Toks(req[p]))
    BY OthersSame
  <2>2. a \in TokenHolders'[t] <=>
           \/ jar'[a].sess = t
           \/ \E p \in Slots : req'[p].browser = a /\ t \in Toks(req'[p])
    BY DEF TokenHolders, Toks
  <2>3. a \in TokenHolders[t] <=>
           \/ jar[a].sess = t
           \/ \E p \in Slots : req[p].browser = a /\ t \in Toks(req[p])
    BY DEF TokenHolders
  <2>4. QED  BY <1>1, <2>1, <2>2, <2>3
<1>3. ASSUME NEW h \in Hashes PROVE a \in HashHolders'[h] <=> a \in HashHolders[h]
  <2>1. ASSUME NEW p \in Slots
        PROVE  (req'[p].browser = a /\ Marks(req'[p], h)) <=> (req[p].browser = a /\ Marks(req[p], h))
    BY OthersSame
  <2>2. ASSUME NEW t \in Tokens
        PROVE  (a \in TokenHolders'[t] /\ store'[t] # None /\ store'[t].rt = h)
                  <=> (a \in TokenHolders[t] /\ store[t] # None /\ store[t].rt = h)
    <3>1. a \notin TokenHolders[t] \/ store'[t] = store[t]  BY DEF Only
    <3>2. QED  BY <1>2, <3>1
  <2>3. a \in HashHolders'[h] <=>
           \/ \E u \in Users : jar'[a].rem = <<u, h>>
           \/ \E p \in Slots : req'[p].browser = a /\ Marks(req'[p], h)
           \/ \E t \in Tokens : a \in TokenHolders'[t] /\ store'[t] # None /\ store'[t].rt = h
    BY DEF HashHolders, Marks
  <2>4. a \in HashHolders[h] <=>
           \/ \E u \in Users : jar[a].rem = <<u, h>>
           \/ \E p \in Slots : req[p].browser = a /\ Marks(req[p], h)
           \/ \E t \in Tokens : a \in TokenHolders[t] /\ store[t] # None /\ store[t].rt = h
    BY DEF HashHolders
  <2>5. QED  BY <1>1, <2>1, <2>2, <2>3, <2>4
<1>4. QED  BY <1>2, <1>3

(* If the browser takes up only what nobody else holds, then again every   *)
(* token and every hash has one holder.                                    *)
LEMMA StillOwned ==
    ASSUME Owned, NEW b \in Browsers, Only(b),
           \A t \in Tokens : b \in TokenHolders'[t] => TokenHolders[t] \subseteq {b},
           \A h \in Hashes : b \in HashHolders'[h] => HashHolders[h] \subseteq {b}
    PROVE  Owned'
<1>1. ASSUME NEW t \in Tokens, NEW x \in TokenHolders'[t], NEW y \in TokenHolders'[t] PROVE x = y
  <2>1. x \in Browsers /\ y \in Browsers  BY DEF TokenHolders
  <2>2. CASE b \in TokenHolders'[t]
    BY <2>1, <2>2, OthersHold
  <2>3. CASE b \notin TokenHolders'[t]
    <3>1. x \in TokenHolders[t] /\ y \in TokenHolders[t]  BY <2>1, <2>3, OthersHold
    <3>2. QED  BY <3>1 DEF Owned
  <2>4. QED  BY <2>2, <2>3
<1>2. ASSUME NEW h \in Hashes, NEW x \in HashHolders'[h], NEW y \in HashHolders'[h] PROVE x = y
  <2>1. x \in Browsers /\ y \in Browsers  BY DEF HashHolders
  <2>2. CASE b \in HashHolders'[h]
    BY <2>1, <2>2, OthersHold
  <2>3. CASE b \notin HashHolders'[h]
    <3>1. x \in HashHolders[h] /\ y \in HashHolders[h]  BY <2>1, <2>3, OthersHold
    <3>2. QED  BY <3>1 DEF Owned
  <2>4. QED  BY <2>2, <2>3
<1>3. QED  BY <1>1, <1>2 DEF Owned
-----------------------------------------------------------------------------
(* The remember cookies that a browser holds.                              *)
Cookies ==
    [b \in Browsers |-> {k \in Users \X Hashes :
        \/ jar[b].rem = k
        \/ \E q \in Slots : req[q].browser = b /\ (req[q].rem = k \/ k \in req[q].setRem)}]

(* The remember token in a cookie is held.                                 *)
LEMMA CookieHeld ==
    ASSUME NEW b \in Browsers, NEW k \in Cookies[b]
    PROVE  k \in Users \X Hashes /\ k = <<k[1], k[2]>> /\ k[2] \in Hashes /\ b \in HashHolders[k[2]]
<1>1. PICK u \in Users, h \in Hashes : k = <<u, h>>  BY DEF Cookies
<1>2. \/ jar[b].rem = <<u, h>>
      \/ \E q \in Slots : req[q].browser = b /\ (req[q].rem = <<u, h>> \/ <<u, h>> \in req[q].setRem)
  BY <1>1 DEF Cookies
<1>3. b \in HashHolders[h]  BY <1>2 DEF HashHolders, Marks
<1>4. QED  BY <1>1, <1>3

(* A remember token that another browser holds in a cookie stays in the    *)
(* table, or out of it.                                                    *)
LEMMA OthersRows ==
    ASSUME NEW b \in Browsers, Only(b), NEW a \in Browsers \ {b}, NEW k \in Cookies[a]
    PROVE  k \in rows' <=> k \in rows
<1>1. k = <<k[1], k[2]>> /\ k[1] \in Users /\ k[2] \in Hashes /\ a \in HashHolders[k[2]]
  BY CookieHeld
<1>2. ~(HashHolders[k[2]] \subseteq {b})  BY <1>1
<1>3. QED  BY <1>1, <1>2 DEF Only

(* Cookies of a browser that are not in the table.                         *)
LEMMA OutCookies ==
    ASSUME TypeOK, NEW b \in Browsers
    PROVE  /\ jar[b].rem \in rows => jar[b].rem \in Cookies[b]
           /\ \A q \in Slots : req[q].browser = b =>
                 /\ req[q].rem \in rows => req[q].rem \in Cookies[b]
                 /\ \A k \in req[q].setRem : k \in rows => k \in Cookies[b]
<1>1. rows \subseteq Users \X Hashes  BY DEF TypeOK
<1>2. QED  BY <1>1 DEF Cookies

(* Another browser holds the cookies that it held.                         *)
LEMMA OthersCookies ==
    ASSUME NEW b \in Browsers, Only(b), NEW a \in Browsers \ {b}
    PROVE  Cookies'[a] = Cookies[a]
<1>1. jar'[a] = jar[a]  BY DEF Only
<1>2. ASSUME NEW k, NEW p \in Slots
      PROVE  (req'[p].browser = a /\ (req'[p].rem = k \/ k \in req'[p].setRem))
                <=> (req[p].browser = a /\ (req[p].rem = k \/ k \in req[p].setRem))
  BY OthersSame
<1>3. QED  BY <1>1, <1>2 DEF Cookies

(* What is out of the table stays out for another browser.                 *)
LEMMA OthersOutOfRows ==
    ASSUME TypeOK', NEW b \in Browsers, Only(b), NEW a \in Browsers \ {b}
    PROVE  /\ jar[a].rem \notin rows => jar[a].rem \notin rows'
           /\ \A q \in Slots : req[q].browser = a =>
                 /\ req[q].rem \notin rows => req[q].rem \notin rows'
                 /\ req[q].setRem \cap rows = {} => req[q].setRem \cap rows' = {}
<1>1. rows' \subseteq Users \X Hashes  BY DEF TypeOK
<1>2. jar[a].rem \in rows' => jar[a].rem \in Cookies[a]  BY <1>1 DEF Cookies
<1>3. ASSUME NEW q \in Slots, req[q].browser = a
      PROVE  /\ req[q].rem \in rows' => req[q].rem \in Cookies[a]
             /\ \A k \in req[q].setRem : k \in rows' => k \in Cookies[a]
  BY <1>1, <1>3 DEF Cookies
<1>4. QED  BY <1>2, <1>3, OthersRows

(* What another browser counts on stays true.                              *)
LEMMA OthersKeep ==
    ASSUME TypeOK, TypeOK', NEW b \in Browsers, Only(b), NEW a \in Browsers \ {b},
           Out(a), As(a), Rem(a)
    PROVE  Out(a)' /\ As(a)' /\ Rem(a)'
<1>1. jar'[a] = jar[a] /\ known'[a] = known[a]  BY DEF Only
<1>2. ASSUME NEW t \in Tokens, a \in TokenHolders[t] PROVE store'[t] = store[t]
  BY <1>2 DEF Only
<1>3. Out(a)'
  <2>1. SUFFICES ASSUME known[a].out
                 PROVE  /\ jar'[a].rem \notin rows'
                        /\ \A t \in Tokens : a \in TokenHolders'[t] => t \in Bare'
                        /\ \A q \in Slots : req'[q].browser = a => Harmless(req[q])'
    BY <1>1 DEF Out
  <2>2. jar'[a].rem \notin rows'  BY <1>1, <2>1, OthersOutOfRows DEF Out
  <2>3. ASSUME NEW t \in Tokens, a \in TokenHolders'[t] PROVE t \in Bare'
    <3>1. a \in TokenHolders[t]  BY <2>3, OthersHold
    <3>2. t \in Bare /\ store'[t] = store[t]  BY <1>2, <2>1, <3>1 DEF Out
    <3>3. QED  BY <3>2 DEF Bare
  <2>4. ASSUME NEW q \in Slots, req'[q].browser = a PROVE Harmless(req[q])'
    <3>1. req[q].browser = a /\ req'[q] = req[q]  BY <2>4, OthersSame
    <3>2. Harmless(req[q])  BY <2>1, <3>1 DEF Out
    <3>3. req[q].rem \notin rows' /\ req[q].setRem \cap rows' = {}
      BY <3>1, <3>2, OthersOutOfRows DEF Harmless
    <3>4. QED  BY <3>1, <3>2, <3>3 DEF Harmless
  <2>5. QED  BY <2>2, <2>3, <2>4
<1>4. As(a)'
  <2>1. SUFFICES ASSUME known[a].as # None
                 PROVE  /\ jar[a].sess \in Tokens
                        /\ store'[jar[a].sess] # None
                        /\ store'[jar[a].sess].user = known[a].as
                        /\ \A q \in Slots : req'[q].browser = a =>
                              KeepsLogin(req'[q], jar[a].sess, known[a].as)
    BY <1>1 DEF As, KeepsLogin
  <2>2. jar[a].sess \in Tokens /\ store[jar[a].sess] # None /\ store[jar[a].sess].user = known[a].as
    BY <2>1 DEF As
  <2>3. a \in TokenHolders[jar[a].sess]  BY <2>2 DEF TokenHolders
  <2>4. store'[jar[a].sess] = store[jar[a].sess]  BY <1>2, <2>2, <2>3
  <2>5. ASSUME NEW q \in Slots, req'[q].browser = a
        PROVE  KeepsLogin(req'[q], jar[a].sess, known[a].as)
    <3>1. req[q].browser = a /\ req'[q] = req[q]  BY <2>5, OthersSame
    <3>2. QED  BY <2>1, <3>1 DEF As
  <2>6. QED  BY <2>2, <2>4, <2>5
<1>5. Rem(a)'
  <2>1. SUFFICES ASSUME known[a].rem # None
                 PROVE  /\ jar[a].rem \in rows'
                        /\ jar[a].rem[1] = known[a].rem
                        /\ \A q \in Slots : req'[q].browser = a => KeepsCookie(req'[q], jar[a].rem)
    BY <1>1 DEF Rem, KeepsCookie
  <2>2. jar[a].rem \in rows /\ jar[a].rem[1] = known[a].rem  BY <2>1 DEF Rem
  <2>3. jar[a].rem \in rows'  BY <2>2, OutCookies, OthersRows
  <2>4. ASSUME NEW q \in Slots, req'[q].browser = a PROVE KeepsCookie(req'[q], jar[a].rem)
    <3>1. req[q].browser = a /\ req'[q] = req[q]  BY <2>4, OthersSame
    <3>2. QED  BY <2>1, <3>1 DEF Rem
  <2>5. QED  BY <2>2, <2>3, <2>4
<1>6. QED  BY <1>3, <1>4, <1>5
(* What a request of another browser will tell stays true.                 *)
LEMMA OthersTell ==
    ASSUME TypeOK, NEW b \in Browsers, Only(b), NEW p \in Slots,
           req[p].browser \in Browsers \ {b}, Shape(req[p]), Tells(req[p])
    PROVE  Shape(req'[p]) /\ Tells(req[p])'
<1> DEFINE c == req[p]
           a == c.browser
<1>1. a \in Browsers \ {b}  OBVIOUS
<1>2. req'[p] = c  BY OthersSame
<1>3. SUFFICES ASSUME c.alone, c.status = "ok"
               PROVE  /\ c.op = "logout" /\ c.pc = "respond" => c.setSess \in Bare'
                      /\ c.op = "login" /\ c.pc = "respond" /\ ~c.expired =>
                            store'[c.setSess] # None /\ store'[c.setSess].user = c.user
                      /\ c.op = "login" /\ c.remember /\ c.pc \in {"commit", "respond"} =>
                            c.setRem \subseteq rows'
  BY <1>2 DEF Tells
<1>4. ASSUME c.op \in {"login", "logout"}, c.pc = "respond"
      PROVE  c.setSess \in Tokens /\ store'[c.setSess] = store[c.setSess]
  <2>1. c.setSess \in Tokens  BY <1>3, <1>4 DEF Shape, Done
  <2>2. a \in TokenHolders[c.setSess]  BY <2>1 DEF TokenHolders, Toks
  <2>3. ~(TokenHolders[c.setSess] \subseteq {b})  BY <1>1, <2>2
  <2>4. QED  BY <2>1, <2>3 DEF Only
<1>5. ASSUME c.setRem \subseteq rows PROVE c.setRem \subseteq rows'
  <2>1. \A k \in c.setRem : k \in Cookies[a]  BY <1>1, <1>5, OutCookies
  <2>2. QED  BY <1>1, <1>5, <2>1, OthersRows
<1>6. QED  BY <1>3, <1>4, <1>5 DEF Tells, Bare

(* A step of one browser keeps the invariant if it takes up only what      *)
(* nobody else holds and keeps what this browser counts on.                *)
LEMMA BrowserStep ==
    ASSUME TypeOK, TypeOK', EffectInv, NEW b \in Browsers, Only(b),
           \A t \in Tokens : b \in TokenHolders'[t] => TokenHolders[t] \subseteq {b},
           \A h \in Hashes : b \in HashHolders'[h] => HashHolders[h] \subseteq {b},
           AloneInv',
           \A p \in Slots : req'[p].browser \in {b, None} => Shape(req'[p]) /\ Tells(req[p])',
           Out(b)', As(b)', Rem(b)'
    PROVE  EffectInv'
<1>1. Owned'  BY StillOwned DEF EffectInv
<1>2. ASSUME NEW p \in Slots PROVE Shape(req'[p]) /\ Tells(req[p])'
  <2>1. CASE req'[p].browser \in {b, None}  BY <2>1
  <2>2. CASE req'[p].browser \notin {b, None}
    <3>1. req'[p].browser \in Browsers \ {b}  BY <2>2 DEF TypeOK, Request
    <3>2. req[p].browser \in Browsers \ {b}  BY <3>1, OthersSame
    <3>3. Shape(req[p]) /\ Tells(req[p])  BY DEF EffectInv
    <3>4. QED  BY <3>2, <3>3, OthersTell
  <2>3. QED  BY <2>1, <2>2
<1>3. ASSUME NEW a \in Browsers PROVE Out(a)' /\ As(a)' /\ Rem(a)'
  <2>1. CASE a = b
    <3>1. \A x : x = b => Out(x)' /\ As(x)' /\ Rem(x)'  OBVIOUS
    <3>2. QED  BY <2>1, <3>1
  <2>2. CASE a # b
    <3>1. Out(a) /\ As(a) /\ Rem(a)  BY DEF EffectInv
    <3>2. QED  BY <2>2, <3>1, OthersKeep
  <2>3. QED  BY <2>1, <2>2
<1>4. QED  BY <1>1, <1>2, <1>3 DEF EffectInv

(* A browser holds what it asks for that is fresh or its own already.      *)
LEMMA FreshUnheld ==
    /\ \A t \in Tokens : FreshToken(t) => TokenHolders[t] = {}
    /\ \A h \in Hashes : FreshHash(h) => HashHolders[h] = {}
<1>1. ASSUME NEW t \in Tokens, FreshToken(t) PROVE TokenHolders[t] = {}
  BY <1>1 DEF FreshToken, TokenHolders, Toks
<1>2. ASSUME NEW h \in Hashes, FreshHash(h) PROVE HashHolders[h] = {}
  BY <1>2 DEF FreshHash, HashHolders, Marks
<1>3. QED  BY <1>1, <1>2

(* What one browser holds nobody else does.                                *)
LEMMA Mine ==
    ASSUME Owned, NEW b \in Browsers
    PROVE  /\ \A t \in Tokens : b \in TokenHolders[t] => TokenHolders[t] \subseteq {b}
           /\ \A h \in Hashes : b \in HashHolders[h] => HashHolders[h] \subseteq {b}
BY DEF Owned
-----------------------------------------------------------------------------
(* Steps of one request.                                                   *)

(* A request that is not free belongs to a browser.                        *)
LEMMA BrowserOf ==
    ASSUME TypeOK, EffectInv, NEW q \in Slots, req[q].pc # "free"
    PROVE  req[q].browser \in Browsers /\ req[q] \in Request /\ Shape(req[q]) /\ Tells(req[q])
BY DEF EffectInv, Shape, TypeOK, Request

(* Nobody loses what is theirs when a request touches what its browser     *)
(* holds and what is fresh.                                                *)
LEMMA RequestOnly ==
    ASSUME TypeOK, EffectInv, NEW q \in Slots, NEW d, Become(q, d), req[q].pc # "free",
           d.browser = req[q].browser, UNCHANGED jar,
           \A a \in Browsers \ {req[q].browser} : known'[a] = known[a],
           \A t \in Tokens : store'[t] = store[t] \/ t \in Toks(req[q]) \/ FreshToken(t),
           \A h \in Hashes : \/ \A u \in Users : <<u, h>> \in rows' <=> <<u, h>> \in rows
                             \/ Marks(req[q], h) \/ FreshHash(h)
    PROVE  Only(req[q].browser)
<1> DEFINE b == req[q].browser
<1>1. b \in Browsers /\ Owned  BY BrowserOf DEF EffectInv
<1>2. ASSUME NEW p \in Slots
      PROVE  req'[p] = req[p] \/ {req[p].browser, req'[p].browser} \subseteq {b, None}
  BY DEF Become, TypeOK
<1>3. ASSUME NEW t \in Tokens PROVE store'[t] = store[t] \/ TokenHolders[t] \subseteq {b}
  <2>1. t \in Toks(req[q]) => b \in TokenHolders[t]  BY <1>1 DEF TokenHolders
  <2>2. QED  BY <1>1, <2>1, Mine, FreshUnheld
<1>4. ASSUME NEW h \in Hashes
      PROVE  \/ \A u \in Users : <<u, h>> \in rows' <=> <<u, h>> \in rows
             \/ HashHolders[h] \subseteq {b}
  <2>1. Marks(req[q], h) => b \in HashHolders[h]  BY <1>1 DEF HashHolders
  <2>2. QED  BY <1>1, <2>1, Mine, FreshUnheld
<1>5. QED  BY <1>2, <1>3, <1>4 DEF Only

(* The request takes up only what its browser holds and what is fresh.     *)
LEMMA RequestTakes ==
    ASSUME TypeOK, EffectInv, NEW q \in Slots, NEW d, Become(q, d), req[q].pc # "free",
           d.browser = req[q].browser, UNCHANGED jar,
           \A t \in Tokens : t \in Toks(d) => t \in Toks(req[q]) \/ FreshToken(t),
           \A h \in Hashes : Marks(d, h) => req[q].browser \in HashHolders[h] \/ FreshHash(h),
           \A t \in Tokens : \/ store'[t] = store[t] \/ store'[t] = None
                             \/ store'[t].rt = None \/ Marks(req[q], store'[t].rt)
    PROVE  /\ \A t \in Tokens : req[q].browser \in TokenHolders'[t] =>
                 req[q].browser \in TokenHolders[t] \/ FreshToken(t)
           /\ \A h \in Hashes : req[q].browser \in HashHolders'[h] =>
                 req[q].browser \in HashHolders[h] \/ FreshHash(h)
<1> DEFINE b == req[q].browser
<1>1. b \in Browsers  BY BrowserOf
<1>2. \A p \in Slots : req'[p] = IF p = q THEN d ELSE req[p]  BY DEF Become, TypeOK
<1>3. ASSUME NEW t \in Tokens, b \in TokenHolders'[t] PROVE b \in TokenHolders[t] \/ FreshToken(t)
  <2>1. \/ jar[b].sess = t
        \/ \E p \in Slots : req'[p].browser = b /\ t \in Toks(req'[p])
    BY <1>3 DEF TokenHolders, Toks
  <2>2. CASE jar[b].sess = t  BY <1>1, <2>2 DEF TokenHolders
  <2>3. ASSUME NEW p \in Slots, req'[p].browser = b, t \in Toks(req'[p])
        PROVE  b \in TokenHolders[t] \/ FreshToken(t)
    <3>1. CASE p = q
      <4>1. t \in Toks(d)  BY <1>2, <2>3, <3>1
      <4>2. t \in Toks(req[q]) \/ FreshToken(t)  BY <4>1
      <4>3. QED  BY <1>1, <4>2 DEF TokenHolders
    <3>2. CASE p # q
      <4>1. req[p].browser = b /\ t \in Toks(req[p])  BY <1>2, <2>3, <3>2
      <4>2. QED  BY <1>1, <4>1 DEF TokenHolders
    <3>3. QED  BY <3>1, <3>2
  <2>4. QED  BY <2>1, <2>2, <2>3
<1>4. ASSUME NEW h \in Hashes, b \in HashHolders'[h] PROVE b \in HashHolders[h] \/ FreshHash(h)
  <2>1. \/ \E u \in Users : jar[b].rem = <<u, h>>
        \/ \E p \in Slots : req'[p].browser = b /\ Marks(req'[p], h)
        \/ \E t \in Tokens : b \in TokenHolders'[t] /\ store'[t] # None /\ store'[t].rt = h
    BY <1>4 DEF HashHolders, Marks
  <2>2. CASE \E u \in Users : jar[b].rem = <<u, h>>  BY <1>1, <2>2 DEF HashHolders
  <2>3. ASSUME NEW p \in Slots, req'[p].browser = b, Marks(req'[p], h)
        PROVE  b \in HashHolders[h] \/ FreshHash(h)
    <3>1. CASE p = q
      <4>1. Marks(d, h)  BY <1>2, <2>3, <3>1
      <4>2. QED  BY <4>1
    <3>2. CASE p # q
      <4>1. req[p].browser = b /\ Marks(req[p], h)  BY <1>2, <2>3, <3>2
      <4>2. QED  BY <1>1, <4>1 DEF HashHolders
    <3>3. QED  BY <3>1, <3>2
  <2>4. ASSUME NEW t \in Tokens, b \in TokenHolders'[t], store'[t] # None, store'[t].rt = h
        PROVE  b \in HashHolders[h]
    <3>1. CASE store'[t] = store[t]
      <4>1. ~FreshToken(t)  BY <2>4, <3>1 DEF FreshToken
      <4>2. b \in TokenHolders[t]  BY <1>3, <2>4, <4>1
      <4>3. QED  BY <1>1, <2>4, <3>1, <4>2 DEF HashHolders
    <3>2. CASE Marks(req[q], h)  BY <1>1, <3>2 DEF HashHolders
    <3>3. h # None  BY NoneAssumption DEF NoneAssumption
    <3>4. QED  BY <2>4, <3>1, <3>2, <3>3
  <2>5. QED  BY <2>1, <2>2, <2>3, <2>4
<1>5. QED  BY <1>3, <1>4

(* The main lemma about the steps of a request: its new state d is in      *)
(* order, and so are the session and the table for what its browser counts *)
(* on.                                                                     *)
LEMMA RequestKeeps ==
    ASSUME TypeOK, TypeOK', EffectInv, NEW q \in Slots, NEW d, Become(q, d), req[q].pc # "free",
           NEW b, b = req[q].browser, d.browser = b, d.alone = req[q].alone, UNCHANGED jar,
           known' \in {known, [known EXCEPT ![b].rem = None]},
           \A t \in Tokens : store'[t] = store[t] \/ t \in Toks(req[q]) \/ FreshToken(t),
           \A h \in Hashes : \/ \A u \in Users : <<u, h>> \in rows' <=> <<u, h>> \in rows
                             \/ Marks(req[q], h) \/ FreshHash(h),
           \A t \in Tokens : t \in Toks(d) => t \in Toks(req[q]) \/ FreshToken(t),
           \A h \in Hashes : Marks(d, h) => b \in HashHolders[h] \/ FreshHash(h),
           \A t \in Tokens : \/ store'[t] = store[t] \/ store'[t] = None
                             \/ store'[t].rt = None \/ Marks(req[q], store'[t].rt),
           Shape(d), Tells(req[q])',
           known[b].out =>
              /\ rows' \subseteq rows
              /\ \A t \in Tokens : store'[t] = store[t] \/ t \in Bare'
              /\ Harmless(req[q])',
           known[b].as # None =>
              /\ store'[jar[b].sess] # None
              /\ store'[jar[b].sess].user = known[b].as
              /\ KeepsLogin(d, jar[b].sess, known[b].as),
           known'[b].rem # None =>
              jar[b].rem \in rows' /\ KeepsCookie(d, jar[b].rem)
    PROVE  EffectInv'
<1>1. b \in Browsers /\ req[q] \in Request  BY BrowserOf
<1>2. req'[q] = d /\ \A p \in Slots : p # q => req'[p] = req[p]  BY DEF Become, TypeOK
<1>3. /\ \A a \in Browsers \ {b} : known'[a] = known[a]
      /\ known'[b].out = known[b].out /\ known'[b].as = known[b].as
      /\ known'[b].rem # None => known'[b].rem = known[b].rem
  BY <1>1 DEF TypeOK, Told
<1>4. Only(b)  BY <1>3, RequestOnly
<1>5. /\ \A t \in Tokens : b \in TokenHolders'[t] => b \in TokenHolders[t] \/ FreshToken(t)
      /\ \A h \in Hashes : b \in HashHolders'[h] => b \in HashHolders[h] \/ FreshHash(h)
  BY RequestTakes
<1>6. /\ \A t \in Tokens : b \in TokenHolders'[t] => TokenHolders[t] \subseteq {b}
      /\ \A h \in Hashes : b \in HashHolders'[h] => HashHolders[h] \subseteq {b}
  <2>1. Owned  BY DEF EffectInv
  <2>2. QED  BY <1>1, <1>5, <2>1, Mine, FreshUnheld
<1>7. \A p \in Slots : req'[p].browser = req[p].browser /\ req'[p].alone = req[p].alone
  BY <1>2
<1>8. AloneInv'  BY <1>7 DEF EffectInv, AloneInv
<1>9. ASSUME NEW p \in Slots, req'[p].browser \in {b, None} PROVE Shape(req'[p]) /\ Tells(req[p])'
  <2>1. CASE p = q
    <3>1. \A x : x = q => Tells(req[x])'  OBVIOUS
    <3>2. QED  BY <1>2, <2>1, <3>1
  <2>2. CASE p # q
    <3>1. req'[p] = req[p] /\ Shape(req[p])  BY <1>2, <2>2 DEF EffectInv
    <3>2. CASE req[p].browser = None
      <4>1. req[p].pc = "free"  BY <3>1, <3>2 DEF Shape
      <4>2. QED  BY <3>1, <4>1 DEF Tells
    <3>3. CASE req[p].browser = b
      <4>1. b # None  BY <1>1, NoneAssumption DEF NoneAssumption
      <4>2. ~req[p].alone  BY <2>2, <3>3, <4>1 DEF EffectInv, AloneInv
      <4>3. QED  BY <3>1, <4>2 DEF Tells
    <3>4. QED  BY <1>9, <3>1, <3>2, <3>3
  <2>3. QED  BY <2>1, <2>2
<1>10. Out(b) /\ As(b) /\ Rem(b)  BY <1>1 DEF EffectInv
<1>11. Out(b)'
  <2>1. SUFFICES ASSUME known[b].out
                 PROVE  /\ jar[b].rem \notin rows'
                        /\ \A t \in Tokens : b \in TokenHolders'[t] => t \in Bare'
                        /\ \A p \in Slots : req'[p].browser = b => Harmless(req[p])'
    BY <1>2, <1>3 DEF Out
  <2>2. rows' \subseteq rows  BY <2>1
  <2>3. jar[b].rem \notin rows'  BY <1>10, <2>1, <2>2 DEF Out
  <2>4. ASSUME NEW t \in Tokens, b \in TokenHolders'[t] PROVE t \in Bare'
    <3>1. t \in Bare  BY <1>5, <1>10, <2>1, <2>4 DEF Out, Bare, FreshToken
    <3>2. store'[t] = store[t] \/ t \in Bare'  BY <2>1
    <3>3. QED  BY <3>1, <3>2 DEF Bare
  <2>5. ASSUME NEW p \in Slots, req'[p].browser = b PROVE Harmless(req[p])'
    <3>1. CASE p = q
      <4>1. \A x : x = q => Harmless(req[x])'  BY <2>1
      <4>2. QED  BY <3>1, <4>1
    <3>2. CASE p # q
      <4>1. req'[p] = req[p] /\ Harmless(req[p])  BY <1>2, <1>10, <2>1, <2>5, <3>2 DEF Out
      <4>2. QED  BY <2>2, <4>1 DEF Harmless
    <3>3. QED  BY <3>1, <3>2
  <2>6. QED  BY <2>3, <2>4, <2>5
<1>12. As(b)'
  <2>1. SUFFICES ASSUME known[b].as # None
                 PROVE  /\ jar[b].sess \in Tokens
                        /\ store'[jar[b].sess] # None
                        /\ store'[jar[b].sess].user = known[b].as
                        /\ \A p \in Slots : req'[p].browser = b =>
                              KeepsLogin(req'[p], jar[b].sess, known[b].as)
    BY <1>3 DEF As, KeepsLogin
  <2>2. jar[b].sess \in Tokens  BY <1>10, <2>1 DEF As
  <2>3. ASSUME NEW p \in Slots, req'[p].browser = b
        PROVE  KeepsLogin(req'[p], jar[b].sess, known[b].as)
    BY <1>2, <1>10, <2>1, <2>3 DEF As
  <2>4. QED  BY <2>1, <2>2, <2>3
<1>13. Rem(b)'
  <2>1. SUFFICES ASSUME known'[b].rem # None
                 PROVE  /\ jar[b].rem \in rows'
                        /\ jar[b].rem[1] = known[b].rem
                        /\ \A p \in Slots : req'[p].browser = b => KeepsCookie(req'[p], jar[b].rem)
    BY <1>3 DEF Rem, KeepsCookie
  <2>2. jar[b].rem[1] = known[b].rem  BY <1>3, <1>10, <2>1 DEF Rem
  <2>3. ASSUME NEW p \in Slots, req'[p].browser = b PROVE KeepsCookie(req'[p], jar[b].rem)
    BY <1>2, <1>3, <1>10, <2>1, <2>3 DEF Rem
  <2>4. QED  BY <2>1, <2>2, <2>3
<1>14. QED  BY <1>1, <1>4, <1>6, <1>8, <1>9, <1>11, <1>12, <1>13, BrowserStep
-----------------------------------------------------------------------------
(* What the handlers do to the copy.  They may drop what a request holds,  *)
(* and a copy that is to be committed keeps its token and its user.        *)
Same(c, d) ==
    /\ d.browser = c.browser /\ d.op = c.op /\ d.user = c.user
    /\ d.remember = c.remember /\ d.alone = c.alone
    /\ d.expired = c.expired /\ d.setSess = c.setSess
    /\ d.sess \in {c.sess, None} /\ d.token \in {c.token, None}
    /\ d.rem \in {c.rem, None}
    /\ d.pc = "commit" => d.token = c.token

Stays(c, d) ==
    /\ Same(c, d)
    /\ d.setRem = c.setRem
    /\ d.values.rt \in {c.values.rt, None}
    /\ d.values.user \in {c.values.user, None}
    /\ d.pc = "commit" => d.values.user = c.values.user

Finishes(c, d) ==
    /\ Stays(c, d) /\ d.status = c.status
    /\ d.pc \in {"commit", "respond"}
    /\ c.modified => d.pc = "commit"

Handles(c, d) ==
    /\ Stays(c, d) /\ d.status = c.status
    /\ c.modified => d.pc # "respond"
    /\ d.pc \in CASE c.op = "login"  -> {"auth"}
                  [] c.op = "logout" -> {"delrow", "leave"}
                  [] OTHER           -> {"commit", "respond"}

(* The answer has forgotten the copy.                                      *)
LEMMA AnswerStays ==
    ASSUME NEW c \in Request
    PROVE  /\ Stays(c, Answer(c))
           /\ Answer(c).pc = "respond" /\ Answer(c).status = c.status
<1> DEFINE d == [c EXCEPT !.pc = "respond", !.sess = None, !.rem = None]
           e == [d EXCEPT !.token = None, !.values = NoValues, !.modified = FALSE]
<1>1. /\ d.pc = "respond" /\ d.sess = None /\ d.rem = None
      /\ d.browser = c.browser /\ d.op = c.op /\ d.user = c.user
      /\ d.remember = c.remember /\ d.alone = c.alone
      /\ d.expired = c.expired /\ d.status = c.status
      /\ d.setSess = c.setSess /\ d.setRem = c.setRem /\ d \in Request
  BY DEF Request, Pc, Cookie
<1>2. NoValues \in Values /\ NoValues.rt = None /\ NoValues.user = None  BY DEF NoValues, Values
<1>3. Answer(c) = e  BY DEF Answer, Request
<1> HIDE DEF d
<1>4. /\ e.pc = "respond" /\ e.sess = None /\ e.rem = None
      /\ e.token = None /\ e.values = NoValues
      /\ e.browser = d.browser /\ e.op = d.op /\ e.user = d.user
      /\ e.remember = d.remember /\ e.alone = d.alone
      /\ e.expired = d.expired /\ e.status = d.status
      /\ e.setSess = d.setSess /\ e.setRem = d.setRem
  BY <1>1 DEF Request
<1> HIDE DEF e
<1>5. QED  BY <1>1, <1>2, <1>3, <1>4 DEF Stays, Same

(* The end of a handler.                                                   *)
LEMMA FinishStays == ASSUME NEW c \in Request PROVE Finishes(c, Finish(c))
<1> DEFINE d == [c EXCEPT !.pc = "commit", !.rem = None]
<1>1. Stays(c, d) /\ d.pc = "commit" /\ d.status = c.status  BY DEF Request, Stays, Same
<1>2. Finish(c) = IF c.modified THEN d ELSE Answer(c)  BY DEF Finish
<1> HIDE DEF d
<1>3. QED  BY <1>1, <1>2, AnswerStays DEF Finishes

(* A message comes or goes before the end.                                 *)
LEMMA NoteStays ==
    ASSUME NEW c \in Request
    PROVE  Finishes(c, Visit(c)) /\ Finishes(c, PostResetPassword(c))
<1>1. ASSUME NEW n \in BOOLEAN, NEW m \in BOOLEAN, c.modified => m
      PROVE  Finishes(c, Finish([c EXCEPT !.values.note = n, !.modified = m]))
  <2> DEFINE v == [c.values EXCEPT !.note = n]
             d == [c EXCEPT !.values.note = n, !.modified = m]
             e == [c EXCEPT !.values = v, !.modified = m]
  <2>0. v \in Values /\ v.rt = c.values.rt /\ v.user = c.values.user /\ d = e
    BY DEF Request, Values
  <2> HIDE DEF v, d
  <2>1. /\ d \in Request /\ d.modified = m
        /\ d.browser = c.browser /\ d.op = c.op /\ d.user = c.user
        /\ d.remember = c.remember /\ d.alone = c.alone
        /\ d.expired = c.expired /\ d.status = c.status
        /\ d.setSess = c.setSess /\ d.setRem = c.setRem
        /\ d.sess = c.sess /\ d.token = c.token /\ d.rem = c.rem
        /\ d.values = v
    BY <2>0 DEF Request
  <2>2. Finishes(d, Finish(d))  BY <2>1, FinishStays
  <2>3. Finishes(c, Finish(d))  BY <1>1, <2>0, <2>1, <2>2 DEF Finishes, Stays, Same
  <2>4. QED  BY <2>3 DEF d
<1>2. c.modified \in BOOLEAN /\ c.values.note \in BOOLEAN  BY DEF Request, Values
<1>3. Finishes(c, Visit(c))
  <2> DEFINE m == c.modified \/ c.values.note
  <2>1. Visit(c) = Finish([c EXCEPT !.values.note = FALSE, !.modified = m])  BY DEF Visit
  <2>2. m \in BOOLEAN /\ FALSE \in BOOLEAN /\ (c.modified => m)  BY <1>2
  <2> HIDE DEF m
  <2>3. QED  BY <1>1, <2>1, <2>2
<1>4. Finishes(c, PostResetPassword(c))  BY <1>1 DEF PostResetPassword
<1>5. QED  BY <1>3, <1>4

(* A handler up to its first access.                                       *)
LEMMA HandleStays == ASSUME NEW c \in Request PROVE Handles(c, Handle(c))
<1>1. c.op \in Op  BY DEF Request
<1>2. CASE c.op = "visit"
  <2>1. Finishes(c, Handle(c))  BY <1>2, NoteStays DEF Handle
  <2>2. QED  BY <1>2, <2>1 DEF Finishes, Handles
<1>3. CASE c.op = "reset"
  <2>1. Finishes(c, Handle(c))  BY <1>3, NoteStays DEF Handle
  <2>2. QED  BY <1>3, <2>1 DEF Finishes, Handles
<1>4. CASE c.op = "logout"
  <2>1. ASSUME NEW p \in {"delrow", "leave"}
        PROVE  Handles(c, [c EXCEPT !.pc = p, !.forced = FALSE, !.rem = None])
    BY <1>4 DEF Request, Handles, Stays, Same
  <2>2. Handle(c) = Logout(c)  BY <1>4 DEF Handle
  <2>3. QED  BY <2>1, <2>2 DEF Logout
<1>5. CASE c.op = "login"
  <2>1. Handle(c) = [c EXCEPT !.pc = "auth", !.rem = None]  BY <1>5 DEF Handle
  <2>2. Handles(c, [c EXCEPT !.pc = "auth", !.rem = None])
    BY <1>5 DEF Request, Handles, Stays, Same
  <2>3. QED  BY <2>1, <2>2
<1>6. QED  BY <1>1, <1>2, <1>3, <1>4, <1>5 DEF Op

(* A request that failed answers; one that is refused commits its copy.    *)
LEMMA FailStays ==
    ASSUME NEW c \in Request
    PROVE  LET d == Answer([c EXCEPT !.status = "fail"])
               e == Refused(c)
           IN /\ Stays(c, d) /\ d.status = "fail" /\ d.pc = "respond"
              /\ Stays(c, e) /\ e.status = "fail" /\ e.pc \in {"commit", "respond"}
<1> DEFINE x == [c EXCEPT !.status = "fail"]
<1>1. /\ x \in Request /\ x.status = "fail"
      /\ x.browser = c.browser /\ x.op = c.op /\ x.user = c.user
      /\ x.remember = c.remember /\ x.alone = c.alone
      /\ x.expired = c.expired /\ x.setSess = c.setSess /\ x.setRem = c.setRem
      /\ x.sess = c.sess /\ x.token = c.token /\ x.rem = c.rem /\ x.values = c.values
  BY DEF Request
<1>2. Refused(c) = Finish(x)  BY DEF Refused
<1> HIDE DEF x
<1>3. /\ Stays(x, Answer(x)) /\ Answer(x).status = "fail" /\ Answer(x).pc = "respond"
      /\ Stays(x, Finish(x)) /\ Finish(x).status = "fail" /\ Finish(x).pc \in {"commit", "respond"}
  BY <1>1, AnswerStays, FinishStays DEF Finishes
<1>4. Stays(c, Answer(x)) /\ Stays(c, Finish(x))  BY <1>1, <1>3 DEF Stays, Same
<1>5. QED  BY <1>2, <1>3, <1>4 DEF x

(* What leaving a session does to the copy: user, remember token and       *)
(* cookie are gone, and the copy is committed.                             *)
Leaves(c, d) ==
    /\ Same(c, d) /\ d.status = c.status /\ d.setRem = {None}
    /\ d.values.user = None /\ d.values.rt = None
    /\ d.pc \in CASE c.op = "login"  -> {"auth", "commit"}
                  [] c.op = "logout" -> {"delrow", "leave", "commit"}
                  [] OTHER           -> {"commit"}
    /\ c.op = "login" /\ c.forced => d.pc = "auth"

LEMMA LeftLeaves == ASSUME NEW c \in Request PROVE Leaves(c, Left(c))
<1> DEFINE v == [c.values EXCEPT !.user = None, !.rt = None]
           w == [v EXCEPT !.note = TRUE]
           s == [c EXCEPT !.setRem = {None}]
           out0 == [c EXCEPT !.values.user = None, !.values.rt = None, !.modified = TRUE,
                             !.setRem = {None}]
           out == [s EXCEPT !.values = v, !.modified = TRUE]
           told == [s EXCEPT !.values = w, !.modified = TRUE]
<1>1. /\ v \in Values /\ v.user = None /\ v.rt = None
      /\ w \in Values /\ w.user = None /\ w.rt = None
  BY DEF Request, Values
<1>2. /\ s \in Request /\ s.status = c.status /\ s.op = c.op /\ s.setRem = {None}
      /\ \A d : Same(s, d) => Same(c, d)
  BY DEF Request, Cookie, Same
<1>3. out0 = out  BY DEF Request
<1>4. [out EXCEPT !.values.note = TRUE] = told  BY DEF Request
<1>5. Left(c) = IF c.forced THEN Handle([out0 EXCEPT !.values.note = TRUE]) ELSE Finish(out0)
  BY DEF Left
<1>6. Left(c) = IF c.forced THEN Handle(told) ELSE Finish(out)
  <2> HIDE DEF out, out0, told
  <2>1. [out0 EXCEPT !.values.note = TRUE] = told  BY <1>3, <1>4
  <2>2. QED  BY <1>3, <1>5, <2>1
<1> HIDE DEF v, w, s, out0
<1>7. ASSUME NEW x \in Values, x.user = None, x.rt = None, NEW y, y = [s EXCEPT !.values = x, !.modified = TRUE]
      PROVE  /\ y \in Request /\ y.op = c.op /\ y.modified
             /\ \A d : Stays(y, d) /\ d.status = y.status =>
                   /\ Same(c, d) /\ d.status = c.status /\ d.setRem = {None}
                   /\ d.values.user = None /\ d.values.rt = None
  <2>1. /\ y \in Request /\ y.values = x /\ y.modified = TRUE
        /\ y.browser = s.browser /\ y.op = s.op /\ y.user = s.user
        /\ y.remember = s.remember /\ y.alone = s.alone
        /\ y.expired = s.expired /\ y.setSess = s.setSess /\ y.setRem = s.setRem
        /\ y.sess = s.sess /\ y.token = s.token /\ y.rem = s.rem /\ y.status = s.status
    BY <1>2, <1>7 DEF Request
  <2>2. QED  BY <1>2, <1>7, <2>1 DEF Stays, Same
<1>8. CASE c.forced
  <2>1. told \in Request /\ told.op = c.op /\ told.modified  BY <1>1, <1>7
  <2>2. Handles(told, Left(c))  BY <1>6, <1>8, <2>1, HandleStays
  <2> HIDE DEF told
  <2>3. Same(c, Left(c)) /\ Left(c).status = c.status /\ Left(c).setRem = {None}
        /\ Left(c).values.user = None /\ Left(c).values.rt = None
    BY <1>1, <1>7, <2>2 DEF Handles, told
  <2>4. QED  BY <2>1, <2>2, <2>3 DEF Handles, Leaves
<1>9. CASE ~c.forced
  <2>1. out \in Request /\ out.op = c.op /\ out.modified  BY <1>1, <1>7
  <2>2. Finishes(out, Left(c))  BY <1>6, <1>9, <2>1, FinishStays
  <2> HIDE DEF out
  <2>3. Same(c, Left(c)) /\ Left(c).status = c.status /\ Left(c).setRem = {None}
        /\ Left(c).values.user = None /\ Left(c).values.rt = None
    BY <1>1, <1>7, <2>2 DEF Finishes, out
  <2>4. QED  BY <1>9, <2>1, <2>2, <2>3 DEF Finishes, Leaves
<1>10. QED  BY <1>8, <1>9
-----------------------------------------------------------------------------
(* What the browser of a request counts on, and what it does not while it  *)
(* logs in or out.                                                         *)
LEMMA CountsOn ==
    ASSUME TypeOK, EffectInv, NEW q \in Slots, req[q].pc # "free", NEW b, b = req[q].browser
    PROVE  /\ known[b].out =>
                 /\ Harmless(req[q]) /\ jar[b].rem \notin rows
                 /\ \A t \in Tokens : b \in TokenHolders[t] => t \in Bare
           /\ known[b].as # None =>
                 /\ KeepsLogin(req[q], jar[b].sess, known[b].as)
                 /\ jar[b].sess \in Tokens /\ store[jar[b].sess] # None
                 /\ store[jar[b].sess].user = known[b].as
           /\ known[b].rem # None =>
                 KeepsCookie(req[q], jar[b].rem) /\ jar[b].rem \in rows
           /\ req[q].op = "login" => ~known[b].out
           /\ req[q].op \in {"login", "logout"} => known[b].as = None /\ known[b].rem = None
<1>1. b \in Browsers  BY BrowserOf
<1>2. Out(b) /\ As(b) /\ Rem(b)  BY <1>1 DEF EffectInv
<1>3. known[b] \in Told  BY <1>1 DEF TypeOK
<1>4. QED  BY <1>2, <1>3 DEF Out, As, Rem, Harmless, KeepsLogin, KeepsCookie, Told

(* A step of a request that leaves the sessions, the table and the cookies *)
(* as they are: c is its copy before the handler, d after it.              *)
LEMMA QuietKeeps ==
    ASSUME TypeOK, TypeOK', EffectInv, NEW q \in Slots, NEW d, Become(q, d), req[q].pc # "free",
           NEW b, b = req[q].browser, UNCHANGED <<rows, store, jar>>,
           known' \in {known, [known EXCEPT ![b].rem = None]},
           NEW c, c.browser = b, c.alone = req[q].alone, Stays(c, d), Shape(d),
           \A t \in Tokens : t \in Toks(c) => b \in TokenHolders[t] /\ t \in Toks(req[q]),
           \A h \in Hashes : Marks(c, h) => b \in HashHolders[h],
           d.status = "ok" /\ d.op \in {"login", "logout"} =>
               d.pc # "respond" /\ ~(d.op = "login" /\ d.remember /\ d.pc = "commit"),
           known[b].out =>
               /\ d.op # "login" /\ d.pc # "getuser" /\ c.values.user = None
               /\ c.rem \notin rows /\ c.setRem \cap rows = {},
           known[b].as # None => KeepsLogin(d, jar[b].sess, known[b].as),
           known'[b].rem # None => KeepsCookie(d, jar[b].rem)
    PROVE  EffectInv'
<1>1. None \notin Tokens \cup Hashes  BY NoneAssumption DEF NoneAssumption
<1>2. req'[q] = d  BY DEF Become, TypeOK
<1>3. d.browser = b /\ d.alone = req[q].alone  BY DEF Stays, Same
<1>4. \A t \in Tokens : t \in Toks(d) => t \in Toks(req[q]) \/ FreshToken(t)
  <2>1. Toks(d) \subseteq Toks(c) \cup {None}  BY DEF Stays, Same, Toks
  <2>2. QED  BY <1>1, <2>1
<1>5. \A h \in Hashes : Marks(d, h) => b \in HashHolders[h] \/ FreshHash(h)
  <2>1. \A h \in Hashes : Marks(d, h) => Marks(c, h)
    <3>1. \A u \in Users, h \in Hashes : <<u, h>> # None
      BY MarkerAssumption DEF MarkerAssumption
    <3>2. QED  BY <1>1, <3>1 DEF Stays, Same, Marks
  <2>2. QED  BY <2>1
<1>6. Tells(req[q])'  BY <1>2 DEF Tells
<1>7. ASSUME known[b].out PROVE rows' \subseteq rows /\ Harmless(req[q])'
  <2>1. None \notin rows
    BY MarkerAssumption DEF MarkerAssumption, TypeOK
  <2>2. QED  BY <1>2, <1>7, <2>1 DEF Harmless, Stays, Same
<1>8. Out(b) /\ As(b) /\ Rem(b)  BY BrowserOf DEF EffectInv
<1>9. known'[b].rem # None => known[b].rem # None
  <2>1. b \in Browsers  BY BrowserOf
  <2>2. QED  BY <2>1 DEF TypeOK, Told
<1>10. /\ known[b].as # None => /\ store'[jar[b].sess] # None
                                /\ store'[jar[b].sess].user = known[b].as
       /\ known'[b].rem # None => jar[b].rem \in rows'
  BY <1>8, <1>9 DEF As, Rem
<1>11. QED
  BY <1>3, <1>4, <1>5, <1>6, <1>7, <1>10, RequestKeeps

(* What a request holds is held by its browser.                            *)
LEMMA Holds ==
    ASSUME NEW b \in Browsers, NEW q \in Slots, b = req[q].browser
    PROVE  /\ \A t \in Tokens : t \in Toks(req[q]) => b \in TokenHolders[t]
           /\ \A h \in Hashes : Marks(req[q], h) => b \in HashHolders[h]
BY DEF TokenHolders, HashHolders

(* After a handler the request is in a place where it may be.              *)
LEMMA HandledShape ==
    ASSUME NEW c \in Request, c.browser \in Browsers, c.op = "login" => c.user \in Users,
           NEW d, Handles(c, d)
    PROVE  /\ Shape(d)
           /\ d.op \in {"login", "logout"} => d.pc \notin {"commit", "respond"}
           /\ d.op \in {"visit", "reset"} => d.pc \in {"commit", "respond"}
           /\ d.pc \notin {"load", "check", "getuser"}
<1>1. c.op \in {"visit", "reset", "login", "logout"}  BY DEF Request, Op
<1>2. d.browser # None /\ d.op = c.op /\ d.user = c.user
  BY NoneAssumption DEF NoneAssumption, Handles, Stays, Same
<1>3. QED  BY <1>1, <1>2 DEF Handles, Shape, Done
-----------------------------------------------------------------------------
(* A handler up to its first access, after the copy was filled.            *)
LEMMA HandlesKeeps ==
    ASSUME TypeOK, TypeOK', EffectInv, NEW q \in Slots, req[q].pc # "free",
           NEW b, b = req[q].browser, UNCHANGED <<rows, store, jar, known>>,
           NEW c \in Request, NEW d, Become(q, d), Handles(c, d),
           c.browser = b, c.alone = req[q].alone, c.op = req[q].op, c.user = req[q].user,
           c.expired = req[q].expired, c.setSess = req[q].setSess, c.setRem = req[q].setRem,
           \A t \in Tokens : t \in Toks(c) => t \in Toks(req[q]),
           \A h \in Hashes : Marks(c, h) => b \in HashHolders[h],
           known[b].out => c.values.user = None /\ c.rem \notin rows,
           known[b].as # None => c.token = jar[b].sess /\ c.values.user = known[b].as
    PROVE  EffectInv'
<1>1. b \in Browsers /\ Shape(req[q])  BY BrowserOf
<1>2. /\ Shape(d)
      /\ d.op \in {"login", "logout"} => d.pc \notin {"commit", "respond"}
      /\ d.op \in {"visit", "reset"} => d.pc \in {"commit", "respond"}
      /\ d.pc \notin {"load", "check", "getuser"}
  <2>1. c.op = "login" => c.user \in Users  BY <1>1 DEF Shape
  <2>2. QED  BY <1>1, <2>1, HandledShape
<1>3. Stays(c, d) /\ d.op = c.op  BY DEF Handles, Stays, Same
<1>4. \A t \in Tokens : t \in Toks(c) => b \in TokenHolders[t] /\ t \in Toks(req[q])
  BY <1>1, Holds
<1>5. /\ known[b].out => Harmless(req[q])
      /\ known[b].as # None => KeepsLogin(req[q], jar[b].sess, known[b].as)
      /\ known[b].rem # None => KeepsCookie(req[q], jar[b].rem)
  BY CountsOn
<1>6. known[b].out => /\ d.op # "login" /\ d.pc # "getuser" /\ c.values.user = None
                      /\ c.rem \notin rows /\ c.setRem \cap rows = {}
  BY <1>2, <1>3, <1>5 DEF Harmless
<1>7. known[b].as # None => KeepsLogin(d, jar[b].sess, known[b].as)
  BY <1>2, <1>3, <1>5 DEF KeepsLogin, Stays, Same
<1>8. known[b].rem # None => KeepsCookie(d, jar[b].rem)
  BY <1>2, <1>3, <1>5 DEF KeepsCookie, Stays, Same
<1>9. QED  BY <1>2, <1>3, <1>4, <1>6, <1>7, <1>8, QuietKeeps

(* The session is loaded.                                                  *)
LEMMA LoadKeeps ==
    ASSUME IInv, TypeOK', EffectInv, NEW q \in Slots, Load(q)
    PROVE  EffectInv'
<1> DEFINE r == req[q]
           t == r.sess
           found == t # None /\ store[t] # None
           tok == IF found THEN t ELSE None
           v == IF found THEN store[t] ELSE NoValues
           c == [r EXCEPT !.sess = None, !.token = tok, !.values = v]
           see == [c EXCEPT !.pc = "check"]
           d == IF c.values.user # None \/ c.rem = None THEN Handle(c) ELSE see
<1>1. TypeOK /\ r.pc = "load"  BY DEF IInv, Load
<1>2. PICK b : b = r.browser  OBVIOUS
<1>3. b \in Browsers /\ r \in Request /\ Shape(r)  BY <1>1, <1>2, BrowserOf
<1>4. Become(q, d) /\ UNCHANGED <<rows, store, jar, known>>  BY DEF Load, history
<1>5. t \in Tokens \cup {None}  BY <1>3 DEF Request
<1>6. v \in Values /\ tok \in Tokens \cup {None}
  <2>1. NoValues \in Values  BY DEF NoValues, Values
  <2>2. found => store[t] \in Values  BY <1>1, <1>5 DEF TypeOK
  <2>3. QED  BY <1>5, <2>1, <2>2
<1>7. /\ tok \in {t, None}
      /\ v.rt # None => found /\ v.rt = store[t].rt
      /\ known[b].out => v.user = None
      /\ known[b].as # None => tok = jar[b].sess /\ v.user = known[b].as
  <2>1. NoValues.rt = None /\ NoValues.user = None  BY DEF NoValues
  <2>2. found => t \in Tokens /\ b \in TokenHolders[t]  BY <1>2, <1>3, <1>5 DEF TokenHolders, Toks
  <2>3. known[b].out /\ found => store[t].user = None  BY <1>1, <1>2, <2>2, CountsOn DEF Bare
  <2>4. None \notin Tokens  BY NoneAssumption DEF NoneAssumption
  <2>5. known[b].as # None => /\ t = jar[b].sess /\ found /\ store[t].user = known[b].as
    BY <1>1, <1>2, <2>4, CountsOn DEF KeepsLogin
  <2>6. QED  BY <2>1, <2>3, <2>5
<1>8. \A h \in Hashes : v.rt = h => b \in HashHolders[h]
  <2>1. None \notin Hashes  BY NoneAssumption DEF NoneAssumption
  <2>2. found => t \in Tokens /\ b \in TokenHolders[t]  BY <1>2, <1>3, <1>5 DEF TokenHolders, Toks
  <2>3. QED  BY <1>3, <1>7, <2>1, <2>2 DEF HashHolders
<1> HIDE DEF tok, v
<1>9. /\ c \in Request /\ c.sess = None /\ c.token = tok /\ c.values = v /\ c.pc = "load"
      /\ c.browser = b /\ c.op = r.op /\ c.user = r.user /\ c.remember = r.remember
      /\ c.alone = r.alone /\ c.expired = r.expired /\ c.setSess = r.setSess
      /\ c.setRem = r.setRem /\ c.rem = r.rem /\ c.status = r.status /\ c.forced = r.forced
  BY <1>1, <1>2, <1>3, <1>6 DEF Request
<1> HIDE DEF c
<1>10. /\ \A x \in Tokens : x \in Toks(c) => x \in Toks(r) /\ b \in TokenHolders[x]
       /\ \A h \in Hashes : Marks(c, h) => b \in HashHolders[h]
  <2>1. None \notin Tokens  BY NoneAssumption DEF NoneAssumption
  <2>2. \A x \in Tokens : x \in Toks(c) => x \in Toks(r)  BY <1>7, <1>9, <2>1 DEF Toks
  <2>3. \A h \in Hashes : Marks(c, h) => v.rt = h \/ Marks(r, h)  BY <1>9 DEF Marks
  <2>4. QED  BY <1>2, <1>3, <1>8, <2>2, <2>3, Holds
<1>11. CASE d = Handle(c)
  <2>1. Handles(c, d)  BY <1>9, <1>11, HandleStays
  <2>2. known[b].out => c.values.user = None /\ c.rem \notin rows
    BY <1>1, <1>2, <1>7, <1>9, CountsOn DEF Harmless
  <2>3. known[b].as # None => c.token = jar[b].sess /\ c.values.user = known[b].as
    BY <1>7, <1>9
  <2> HIDE DEF d
  <2>4. QED  BY <1>1, <1>2, <1>4, <1>9, <1>10, <2>1, <2>2, <2>3, HandlesKeeps
<1>12. CASE d = see /\ c.values.user = None
  <2>1. /\ see.pc = "check" /\ see.browser = b /\ see.op = r.op /\ see.user = r.user
        /\ see.setRem = r.setRem /\ see.rem = r.rem /\ Stays(c, see)
    BY <1>9 DEF Request, Stays, Same
  <2> HIDE DEF see
  <2>2. Shape(see)
    BY <1>3, <2>1, NoneAssumption DEF Shape, Done, NoneAssumption
  <2>3. known[b].out => /\ see.op # "login" /\ see.pc # "getuser" /\ c.values.user = None
                        /\ c.rem \notin rows /\ c.setRem \cap rows = {}
    BY <1>1, <1>2, <1>9, <1>12, <2>1, CountsOn DEF Harmless
  <2>4. known[b].as = None
    <3>1. known[b].as # None => known[b].as = c.values.user  BY <1>7, <1>9
    <3>2. QED  BY <1>12, <3>1
  <2>5. known[b].rem # None => KeepsCookie(see, jar[b].rem)
    BY <1>1, <1>2, <2>1, CountsOn DEF KeepsCookie
  <2>6. Become(q, see)  BY <1>4, <1>12
  <2> HIDE DEF d
  <2>7. QED  BY <1>1, <1>2, <1>4, <1>9, <1>10, <2>1, <2>2, <2>3, <2>4, <2>5, <2>6, QuietKeeps
<1>13. QED  BY <1>11, <1>12
(* A request that failed, or whose login is refused.                       *)
LEMMA FailKeeps ==
    ASSUME TypeOK, TypeOK', EffectInv, NEW q \in Slots, req[q].pc # "free",
           NEW d, Become(q, d), Stays(req[q], d), d.status = "fail",
           d.pc = "respond" \/ (d.pc = "commit" /\ req[q].op = "login"),
           UNCHANGED <<rows, store, jar, known>>
    PROVE  EffectInv'
<1> DEFINE c == req[q]
<1>1. PICK b : b = c.browser  OBVIOUS
<1>2. b \in Browsers /\ c \in Request /\ Shape(c)  BY <1>1, BrowserOf
<1>3. Stays(c, d) /\ d.status = "fail" /\ d.pc \in {"commit", "respond"}  OBVIOUS
<1>4. Shape(d)
  BY <1>1, <1>2, <1>3, NoneAssumption DEF Shape, Done, Stays, Same, NoneAssumption
<1>5. known[b].out => /\ d.op # "login" /\ d.pc # "getuser" /\ c.values.user = None
                      /\ c.rem \notin rows /\ c.setRem \cap rows = {}
  BY <1>1, <1>3, CountsOn DEF Harmless, Stays, Same
<1>6. known[b].as # None => KeepsLogin(d, jar[b].sess, known[b].as)
  BY <1>1, <1>3, CountsOn DEF KeepsLogin, Stays, Same
<1>7. known[b].rem # None => KeepsCookie(d, jar[b].rem)
  BY <1>1, <1>3, CountsOn DEF KeepsCookie, Stays, Same
<1>8. /\ \A x \in Tokens : x \in Toks(c) => x \in Toks(c) /\ b \in TokenHolders[x]
      /\ \A h \in Hashes : Marks(c, h) => b \in HashHolders[h]
  BY <1>1, <1>2, Holds
<1>9. QED  BY <1>1, <1>3, <1>4, <1>5, <1>6, <1>7, <1>8, QuietKeeps

(* Load and the commit may fail.                                           *)
LEMMA ErrorKeeps ==
    ASSUME TypeOK, TypeOK', EffectInv, NEW q \in Slots, LoadFails(q) \/ CommitFails(q)
    PROVE  EffectInv'
<1> DEFINE d == Answer([req[q] EXCEPT !.status = "fail"])
<1>1. Become(q, d) /\ UNCHANGED <<rows, store, jar, known>> /\ req[q].pc \in {"load", "commit"}
  BY DEF LoadFails, CommitFails, Fail, history
<1>2. req[q] \in Request /\ req[q].pc # "free"  BY <1>1 DEF TypeOK
<1>3. Stays(req[q], d) /\ d.status = "fail" /\ d.pc = "respond"  BY <1>2, FailStays
<1> HIDE DEF d
<1>4. QED  BY <1>1, <1>2, <1>3, FailKeeps

(* CheckRemember looks up the cookie: the database may have failed.        *)
LEMMA CheckKeeps ==
    ASSUME TypeOK, TypeOK', EffectInv, NEW q \in Slots, CheckRemember(q)
    PROVE  EffectInv'
<1> DEFINE c == req[q]
           yes == [c EXCEPT !.pc = "getuser"]
           no == [c EXCEPT !.pc = "leave", !.forced = TRUE, !.rem = None]
<1>1. PICK b : b = c.browser  OBVIOUS
<1>2. c.pc = "check" /\ UNCHANGED <<rows, store, jar>>  BY DEF CheckRemember
<1>3. b \in Browsers /\ c \in Request /\ Shape(c)  BY <1>1, <1>2, BrowserOf
<1>4. /\ \A x \in Tokens : x \in Toks(c) => x \in Toks(c) /\ b \in TokenHolders[x]
      /\ \A h \in Hashes : Marks(c, h) => b \in HashHolders[h]
  BY <1>1, <1>3, Holds
<1>5. known[b].as = None  BY <1>1, <1>2, CountsOn DEF KeepsLogin
<1>6. CASE Become(q, yes) /\ c.rem \in rows /\ UNCHANGED known
  <2>1. /\ Stays(c, yes) /\ yes.pc = "getuser" /\ yes.browser = c.browser /\ yes.op = c.op
        /\ yes.user = c.user /\ yes.setRem = c.setRem /\ yes.rem = c.rem
    BY <1>2, <1>3 DEF Request, Stays, Same
  <2> HIDE DEF yes
  <2>2. Shape(yes)
    BY <1>1, <1>3, <2>1, NoneAssumption DEF Shape, Done, NoneAssumption
  <2>3. ~known[b].out  BY <1>1, <1>2, <1>6, CountsOn DEF Harmless
  <2>4. known[b].rem # None => KeepsCookie(yes, jar[b].rem)
    BY <1>1, <1>2, <2>1, CountsOn DEF KeepsCookie
  <2>5. QED  BY <1>1, <1>2, <1>4, <1>5, <1>6, <2>1, <2>2, <2>3, <2>4, QuietKeeps
<1>7. CASE /\ Become(q, no)
           /\ known' = IF c.rem \in rows THEN [known EXCEPT ![b].rem = None] ELSE known
  <2>1. /\ Stays(c, no) /\ no.pc = "leave" /\ no.browser = c.browser /\ no.op = c.op
        /\ no.user = c.user /\ no.forced
    BY <1>2, <1>3 DEF Request, Stays, Same
  <2> HIDE DEF no
  <2>2. Shape(no)
    BY <1>1, <1>3, <2>1, NoneAssumption DEF Shape, Done, NoneAssumption
  <2>3. known[b].out => /\ no.op # "login" /\ no.pc # "getuser" /\ c.values.user = None
                        /\ c.rem \notin rows /\ c.setRem \cap rows = {}
    BY <1>1, <1>2, <2>1, CountsOn DEF Harmless
  <2>4. known'[b].rem = None
    <3>1. CASE c.rem \in rows  BY <1>3, <1>7, <3>1 DEF TypeOK, Told
    <3>2. CASE c.rem \notin rows
      BY <1>1, <1>2, <1>7, <3>2, CountsOn DEF KeepsCookie
    <3>3. QED  BY <3>1, <3>2
  <2>5. known' \in {known, [known EXCEPT ![b].rem = None]}  BY <1>7
  <2>6. QED  BY <1>1, <1>2, <1>4, <1>5, <1>7, <2>1, <2>2, <2>3, <2>4, <2>5, QuietKeeps
<1>8. QED  BY <1>1, <1>6, <1>7 DEF CheckRemember

(* The user of a valid hash is logged in again.                            *)
LEMMA GetRememberedKeeps ==
    ASSUME IInv, TypeOK', EffectInv, NEW q \in Slots, GetRemembered(q)
    PROVE  EffectInv'
<1> DEFINE r == req[q]
           v == [r.values EXCEPT !.user = r.rem[1], !.rt = r.rem[2]]
           c == [r EXCEPT !.values = v, !.modified = TRUE]
           c0 == [r EXCEPT !.values.user = r.rem[1], !.values.rt = r.rem[2], !.modified = TRUE]
<1>1. TypeOK /\ r.pc = "getuser" /\ Good(r)  BY DEF IInv, GetRemembered
<1>2. PICK b : b = r.browser  OBVIOUS
<1>3. b \in Browsers /\ r \in Request /\ Shape(r)  BY <1>1, <1>2, BrowserOf
<1>4. UNCHANGED <<rows, store, jar, known>>  BY DEF GetRemembered, history
<1>5. CASE Fail(q)
  <2> DEFINE d == Answer([r EXCEPT !.status = "fail"])
  <2>1. Become(q, d)  BY <1>5 DEF Fail
  <2>2. Stays(r, d) /\ d.status = "fail" /\ d.pc = "respond"  BY <1>3, FailStays
  <2> HIDE DEF d
  <2>3. QED  BY <1>1, <1>4, <2>1, <2>2, FailKeeps
<1>6. CASE Become(q, Handle(c0))
  <2>1. PICK u \in Users, h \in Hashes : r.rem = <<u, h>>  BY <1>1 DEF Good
  <2>2. v \in Values /\ v.user = u /\ v.rt = h
    <3>1. r.rem[1] = u /\ r.rem[2] = h  BY <2>1
    <3>2. r.values \in Values  BY <1>3 DEF Request
    <3>3. v = [r.values EXCEPT !.user = u, !.rt = h]  BY <3>1
    <3>4. QED  BY <3>2, <3>3 DEF Values
  <2>3. c0 = c  BY <1>3 DEF Request
  <2> HIDE DEF v
  <2>4. /\ c \in Request /\ c.sess = r.sess /\ c.token = r.token /\ c.values = v
        /\ c.browser = b /\ c.op = r.op /\ c.user = r.user
        /\ c.alone = r.alone /\ c.expired = r.expired /\ c.setSess = r.setSess
        /\ c.setRem = r.setRem /\ c.rem = r.rem
    BY <1>2, <1>3, <2>2 DEF Request
  <2> HIDE DEF c, c0
  <2>5. \A g \in Hashes : Marks(c, g) => b \in HashHolders[g]
    <3>1. \A g \in Hashes : Marks(c, g) => Marks(r, g)  BY <2>1, <2>2, <2>4 DEF Marks
    <3>2. QED  BY <1>2, <1>3, <3>1, Holds
  <2>6. ~known[b].out /\ known[b].as = None
    BY <1>1, <1>2, CountsOn DEF Harmless, KeepsLogin
  <2> DEFINE d == Handle(c)
  <2>7. Handles(c, d) /\ Become(q, d)  BY <1>6, <2>3, <2>4, HandleStays
  <2>8. \A x \in Tokens : x \in Toks(c) => x \in Toks(r)  BY <2>4 DEF Toks
  <2> HIDE DEF d
  <2>9. QED  BY <1>1, <1>2, <1>4, <2>4, <2>5, <2>6, <2>7, <2>8, HandlesKeeps
<1>7. QED  BY <1>5, <1>6 DEF GetRemembered
-----------------------------------------------------------------------------
(* PostUserLogin logs in, goes on to the remember token, or refuses.       *)
LEMMA LoginKeeps ==
    ASSUME TypeOK, TypeOK', EffectInv, NEW q \in Slots, PostUserLogin(q)
    PROVE  EffectInv'
<1> DEFINE r == req[q]
           ins == [r EXCEPT !.pc = "insert"]
           v == [r.values EXCEPT !.user = r.user]
           c == [r EXCEPT !.values = v, !.modified = TRUE]
           c0 == [r EXCEPT !.values.user = r.user, !.modified = TRUE]
<1>1. r.pc = "auth" /\ UNCHANGED <<rows, store, jar, known>>  BY DEF PostUserLogin, history
<1>2. PICK b : b = r.browser  OBVIOUS
<1>3. b \in Browsers /\ r \in Request /\ Shape(r)  BY <1>1, <1>2, BrowserOf
<1>4. r.op = "login" /\ r.user \in Users  BY <1>1, <1>3 DEF Shape
<1>5. ~known[b].out /\ known[b].as = None /\ known[b].rem = None
  BY <1>1, <1>2, <1>4, CountsOn
<1>6. /\ \A x \in Tokens : x \in Toks(r) => x \in Toks(r) /\ b \in TokenHolders[x]
      /\ \A h \in Hashes : Marks(r, h) => b \in HashHolders[h]
  BY <1>2, <1>3, Holds
<1>7. CASE Become(q, ins) /\ r.remember
  <2>1. /\ Stays(r, ins) /\ ins.pc = "insert" /\ ins.browser = r.browser /\ ins.op = r.op
        /\ ins.user = r.user /\ ins.remember = r.remember
    BY <1>1, <1>3 DEF Request, Stays, Same
  <2> HIDE DEF ins
  <2>2. Shape(ins)
    BY <1>2, <1>3, <1>4, <1>7, <2>1, NoneAssumption DEF Shape, Done, NoneAssumption
  <2>3. QED  BY <1>1, <1>2, <1>5, <1>6, <1>7, <2>1, <2>2, QuietKeeps
<1>8. CASE Become(q, Finish(c0)) /\ ~r.remember
  <2> DEFINE d == Finish(c)
  <2>1. v \in Values /\ v.user = r.user /\ v.rt = r.values.rt
    BY <1>3, <1>4 DEF Request, Values
  <2>2. c0 = c  BY <1>3 DEF Request
  <2> HIDE DEF v
  <2>3. /\ c \in Request /\ c.modified = TRUE /\ c.values = v
        /\ c.browser = b /\ c.op = r.op /\ c.user = r.user /\ c.remember = r.remember
        /\ c.sess = r.sess /\ c.token = r.token /\ c.setSess = r.setSess
        /\ c.setRem = r.setRem /\ c.rem = r.rem /\ c.alone = r.alone
    BY <1>2, <1>3, <2>1 DEF Request
  <2> HIDE DEF c, c0
  <2>4. Stays(c, d) /\ d.pc = "commit"  BY <2>3, FinishStays DEF Finishes
  <2>5. Become(q, d)  BY <1>8, <2>2
  <2> HIDE DEF d
  <2>6. /\ d.browser = b /\ d.op = "login" /\ d.user = r.user /\ ~d.remember
        /\ d.values.user = r.user
    BY <1>4, <1>8, <2>1, <2>3, <2>4 DEF Stays, Same
  <2>7. Shape(d)
    BY <1>3, <1>4, <2>4, <2>6, NoneAssumption DEF Shape, Done, LoginDone, NoneAssumption
  <2>8. /\ \A x \in Tokens : x \in Toks(c) => x \in Toks(r) /\ b \in TokenHolders[x]
        /\ \A h \in Hashes : Marks(c, h) => b \in HashHolders[h]
    BY <1>6, <2>1, <2>3 DEF Toks, Marks
  <2>9. QED  BY <1>1, <1>2, <1>5, <2>3, <2>4, <2>5, <2>6, <2>7, <2>8, QuietKeeps
<1>9. CASE Become(q, Refused(r))
  <2> DEFINE d == Refused(r)
  <2>1. Stays(r, d) /\ d.status = "fail" /\ d.pc \in {"commit", "respond"}  BY <1>3, FailStays
  <2> HIDE DEF d
  <2>2. Become(q, d)  BY <1>9 DEF d
  <2>3. QED  BY <1>1, <1>4, <2>1, <2>2, FailKeeps
<1>10. QED  BY <1>7, <1>8, <1>9 DEF PostUserLogin

(* InsertToken adds the row of a new hash that goes into the cookie and    *)
(* into the session.                                                       *)
LEMMA InsertKeeps ==
    ASSUME TypeOK, TypeOK', EffectInv, NEW q \in Slots, InsertToken(q)
    PROVE  EffectInv'
<1> DEFINE r == req[q]
<1>1. r.pc = "insert" /\ UNCHANGED <<store, jar, known>>  BY DEF InsertToken, history
<1>2. PICK b : b = r.browser  OBVIOUS
<1>3. b \in Browsers /\ r \in Request /\ Shape(r)  BY <1>1, <1>2, BrowserOf
<1>4. r.op = "login" /\ r.user \in Users /\ r.remember  BY <1>1, <1>3 DEF Shape
<1>5. ~known[b].out /\ known[b].as = None /\ known[b].rem = None
  BY <1>1, <1>2, <1>4, CountsOn
<1>6. CASE Become(q, Refused(r)) /\ rows' = rows
  <2> DEFINE d == Refused(r)
  <2>1. Stays(r, d) /\ d.status = "fail" /\ d.pc \in {"commit", "respond"}  BY <1>3, FailStays
  <2> HIDE DEF d
  <2>2. Become(q, d)  BY <1>6 DEF d
  <2>3. QED  BY <1>1, <1>4, <1>6, <2>1, <2>2, FailKeeps
<1>7. ASSUME NEW h \in Hashes, FreshHash(h), rows' = rows \cup {<<r.user, h>>},
             Become(q, Finish([r EXCEPT !.modified = TRUE, !.setRem = {<<r.user, h>>},
                                        !.values.user = r.user, !.values.rt = h]))
      PROVE  EffectInv'
  <2> DEFINE v == [r.values EXCEPT !.user = r.user, !.rt = h]
             s == {<<r.user, h>>}
             c == [r EXCEPT !.modified = TRUE, !.setRem = s, !.values = v]
             c0 == [r EXCEPT !.modified = TRUE, !.setRem = {<<r.user, h>>},
                             !.values.user = r.user, !.values.rt = h]
             d == Finish(c)
  <2>1. v \in Values /\ v.user = r.user /\ v.rt = h /\ s \in SUBSET Cookie
    <3>1. r.values \in Values  BY <1>3 DEF Request
    <3>2. v \in Values /\ v.user = r.user /\ v.rt = h  BY <1>4, <3>1 DEF Values
    <3>3. <<r.user, h>> \in Cookie  BY <1>4 DEF Cookie
    <3>4. QED  BY <3>2, <3>3
  <2>2. c0 = c  BY <1>3 DEF Request
  <2> HIDE DEF v, s
  <2>3. /\ c \in Request /\ c.modified = TRUE /\ c.values = v /\ c.setRem = s
        /\ c.browser = b /\ c.op = r.op /\ c.user = r.user /\ c.remember = r.remember
        /\ c.sess = r.sess /\ c.token = r.token /\ c.setSess = r.setSess
        /\ c.rem = r.rem /\ c.alone = r.alone
    BY <1>2, <1>3, <2>1 DEF Request
  <2>4. Become(q, Finish(c))  BY <1>7, <2>2 DEF c0
  <2> HIDE DEF c, c0
  <2>5. Stays(c, d) /\ d.pc = "commit"  BY <2>3, FinishStays DEF Finishes
  <2>6. Become(q, d)  BY <2>4
  <2> HIDE DEF d
  <2>7. /\ d.browser = b /\ d.op = "login" /\ d.user = r.user /\ d.remember
        /\ d.values.user = r.user /\ d.setRem = {<<r.user, h>>} /\ d.alone = r.alone
        /\ d.values.rt \in {h, None} /\ d.rem \in {r.rem, None}
    BY <1>4, <2>1, <2>3, <2>5 DEF Stays, Same, s
  <2>8. Shape(d)
    BY <1>3, <1>4, <2>5, <2>7, NoneAssumption DEF Shape, Done, LoginDone, NoneAssumption
  <2>9. \A t \in Tokens : t \in Toks(d) => t \in Toks(r) \/ FreshToken(t)
    <3>1. Toks(d) \subseteq Toks(r) \cup {None}  BY <2>3, <2>5 DEF Stays, Same, Toks
    <3>2. QED  BY <3>1, NoneAssumption DEF NoneAssumption
  <2>10. \A g \in Hashes : Marks(d, g) => b \in HashHolders[g] \/ FreshHash(g)
    <3>1. ASSUME NEW g \in Hashes, Marks(d, g), g # h PROVE Marks(r, g)
      <4>1. \A u \in Users : <<u, g>> # None /\ <<u, g>> # <<r.user, h>>
        BY <3>1, MarkerAssumption DEF MarkerAssumption
      <4>2. g # None  BY NoneAssumption DEF NoneAssumption
      <4>3. QED  BY <2>7, <3>1, <4>1, <4>2 DEF Marks
    <3>2. QED  BY <1>2, <1>3, <1>7, <3>1, Holds
  <2>11. \A g \in Hashes : \/ \A u \in Users : <<u, g>> \in rows' <=> <<u, g>> \in rows
                           \/ Marks(r, g) \/ FreshHash(g)
    <3>1. \A g \in Hashes, u \in Users : g # h => <<u, g>> # <<r.user, h>>  OBVIOUS
    <3>2. QED  BY <1>7, <3>1
  <2>12. req'[q] = d  BY <2>6 DEF Become, TypeOK
  <2>13. Tells(req[q])'
    BY <1>7, <2>5, <2>7, <2>12 DEF Tells
  <2>14. QED
    BY <1>1, <1>2, <1>5, <2>6, <2>7, <2>8, <2>9, <2>10, <2>11, <2>13, RequestKeeps
<1>8. QED  BY <1>6, <1>7 DEF InsertToken

(* Logout deletes the row of its own remember token.                       *)
LEMMA DeleteRowKeeps ==
    ASSUME TypeOK, TypeOK', EffectInv, NEW q \in Slots, DeleteRow(q)
    PROVE  EffectInv'
<1> DEFINE r == req[q]
           d == [r EXCEPT !.pc = "leave"]
<1>1. r.pc = "delrow" /\ Become(q, d) /\ UNCHANGED <<store, jar, known>>
  BY DEF DeleteRow, history
<1>2. PICK b : b = r.browser  OBVIOUS
<1>3. b \in Browsers /\ r \in Request /\ Shape(r)  BY <1>1, <1>2, BrowserOf
<1>4. r.op = "logout"  BY <1>1, <1>3 DEF Shape
<1>5. known[b].as = None /\ known[b].rem = None  BY <1>1, <1>2, <1>4, CountsOn
<1>6. rows' = {row \in rows : row[2] # r.values.rt} \/ rows' = rows  BY DEF DeleteRow
<1>7. /\ Stays(r, d) /\ d.pc = "leave" /\ d.browser = b /\ d.op = r.op /\ d.user = r.user
      /\ d.alone = r.alone /\ d.values = r.values /\ d.rem = r.rem /\ d.setRem = r.setRem
      /\ d.sess = r.sess /\ d.token = r.token /\ d.setSess = r.setSess
  BY <1>2, <1>3 DEF Request, Stays, Same
<1>8. req'[q] = d  BY <1>1 DEF Become, TypeOK
<1> HIDE DEF d
<1>9. Shape(d)
  BY <1>3, <1>4, <1>7, NoneAssumption DEF Shape, Done, NoneAssumption
<1>10. \A t \in Tokens : t \in Toks(d) => t \in Toks(r)  BY <1>7 DEF Toks
<1>11. \A h \in Hashes : Marks(d, h) => b \in HashHolders[h]
  <2>1. \A h \in Hashes : Marks(d, h) => Marks(r, h)  BY <1>7 DEF Marks
  <2>2. QED  BY <1>2, <1>3, <2>1, Holds
<1>12. \A h \in Hashes : \/ \A u \in Users : <<u, h>> \in rows' <=> <<u, h>> \in rows
                         \/ Marks(r, h)
  BY <1>6 DEF Marks
<1>13. Tells(req[q])'  BY <1>7, <1>8 DEF Tells
<1>14. known[b].out => rows' \subseteq rows /\ Harmless(req[q])'
  <2>1. rows' \subseteq rows  BY <1>6
  <2>2. known[b].out => Harmless(r)  BY <1>1, <1>2, CountsOn
  <2>3. QED  BY <1>7, <1>8, <2>1, <2>2 DEF Harmless
<1>15. QED
  BY <1>1, <1>2, <1>5, <1>7, <1>9, <1>10, <1>11, <1>12, <1>13, <1>14, RequestKeeps
-----------------------------------------------------------------------------
(* What leaves a session, by Logout or by deleteRememberCookie: c is the   *)
(* copy under its old or its new token.                                    *)
LEMMA LeftKept ==
    ASSUME TypeOK, TypeOK', EffectInv, NEW q \in Slots, req[q].pc = "leave",
           NEW b, b = req[q].browser, UNCHANGED <<rows, jar, known>>,
           \A t \in Tokens : store'[t] = store[t] \/ (t = req[q].token /\ store'[t] = None),
           NEW c \in Request, NEW d, Become(q, d), Leaves(c, d),
           c.token = req[q].token \/ FreshToken(c.token),
           c.browser = b, c.op = req[q].op, c.user = req[q].user, c.alone = req[q].alone,
           c.sess = req[q].sess, c.setSess = req[q].setSess, c.rem = req[q].rem,
           c.forced = req[q].forced
    PROVE  EffectInv'
<1> DEFINE r == req[q]
<1>1. b \in Browsers /\ r \in Request /\ Shape(r)  BY BrowserOf
<1>2. known[b].as = None /\ known[b].rem = None  BY CountsOn DEF KeepsLogin, KeepsCookie
<1>3. /\ d.browser = b /\ d.op = r.op /\ d.user = r.user /\ d.alone = r.alone
      /\ d.values.user = None /\ d.values.rt = None /\ d.setRem = {None}
      /\ d.rem \in {r.rem, None}
  BY DEF Leaves, Same
<1>4. d.pc \in {"auth", "commit", "delrow", "leave"}
  BY DEF Leaves
<1>5. /\ d.pc = "auth" => d.op = "login"
      /\ d.pc \in {"delrow", "leave"} => d.op = "logout"
      /\ d.op = "login" => d.pc = "auth"
  BY <1>1 DEF Leaves, Same, Shape
<1>6. Shape(d)
  BY <1>1, <1>3, <1>4, <1>5, NoneAssumption DEF Shape, Done, LogoutDone, NoneAssumption
<1>7. \A t \in Tokens : t \in Toks(d) => t \in Toks(r) \/ FreshToken(t)
  <2>1. Toks(d) \subseteq {c.sess, c.token, c.setSess, None}  BY DEF Leaves, Same, Toks
  <2>2. QED  BY <2>1, NoneAssumption DEF NoneAssumption, Toks
<1>8. \A h \in Hashes : Marks(d, h) => b \in HashHolders[h]
  <2>1. \A h \in Hashes : h # None /\ \A u \in Users : <<u, h>> # None
    BY NoneAssumption, MarkerAssumption DEF NoneAssumption, MarkerAssumption
  <2>2. \A h \in Hashes : Marks(d, h) => Marks(r, h)  BY <1>3, <2>1 DEF Marks
  <2>3. QED  BY <1>1, <2>2, Holds
<1>9. req'[q] = d  BY DEF Become, TypeOK
<1>10. Tells(req[q])'  BY <1>4, <1>5, <1>9 DEF Tells
<1>11. known[b].out => /\ rows' \subseteq rows
                       /\ \A t \in Tokens : store'[t] = store[t] \/ t \in Bare'
                       /\ Harmless(req[q])'
  <2>1. None \notin rows  BY MarkerAssumption DEF MarkerAssumption, TypeOK
  <2>2. known[b].out => Harmless(r)  BY CountsOn
  <2>3. QED  BY <1>3, <1>4, <1>9, <2>1, <2>2 DEF Harmless, Bare
<1>12. /\ \A t \in Tokens : store'[t] = store[t] \/ t \in Toks(r) \/ FreshToken(t)
       /\ \A t \in Tokens : store'[t] = store[t] \/ store'[t] = None
  BY DEF Toks
<1>13. QED
  BY <1>2, <1>3, <1>6, <1>7, <1>8, <1>10, <1>11, <1>12, RequestKeeps

(* One of the deletes of the session succeeds.                             *)
LEMMA LeaveKeeps ==
    ASSUME TypeOK, TypeOK', EffectInv, NEW q \in Slots, Leave(q)
    PROVE  EffectInv'
<1> DEFINE r == req[q]
<1>1. r.pc = "leave" /\ UNCHANGED <<rows, jar, known>>  BY DEF Leave
<1>2. PICK b : b = r.browser  OBVIOUS
<1>3. r \in Request  BY DEF TypeOK
<1>4. r.values \in Values /\ r.token \in Tokens \cup {None}  BY <1>3 DEF Request
<1>5. r.values.note \in BOOLEAN  BY <1>4 DEF Values
<1>6. PICK t \in Tokens, n \in BOOLEAN :
         /\ FreshToken(t)
         /\ Become(q, Left([r EXCEPT !.token = t, !.expired = FALSE, !.values.note = n]))
  BY <1>5 DEF Leave
<1> DEFINE v == [r.values EXCEPT !.note = n]
           c == [r EXCEPT !.token = t, !.expired = FALSE, !.values = v]
           c0 == [r EXCEPT !.token = t, !.expired = FALSE, !.values.note = n]
           d == Left(c)
<1>7. c0 = c  BY <1>3 DEF Request
<1>8. v \in Values  BY <1>4 DEF Values
<1> HIDE DEF v
<1>9. /\ c \in Request /\ c.token = t /\ c.browser = r.browser /\ c.op = r.op
      /\ c.user = r.user /\ c.alone = r.alone /\ c.sess = r.sess
      /\ c.setSess = r.setSess /\ c.rem = r.rem /\ c.forced = r.forced
  BY <1>3, <1>8 DEF Request
<1>10. Become(q, d)  BY <1>6, <1>7
<1> HIDE DEF c, c0
<1>11. Leaves(c, d)  BY <1>9, LeftLeaves
<1>12. \A x \in Tokens : store'[x] = store[x] \/ (x = r.token /\ store'[x] = None)
  <2>1. store' = IF r.token = None THEN store ELSE [store EXCEPT ![r.token] = None]
    BY DEF Leave
  <2>2. QED  BY <2>1 DEF TypeOK
<1> HIDE DEF d
<1>13. QED  BY <1>1, <1>2, <1>6, <1>9, <1>10, <1>11, <1>12, LeftKept

(* All of them fail.                                                       *)
LEMMA LeaveFailsKeeps ==
    ASSUME TypeOK, TypeOK', EffectInv, NEW q \in Slots, LeaveFails(q)
    PROVE  EffectInv'
<1> DEFINE d == Left(req[q])
<1>1. /\ req[q].pc = "leave" /\ UNCHANGED <<rows, store, jar, known>>
      /\ Become(q, d) /\ req[q] \in Request
  BY DEF LeaveFails, history, TypeOK
<1>2. Leaves(req[q], d)  BY <1>1, LeftLeaves
<1> HIDE DEF d
<1>3. QED  BY <1>1, <1>2, LeftKept

(* The copy is committed under its token or a new one.                     *)
LEMMA CommitKeeps ==
    ASSUME TypeOK, TypeOK', EffectInv, NEW q \in Slots, Commit(q)
    PROVE  EffectInv'
<1> DEFINE r == req[q]
<1>1. r.pc = "commit" /\ UNCHANGED <<rows, jar, known>>  BY DEF Commit
<1>2. PICK b : b = r.browser  OBVIOUS
<1>3. b \in Browsers /\ r \in Request /\ Shape(r) /\ Tells(r)  BY <1>1, <1>2, BrowserOf
<1>4. r.token \in Tokens \cup {None} /\ r.values \in Values  BY <1>3 DEF Request
<1>5. PICK t \in Tokens :
         /\ r.token = None => FreshToken(t)
         /\ r.token # None => t = r.token
         /\ Become(q, Answer([r EXCEPT !.setSess = t]))
         /\ store' = [store EXCEPT ![t] = IF r.expired THEN None ELSE r.values]
  BY <1>4 DEF Commit
<1> DEFINE c == [r EXCEPT !.setSess = t]
           d == Answer(c)
<1>6. /\ c \in Request /\ c.setSess = t /\ c.browser = r.browser /\ c.op = r.op
      /\ c.user = r.user /\ c.alone = r.alone /\ c.remember = r.remember /\ c.sess = r.sess
      /\ c.token = r.token /\ c.rem = r.rem /\ c.setRem = r.setRem /\ c.values = r.values
      /\ c.expired = r.expired /\ c.status = r.status
  BY <1>3, <1>5 DEF Request
<1> HIDE DEF c
<1>7. Stays(c, d) /\ d.pc = "respond" /\ d.status = r.status  BY <1>6, AnswerStays
<1>8. Become(q, d)  BY <1>5 DEF c
<1> HIDE DEF d
<1>9. /\ d.browser = b /\ d.op = r.op /\ d.user = r.user /\ d.alone = r.alone
      /\ d.remember = r.remember /\ d.expired = r.expired /\ d.setSess = t
      /\ d.setRem = r.setRem /\ d.rem \in {r.rem, None}
      /\ d.values.user \in {r.values.user, None} /\ d.values.rt \in {r.values.rt, None}
  BY <1>2, <1>6, <1>7 DEF Stays, Same
<1>10. /\ store'[t] = IF r.expired THEN None ELSE r.values
       /\ \A x \in Tokens : x # t => store'[x] = store[x]
       /\ r.values # None
  BY <1>4, <1>5, MarkerAssumption DEF MarkerAssumption, TypeOK
<1>11. Shape(d)
  <2>1. d.browser # None  BY <1>3, <1>9, NoneAssumption DEF NoneAssumption
  <2>2. QED  BY <1>1, <1>3, <1>7, <1>9, <2>1 DEF Shape, Done, LoginDone, LogoutDone
<1>12. t \in Toks(r) \/ FreshToken(t)  BY <1>5 DEF Toks
<1>13. \A x \in Tokens : x \in Toks(d) => x \in Toks(r) \/ FreshToken(x)
  <2>1. Toks(d) \subseteq Toks(r) \cup {t, None}  BY <1>6, <1>7, <1>9 DEF Stays, Same, Toks
  <2>2. QED  BY <1>12, <2>1, NoneAssumption DEF NoneAssumption
<1>14. \A h \in Hashes : Marks(d, h) => b \in HashHolders[h]
  <2>1. \A h \in Hashes : h # None /\ \A u \in Users : <<u, h>> # None
    BY NoneAssumption, MarkerAssumption DEF NoneAssumption, MarkerAssumption
  <2>2. \A h \in Hashes : Marks(d, h) => Marks(r, h)  BY <1>9, <2>1 DEF Marks
  <2>3. QED  BY <1>2, <1>3, <2>2, Holds
<1>15. \A x \in Tokens : \/ store'[x] = store[x] \/ store'[x] = None
                         \/ store'[x].rt = None \/ Marks(r, store'[x].rt)
  BY <1>10 DEF Marks
<1>16. req'[q] = d  BY <1>8 DEF Become, TypeOK
<1>17. Tells(req[q])'
  <2>1. ASSUME r.alone, r.status = "ok"
        PROVE  /\ r.op = "logout" => t \in Bare'
               /\ r.op = "login" /\ ~r.expired => store'[t] # None /\ store'[t].user = r.user
               /\ r.op = "login" /\ r.remember => r.setRem \subseteq rows'
    <3>1. r.op = "logout" => r.values.user = None
      BY <1>1, <1>3, <2>1 DEF Shape, Done, LogoutDone
    <3>2. r.op = "login" => r.values.user = r.user
      BY <1>1, <1>3, <2>1 DEF Shape, Done, LoginDone
    <3>3. r.op = "login" /\ r.remember => r.setRem \subseteq rows'
      BY <1>1, <1>3, <2>1 DEF Tells
    <3>4. QED  BY <1>10, <3>1, <3>2, <3>3 DEF Bare
  <2>2. QED  BY <1>7, <1>9, <1>16, <2>1 DEF Tells
<1>18. known[b].out => /\ rows' \subseteq rows
                       /\ \A x \in Tokens : store'[x] = store[x] \/ x \in Bare'
                       /\ Harmless(req[q])'
  <2>1. ASSUME known[b].out PROVE Harmless(r)  BY <1>1, <1>2, <2>1, CountsOn
  <2>2. None \notin rows  BY MarkerAssumption DEF MarkerAssumption, TypeOK
  <2>3. ASSUME known[b].out, NEW x \in Tokens PROVE store'[x] = store[x] \/ x \in Bare'
    BY <1>10, <2>1, <2>3 DEF Bare, Harmless
  <2>4. known[b].out => Harmless(req[q])'
    BY <1>1, <1>7, <1>9, <1>16, <2>1, <2>2 DEF Harmless
  <2>5. QED  BY <1>1, <2>3, <2>4
<1>19. known[b].as # None =>
          /\ store'[jar[b].sess] # None /\ store'[jar[b].sess].user = known[b].as
          /\ KeepsLogin(d, jar[b].sess, known[b].as)
  <2>1. ASSUME known[b].as # None
        PROVE  /\ KeepsLogin(r, jar[b].sess, known[b].as) /\ jar[b].sess \in Tokens
    BY <1>1, <1>2, <2>1, CountsOn
  <2>2. known[b].as # None => t = jar[b].sess /\ ~r.expired /\ r.values.user = known[b].as
    BY <1>1, <1>5, <2>1, NoneAssumption DEF KeepsLogin, NoneAssumption
  <2>3. QED  BY <1>7, <1>9, <1>10, <2>1, <2>2 DEF KeepsLogin
<1>20. known[b].rem # None => jar[b].rem \in rows' /\ KeepsCookie(d, jar[b].rem)
  BY <1>1, <1>2, <1>7, <1>9, CountsOn DEF KeepsCookie
<1>21. \A x \in Tokens : store'[x] = store[x] \/ x \in Toks(r) \/ FreshToken(x)
  BY <1>10, <1>12
<1>22. QED
  BY <1>1, <1>2, <1>8, <1>9, <1>11, <1>13, <1>14, <1>15, <1>17, <1>18, <1>19, <1>20, <1>21,
     RequestKeeps
-----------------------------------------------------------------------------
(* Steps of a browser.                                                     *)

(* A browser that takes up nothing, and leaves sessions and table alone.   *)
LEMMA OwnAffairs ==
    ASSUME TypeOK, TypeOK', EffectInv, NEW b \in Browsers, UNCHANGED <<store, rows>>,
           \A a \in Browsers \ {b} : jar'[a] = jar[a] /\ known'[a] = known[a],
           \A p \in Slots :
              req'[p] = req[p] \/ {req[p].browser, req'[p].browser} \subseteq {b, None},
           \A t \in Tokens : jar'[b].sess = t => b \in TokenHolders[t],
           \A h \in Hashes, u \in Users : jar'[b].rem = <<u, h>> => b \in HashHolders[h],
           \A p \in Slots : req'[p].browser = b =>
              /\ \A t \in Tokens : t \in Toks(req'[p]) => b \in TokenHolders[t]
              /\ \A h \in Hashes : Marks(req'[p], h) => b \in HashHolders[h],
           AloneInv',
           \A p \in Slots : req'[p] # req[p] => Shape(req'[p]) /\ Tells(req[p])',
           Out(b)', As(b)', Rem(b)'
    PROVE  EffectInv'
<1>1. Only(b)  BY DEF Only
<1>2. ASSUME NEW t \in Tokens, b \in TokenHolders'[t] PROVE b \in TokenHolders[t]
  BY <1>2 DEF TokenHolders, Toks
<1>3. ASSUME NEW h \in Hashes, b \in HashHolders'[h] PROVE b \in HashHolders[h]
  <2>1. \/ \E u \in Users : jar'[b].rem = <<u, h>>
        \/ \E p \in Slots : req'[p].browser = b /\ Marks(req'[p], h)
        \/ \E t \in Tokens : b \in TokenHolders'[t] /\ store[t] # None /\ store[t].rt = h
    BY <1>3 DEF HashHolders, Marks
  <2>2. CASE \E t \in Tokens : b \in TokenHolders'[t] /\ store[t] # None /\ store[t].rt = h
    BY <1>2, <2>2 DEF HashHolders
  <2>3. QED  BY <2>1, <2>2
<1>4. /\ \A t \in Tokens : b \in TokenHolders'[t] => TokenHolders[t] \subseteq {b}
      /\ \A h \in Hashes : b \in HashHolders'[h] => HashHolders[h] \subseteq {b}
  <2>1. Owned  BY DEF EffectInv
  <2>2. QED  BY <1>2, <1>3, <2>1, Mine
<1>5. ASSUME NEW p \in Slots PROVE Shape(req'[p]) /\ Tells(req[p])'
  <2>1. CASE req'[p] = req[p]
    <3>1. Shape(req[p]) /\ Tells(req[p])  BY DEF EffectInv
    <3>2. QED  BY <2>1, <3>1 DEF Tells, Bare
  <2>2. CASE req'[p] # req[p]  BY <2>2
  <2>3. QED  BY <2>1, <2>2
<1>6. QED  BY <1>1, <1>4, <1>5, BrowserStep

(* What a free slot is.                                                    *)
LEMMA FreeIs ==
    /\ FreeSlot.pc = "free" /\ FreeSlot.browser = None /\ FreeSlot.op = "visit"
    /\ Shape(FreeSlot)
BY DEF FreeSlot, Shape, Done

(* The response arrives.                                                   *)
LEMMA RespondKeeps ==
    ASSUME TypeOK, TypeOK', EffectInv, NEW q \in Slots, Respond(q)
    PROVE  EffectInv'
<1> DEFINE c == req[q]
           told == c.alone /\ c.status = "ok"
<1>1. c.pc = "respond" /\ UNCHANGED <<store, rows>> /\ req' = [req EXCEPT ![q] = FreeSlot]
  BY DEF Respond
<1>2. PICK b : b = c.browser  OBVIOUS
<1>3. b \in Browsers /\ c \in Request /\ Shape(c) /\ Tells(c)  BY <1>1, <1>2, BrowserOf
<1>4. req'[q] = FreeSlot /\ \A p \in Slots : p # q => req'[p] = req[p]
  BY <1>1 DEF TypeOK
<1>5. /\ jar'[b].sess = IF c.setSess = None THEN jar[b].sess ELSE c.setSess
      /\ c.setRem = {} => jar'[b].rem = jar[b].rem
      /\ c.setRem # {} => jar'[b].rem \in c.setRem
      /\ \A a \in Browsers \ {b} : jar'[a] = jar[a]
  <2> DEFINE js == IF c.setSess = None THEN jar[b].sess ELSE c.setSess
             jr == IF c.setRem = {} THEN jar[b].rem ELSE CHOOSE k \in c.setRem : TRUE
  <2>1. jar' = [jar EXCEPT ![b].sess = js, ![b].rem = jr]  BY <1>2 DEF Respond
  <2>2. c.setRem # {} => (CHOOSE k \in c.setRem : TRUE) \in c.setRem  BY Zenon
  <2>3. (c.setRem = {} => jr = jar[b].rem) /\ (c.setRem # {} => jr \in c.setRem)  BY <2>2
  <2> HIDE DEF jr
  <2>4. QED  BY <1>3, <2>1, <2>3 DEF TypeOK
<1>6. /\ known'[b].out = (known[b].out \/ (told /\ c.op = "logout"))
      /\ known'[b].as = IF told /\ c.op = "login" /\ ~c.expired THEN c.user ELSE known[b].as
      /\ known'[b].rem = IF told /\ c.op = "login" /\ c.remember THEN c.user ELSE known[b].rem
      /\ \A a \in Browsers \ {b} : known'[a] = known[a]
  <2> DEFINE ka == IF told /\ c.op = "login" /\ ~c.expired THEN c.user ELSE known[b].as
             kr == IF told /\ c.op = "login" /\ c.remember THEN c.user ELSE known[b].rem
             ko == known[b].out \/ (told /\ c.op = "logout")
  <2>1. known' = [known EXCEPT ![b] = [out |-> ko, as |-> ka, rem |-> kr]]
    BY <1>2 DEF Respond
  <2> HIDE DEF ka, kr, ko
  <2>2. known'[b].out = ko /\ known'[b].as = ka /\ known'[b].rem = kr
        /\ \A a \in Browsers \ {b} : known'[a] = known[a]
    BY <1>3, <2>1 DEF TypeOK
  <2>3. QED  BY <2>2 DEF ka, kr, ko
<1>7. \A t \in Tokens : jar'[b].sess = t => b \in TokenHolders[t]
  <2>1. \A t \in Tokens : c.setSess = t => b \in TokenHolders[t]  BY <1>2, <1>3, Holds DEF Toks
  <2>2. QED  BY <1>3, <1>5, <2>1 DEF TokenHolders
<1>8. \A h \in Hashes, u \in Users : jar'[b].rem = <<u, h>> => b \in HashHolders[h]
  <2>1. \A h \in Hashes, u \in Users : <<u, h>> \in c.setRem => b \in HashHolders[h]
    BY <1>2, <1>3, Holds DEF Marks
  <2>2. QED  BY <1>3, <1>5, <2>1 DEF HashHolders
<1>9. None \notin Browsers  BY NoneAssumption DEF NoneAssumption
<1>10. \A p \in Slots : req'[p].browser = b => p # q /\ req'[p] = req[p]
  BY <1>3, <1>4, <1>9, FreeIs
<1>11. \A p \in Slots : req'[p].browser = b =>
          /\ \A t \in Tokens : t \in Toks(req'[p]) => b \in TokenHolders[t]
          /\ \A h \in Hashes : Marks(req'[p], h) => b \in HashHolders[h]
  BY <1>3, <1>10, Holds
<1>12. AloneInv'
  BY <1>4, FreeIs DEF EffectInv, AloneInv
<1>13. \A p \in Slots : req'[p] # req[p] => Shape(req'[p]) /\ Tells(req[p])'
  BY <1>4, FreeIs DEF Tells
<1>14. ASSUME c.alone PROVE \A p \in Slots : req'[p].browser # b
  BY <1>2, <1>3, <1>9, <1>10, <1>14 DEF EffectInv, AloneInv
<1>15. Out(b) /\ As(b) /\ Rem(b)  BY <1>3 DEF EffectInv
<1>16. Out(b)'
  <2>1. CASE told /\ c.op = "logout"
    <3>1. c.setRem = {None} /\ c.setSess \in Tokens /\ c.setSess \in Bare
      BY <1>1, <1>3, <2>1 DEF Shape, Done, LogoutDone, Tells
    <3>2. jar'[b].rem \notin rows
      BY <1>5, <3>1, MarkerAssumption DEF MarkerAssumption, TypeOK
    <3>3. jar'[b].sess = c.setSess  BY <1>5, <3>1, NoneAssumption DEF NoneAssumption
    <3>4. \A p \in Slots : req'[p].browser # b  BY <1>14, <2>1
    <3>5. \A t \in Tokens : b \in TokenHolders'[t] => t = c.setSess
      BY <3>3, <3>4 DEF TokenHolders
    <3>6. QED  BY <1>1, <3>1, <3>2, <3>4, <3>5 DEF Out, Bare
  <2>2. CASE ~(told /\ c.op = "logout")
    <3>1. SUFFICES ASSUME known[b].out
                   PROVE  /\ jar'[b].rem \notin rows
                          /\ \A t \in Tokens : b \in TokenHolders'[t] => t \in Bare
                          /\ \A p \in Slots : req'[p].browser = b => Harmless(req[p])'
      BY <1>1, <1>6, <2>2 DEF Out, Bare
    <3>2. Harmless(c)  BY <1>1, <1>2, <3>1, CountsOn
    <3>3. jar'[b].rem \notin rows  BY <1>5, <1>15, <3>1, <3>2 DEF Out, Harmless
    <3>4. \A t \in Tokens : b \in TokenHolders'[t] => b \in TokenHolders[t]
      BY <1>7, <1>11 DEF TokenHolders, Toks
    <3>5. ASSUME NEW p \in Slots, req'[p].browser = b PROVE Harmless(req[p])'
      <4>1. req'[p] = req[p]  BY <1>10, <3>5
      <4>2. Harmless(req[p])  BY <1>15, <3>1, <3>5, <4>1 DEF Out
      <4>3. QED  BY <1>1, <4>1, <4>2 DEF Harmless
    <3>6. QED  BY <1>15, <3>1, <3>3, <3>4, <3>5 DEF Out
  <2>3. QED  BY <2>1, <2>2
<1>17. As(b)'
  <2>1. CASE told /\ c.op = "login" /\ ~c.expired
    <3>1. /\ c.setSess \in Tokens /\ store[c.setSess] # None /\ store[c.setSess].user = c.user
      BY <1>1, <1>3, <2>1 DEF Shape, Done, Tells
    <3>2. jar'[b].sess = c.setSess  BY <1>5, <3>1, NoneAssumption DEF NoneAssumption
    <3>3. \A p \in Slots : req'[p].browser # b  BY <1>14, <2>1
    <3>4. QED  BY <1>1, <1>6, <2>1, <3>1, <3>2, <3>3 DEF As
  <2>2. CASE ~(told /\ c.op = "login" /\ ~c.expired)
    <3>1. ASSUME known[b].as # None PROVE jar'[b].sess = jar[b].sess
      <4>1. KeepsLogin(c, jar[b].sess, known[b].as)  BY <1>1, <1>2, <3>1, CountsOn
      <4>2. QED  BY <1>5, <4>1 DEF KeepsLogin
    <3>2. known'[b].as = known[b].as  BY <1>6, <2>2
    <3>3. QED  BY <1>1, <1>10, <1>15, <3>1, <3>2 DEF As, KeepsLogin
  <2>3. QED  BY <2>1, <2>2
<1>18. Rem(b)'
  <2>1. CASE told /\ c.op = "login" /\ c.remember
    <3>1. PICK h \in Hashes : c.setRem = {<<c.user, h>>}
      BY <1>1, <1>3, <2>1 DEF Shape, Done, LoginDone
    <3>2. c.setRem \subseteq rows  BY <1>1, <1>3, <2>1 DEF Tells
    <3>3. jar'[b].rem = <<c.user, h>> /\ <<c.user, h>> \in rows  BY <1>5, <3>1, <3>2
    <3>4. \A p \in Slots : req'[p].browser # b  BY <1>14, <2>1
    <3>5. QED  BY <1>1, <1>6, <2>1, <3>3, <3>4 DEF Rem
  <2>2. CASE ~(told /\ c.op = "login" /\ c.remember)
    <3>1. ASSUME known[b].rem # None PROVE jar'[b].rem = jar[b].rem
      <4>1. KeepsCookie(c, jar[b].rem)  BY <1>1, <1>2, <3>1, CountsOn
      <4>2. QED  BY <1>5, <4>1 DEF KeepsCookie
    <3>2. known'[b].rem = known[b].rem  BY <1>6, <2>2
    <3>3. QED  BY <1>1, <1>10, <1>15, <3>1, <3>2 DEF Rem, KeepsCookie
  <2>3. QED  BY <2>1, <2>2
<1>19. \A p \in Slots :
          req'[p] = req[p] \/ {req[p].browser, req'[p].browser} \subseteq {b, None}
  BY <1>2, <1>4, FreeIs
<1>20. QED
  BY <1>1, <1>3, <1>5, <1>6, <1>7, <1>8, <1>11, <1>12, <1>13, <1>16, <1>17, <1>18, <1>19,
     OwnAffairs
(* The response is lost, and the browser counts on nothing any more.       *)
LEMMA LoseKeeps ==
    ASSUME TypeOK, TypeOK', EffectInv, NEW q \in Slots, LoseResponse(q)
    PROVE  EffectInv'
<1>1. /\ req[q].pc = "respond" /\ UNCHANGED <<store, rows, jar>>
      /\ req' = [req EXCEPT ![q] = FreeSlot]
  BY DEF LoseResponse
<1>2. PICK b : b = req[q].browser  OBVIOUS
<1>3. b \in Browsers  BY <1>1, <1>2, BrowserOf
<1>4. req'[q] = FreeSlot /\ \A p \in Slots : p # q => req'[p] = req[p]
  BY <1>1 DEF TypeOK
<1>5. known'[b] = NotTold /\ \A a \in Browsers \ {b} : known'[a] = known[a]
  BY <1>2, <1>3 DEF LoseResponse, TypeOK
<1>6. Out(b)' /\ As(b)' /\ Rem(b)'  BY <1>5 DEF Out, As, Rem, NotTold
<1>7. None \notin Browsers  BY NoneAssumption DEF NoneAssumption
<1>8. \A p \in Slots : req'[p].browser = b => req'[p] = req[p]
  BY <1>3, <1>4, <1>7, FreeIs
<1>9. \A p \in Slots : req'[p].browser = b =>
         /\ \A t \in Tokens : t \in Toks(req'[p]) => b \in TokenHolders[t]
         /\ \A h \in Hashes : Marks(req'[p], h) => b \in HashHolders[h]
  BY <1>3, <1>8, Holds
<1>10. AloneInv'  BY <1>4, FreeIs DEF EffectInv, AloneInv
<1>11. \A p \in Slots : req'[p] # req[p] => Shape(req'[p]) /\ Tells(req[p])'
  BY <1>4, FreeIs DEF Tells
<1>12. /\ \A t \in Tokens : jar'[b].sess = t => b \in TokenHolders[t]
       /\ \A h \in Hashes, u \in Users : jar'[b].rem = <<u, h>> => b \in HashHolders[h]
  BY <1>1, <1>3 DEF TokenHolders, HashHolders
<1>13. \A p \in Slots :
          req'[p] = req[p] \/ {req[p].browser, req'[p].browser} \subseteq {b, None}
  BY <1>2, <1>4, FreeIs
<1>14. QED
  BY <1>1, <1>3, <1>5, <1>6, <1>9, <1>10, <1>11, <1>12, <1>13, OwnAffairs

(* A browser is closed; none of its requests is there.                     *)
LEMMA CloseKeeps ==
    ASSUME TypeOK, TypeOK', EffectInv, NEW b \in Browsers, CloseBrowser(b)
    PROVE  EffectInv'
<1>1. /\ UNCHANGED <<store, rows, req>> /\ jar' = [jar EXCEPT ![b].sess = None]
      /\ known' = [known EXCEPT ![b].as = None]
  BY DEF CloseBrowser
<1>2. /\ jar'[b].sess = None /\ jar'[b].rem = jar[b].rem
      /\ \A a \in Browsers \ {b} : jar'[a] = jar[a] /\ known'[a] = known[a]
      /\ known'[b].out = known[b].out /\ known'[b].as = None /\ known'[b].rem = known[b].rem
  BY <1>1 DEF TypeOK, Told
<1>3. Out(b) /\ As(b) /\ Rem(b)  BY DEF EffectInv
<1>4. /\ \A t \in Tokens : jar'[b].sess = t => b \in TokenHolders[t]
      /\ \A h \in Hashes, u \in Users : jar'[b].rem = <<u, h>> => b \in HashHolders[h]
  BY <1>2, NoneAssumption DEF HashHolders, NoneAssumption
<1>5. \A p \in Slots : req'[p].browser = b =>
         /\ \A t \in Tokens : t \in Toks(req'[p]) => b \in TokenHolders[t]
         /\ \A h \in Hashes : Marks(req'[p], h) => b \in HashHolders[h]
  BY <1>1, Holds
<1>6. Out(b)'
  <2>1. \A t \in Tokens : b \in TokenHolders'[t] => b \in TokenHolders[t]
    BY <1>4, <1>5 DEF TokenHolders, Toks
  <2>2. SUFFICES ASSUME known[b].out
                 PROVE  /\ jar'[b].rem \notin rows
                        /\ \A t \in Tokens : b \in TokenHolders'[t] => t \in Bare
                        /\ \A p \in Slots : req[p].browser = b => Harmless(req[p])
    BY <1>1, <1>2 DEF Out, Bare, Harmless
  <2>3. QED  BY <1>2, <1>3, <2>1, <2>2 DEF Out
<1>7. As(b)'  BY <1>2 DEF As
<1>8. Rem(b)'  BY <1>1, <1>2, <1>3 DEF Rem
<1>9. AloneInv'  BY <1>1 DEF EffectInv, AloneInv
<1>10. QED  BY <1>1, <1>2, <1>4, <1>5, <1>6, <1>7, <1>8, <1>9, OwnAffairs

(* A browser sends a request, with its cookies.                            *)
LEMMA SendKeeps ==
    ASSUME TypeOK, TypeOK', EffectInv, NEW q \in Slots, Send(q)
    PROVE  EffectInv'
<1>1. PICK b \in Browsers, op \in Op, u \in Users \cup {None}, rm \in BOOLEAN :
         Start(q, b, op, u, rm) /\ (op = "login" => u \in Users)
  BY InputAssumption DEF Send, InputAssumption
<1> DEFINE others == {p \in Slots : Active(p) /\ req[p].browser = b}
           al == others = {}
           new == NewRequest(b, op, u, rm, jar[b].sess, jar[b].rem, al)
<1>2. UNCHANGED <<store, rows, jar>> /\ req[q].pc = "free"  BY <1>1 DEF Start, Active
<1>3. req' = [p \in Slots |-> IF p = q THEN new
                              ELSE IF p \in others THEN [req[p] EXCEPT !.alone = FALSE]
                              ELSE req[p]]
  BY <1>1, Zenon DEF Start, NewRequest
<1>4. /\ new.pc = "load" /\ new.browser = b /\ new.op = op /\ new.user = u
      /\ new.sess = jar[b].sess /\ new.rem = jar[b].rem /\ new.alone = al
      /\ new.token = None /\ new.values = NoValues /\ new.setSess = None /\ new.setRem = {}
      /\ new.expired = FALSE
  <2> DEFINE e == [FreeSlot EXCEPT !.pc = "load", !.browser = b, !.op = op, !.user = u]
             f == [e EXCEPT !.remember = rm, !.sess = jar[b].sess, !.rem = jar[b].rem, !.alone = al]
  <2>1. /\ e.pc = "load" /\ e.browser = b /\ e.op = op /\ e.user = u
        /\ e.token = None /\ e.values = NoValues /\ e.setSess = None /\ e.setRem = {}
        /\ e.expired = FALSE /\ DOMAIN e = DOMAIN FreeSlot
    BY DEF FreeSlot
  <2>2. new = f  BY DEF NewRequest, FreeSlot
  <2>3. /\ f.pc = e.pc /\ f.browser = e.browser /\ f.op = e.op /\ f.user = e.user
        /\ f.token = e.token /\ f.values = e.values /\ f.setSess = e.setSess
        /\ f.setRem = e.setRem /\ f.expired = e.expired
        /\ f.sess = jar[b].sess /\ f.rem = jar[b].rem /\ f.alone = al
    BY DEF FreeSlot
  <2> HIDE DEF new, e, f
  <2>4. QED  BY <2>1, <2>2, <2>3
<1> HIDE DEF new, others, al
<1>5. b # None /\ None \notin Tokens \cup Hashes /\ \A h \in Hashes, x \in Users : <<x, h>> # None
  BY NoneAssumption, MarkerAssumption DEF NoneAssumption, MarkerAssumption
<1>6. \A p \in Slots : req[p].browser = b <=> p \in others
  BY <1>5 DEF EffectInv, Shape, others, Active
<1>7. /\ req'[q] = new
      /\ \A p \in others \ {q} : req'[p] = [req[p] EXCEPT !.alone = FALSE]
      /\ \A p \in Slots : p # q /\ p \notin others => req'[p] = req[p]
  BY <1>3 DEF others
<1>8. q \notin others  BY <1>2 DEF others, Active
<1>9. ASSUME NEW p \in others
      PROVE  LET d == req'[p]
                 c == req[p]
             IN /\ d.alone = FALSE /\ d.pc = c.pc /\ d.browser = c.browser /\ d.op = c.op
                /\ d.user = c.user /\ d.remember = c.remember /\ d.sess = c.sess
                /\ d.rem = c.rem /\ d.token = c.token /\ d.values = c.values
                /\ d.expired = c.expired /\ d.forced = c.forced /\ d.setSess = c.setSess
                /\ d.setRem = c.setRem /\ d.status = c.status
  <2>1. p \in Slots /\ p # q  BY <1>8 DEF others
  <2>2. req[p] \in Request /\ req'[p] = [req[p] EXCEPT !.alone = FALSE]
    BY <1>7, <2>1 DEF TypeOK
  <2>3. QED  BY <2>2 DEF Request
<1>10. /\ \A a \in Browsers \ {b} : known'[a] = known[a]
       /\ known'[b].out => known[b].out /\ op # "login"
       /\ known'[b].as # None => known'[b].as = known[b].as /\ op \in {"visit", "reset"}
       /\ known'[b].rem # None => known'[b].rem = known[b].rem /\ op \in {"visit", "reset"}
  <2> DEFINE ko == known[b].out /\ op # "login"
             ka == IF op \in {"login", "logout"} THEN None ELSE known[b].as
             kr == IF op \in {"login", "logout"} THEN None ELSE known[b].rem
  <2>1. known' = [known EXCEPT ![b] = [out |-> ko, as |-> ka, rem |-> kr]]
    BY <1>1 DEF Start
  <2> HIDE DEF ko, ka, kr
  <2>2. /\ known'[b].out = ko /\ known'[b].as = ka /\ known'[b].rem = kr
        /\ \A a \in Browsers \ {b} : known'[a] = known[a]
    BY <2>1 DEF TypeOK
  <2>3. QED  BY <2>2 DEF ko, ka, kr, Op
<1>11. \A p \in Slots : req'[p].browser = b => p = q \/ p \in others
  BY <1>6, <1>7
<1>12. \A p \in Slots : req'[p].browser = b =>
          /\ \A t \in Tokens : t \in Toks(req'[p]) => b \in TokenHolders[t]
          /\ \A h \in Hashes : Marks(req'[p], h) => b \in HashHolders[h]
  <2>1. /\ \A t \in Tokens : t \in Toks(new) => b \in TokenHolders[t]
        /\ \A h \in Hashes : Marks(new, h) => b \in HashHolders[h]
    BY <1>4, <1>5 DEF Toks, Marks, TokenHolders, HashHolders, NoValues
  <2>2. ASSUME NEW p \in others
        PROVE  /\ \A t \in Tokens : t \in Toks(req'[p]) => b \in TokenHolders[t]
               /\ \A h \in Hashes : Marks(req'[p], h) => b \in HashHolders[h]
    <3>1. p \in Slots /\ req[p].browser = b  BY DEF others
    <3>2. Toks(req'[p]) = Toks(req[p])  BY <1>9 DEF Toks
    <3>3. \A h \in Hashes : Marks(req'[p], h) => Marks(req[p], h)  BY <1>9 DEF Marks
    <3>4. QED  BY <3>1, <3>2, <3>3, Holds
  <2>3. QED  BY <1>7, <1>11, <2>1, <2>2
<1>13. /\ \A t \in Tokens : jar'[b].sess = t => b \in TokenHolders[t]
       /\ \A h \in Hashes, x \in Users : jar'[b].rem = <<x, h>> => b \in HashHolders[h]
  BY <1>2 DEF TokenHolders, HashHolders
<1>14. AloneInv'
  <2>1. SUFFICES ASSUME NEW x \in Slots, NEW y \in Slots, x # y, req'[x].browser = req'[y].browser,
                        req'[x].browser # None, req'[y].alone
                 PROVE  FALSE
    BY DEF AloneInv
  <2>2. CASE req'[x].browser = b
    <3>1. y = q /\ x \in others  BY <1>9, <1>11, <2>1, <2>2
    <3>2. QED  BY <1>4, <1>7, <2>1, <3>1 DEF al
  <2>3. CASE req'[x].browser # b
    <3>1. ASSUME NEW p \in Slots, req'[p].browser # b PROVE req'[p] = req[p]
      <4>1. p # q  BY <1>4, <1>7, <3>1
      <4>2. p \notin others
        <5>1. \A z \in others : req'[z].browser = req[z].browser  BY <1>9
        <5>2. QED  BY <1>6, <3>1, <5>1
      <4>3. QED  BY <1>7, <4>1, <4>2
    <3>2. req'[x] = req[x] /\ req'[y] = req[y]  BY <2>1, <2>3, <3>1
    <3>3. QED  BY <2>1, <3>2 DEF EffectInv, AloneInv
  <2>4. QED  BY <2>2, <2>3
<1>15. ASSUME NEW p \in Slots, req'[p] # req[p] PROVE Shape(req'[p]) /\ Tells(req[p])'
  <2>1. CASE p = q
    <3>1. Shape(new)  BY <1>1, <1>4, <1>5 DEF Shape, Done
    <3>2. QED  BY <1>4, <1>7, <2>1, <3>1 DEF Tells
  <2>2. CASE p \in others
    <3>1. Shape(req[p])  BY DEF EffectInv
    <3>2. Shape(req'[p])
      BY <1>9, <2>2, <3>1 DEF Shape, Done, LoginDone, LogoutDone
    <3>3. QED  BY <1>9, <2>2, <3>2 DEF Tells
  <2>3. QED  BY <1>7, <1>15, <2>1, <2>2
<1>16. Out(b) /\ As(b) /\ Rem(b)  BY DEF EffectInv
<1>17. Out(b)'
  <2>1. SUFFICES ASSUME known[b].out, op # "login"
                 PROVE  /\ jar[b].rem \notin rows
                        /\ \A t \in Tokens : b \in TokenHolders'[t] => t \in Bare
                        /\ \A p \in Slots : req'[p].browser = b => Harmless(req[p])'
    BY <1>2, <1>10 DEF Out, Bare
  <2>2. \A t \in Tokens : b \in TokenHolders'[t] => b \in TokenHolders[t]
    BY <1>12, <1>13 DEF TokenHolders, Toks
  <2>3. ASSUME NEW p \in Slots, req'[p].browser = b PROVE Harmless(req[p])'
    <3>1. CASE p = q
      BY <1>2, <1>4, <1>7, <1>16, <2>1, <3>1 DEF Harmless, NoValues, Out
    <3>2. CASE p \in others
      <4>1. Harmless(req[p])  BY <1>6, <1>16, <2>1, <3>2 DEF Out
      <4>2. QED  BY <1>2, <1>9, <3>2, <4>1 DEF Harmless
    <3>3. QED  BY <1>11, <2>3, <3>1, <3>2
  <2>4. QED  BY <1>16, <2>1, <2>2, <2>3 DEF Out
<1>18. As(b)'
  <2>1. SUFFICES ASSUME known[b].as # None, op \in {"visit", "reset"}
                 PROVE  /\ jar[b].sess \in Tokens /\ store[jar[b].sess] # None
                        /\ store[jar[b].sess].user = known[b].as
                        /\ \A p \in Slots : req'[p].browser = b =>
                              KeepsLogin(req'[p], jar[b].sess, known[b].as)
    BY <1>2, <1>10 DEF As, KeepsLogin
  <2>2. KeepsLogin(new, jar[b].sess, known[b].as)  BY <1>4, <2>1 DEF KeepsLogin
  <2>3. ASSUME NEW p \in others PROVE KeepsLogin(req'[p], jar[b].sess, known[b].as)
    <3>1. p \in Slots /\ KeepsLogin(req[p], jar[b].sess, known[b].as)
      BY <1>6, <1>16, <2>1 DEF As, others
    <3>2. QED  BY <1>9, <3>1 DEF KeepsLogin
  <2>4. QED  BY <1>7, <1>11, <1>16, <2>1, <2>2, <2>3 DEF As
<1>19. Rem(b)'
  <2>1. SUFFICES ASSUME known[b].rem # None, op \in {"visit", "reset"}
                 PROVE  /\ jar[b].rem \in rows /\ jar[b].rem[1] = known[b].rem
                        /\ \A p \in Slots : req'[p].browser = b => KeepsCookie(req'[p], jar[b].rem)
    BY <1>2, <1>10 DEF Rem, KeepsCookie
  <2>2. KeepsCookie(new, jar[b].rem)  BY <1>4, <2>1 DEF KeepsCookie
  <2>3. ASSUME NEW p \in others PROVE KeepsCookie(req'[p], jar[b].rem)
    <3>1. p \in Slots /\ KeepsCookie(req[p], jar[b].rem)
      BY <1>6, <1>16, <2>1 DEF Rem, others
    <3>2. QED  BY <1>9, <3>1 DEF KeepsCookie
  <2>4. QED  BY <1>7, <1>11, <1>16, <2>1, <2>2, <2>3 DEF Rem
<1>20. \A p \in Slots :
          req'[p] = req[p] \/ {req[p].browser, req'[p].browser} \subseteq {b, None}
  <2>1. req[q].browser = None  BY <1>2 DEF EffectInv, Shape
  <2>2. QED  BY <1>4, <1>6, <1>7, <1>9, <2>1
<1>21. QED
  BY <1>2, <1>10, <1>12, <1>13, <1>14, <1>15, <1>17, <1>18, <1>19, <1>20, OwnAffairs
-----------------------------------------------------------------------------
(* The environment of the server.                                          *)

(* If nobody takes up anything then again everything has one holder.       *)
LEMMA NobodyTakes ==
    ASSUME Owned, \A t \in Tokens : TokenHolders'[t] \subseteq TokenHolders[t],
           \A h \in Hashes : HashHolders'[h] \subseteq HashHolders[h]
    PROVE  Owned'
BY DEF Owned

(* The deadline of a session passes.                                       *)
LEMMA ExpireKeeps ==
    ASSUME TypeOK, TypeOK', EffectInv, NEW t \in Tokens, Expire(t)
    PROVE  EffectInv'
<1>1. UNCHANGED <<rows, jar>> /\ store' = [store EXCEPT ![t] = None]  BY DEF Expire
<1>2. \A x \in Tokens : store'[x] = IF x = t THEN None ELSE store[x]  BY <1>1 DEF TypeOK
<1>3. \A b \in Browsers :
         known'[b].out = known[b].out /\ known'[b].as = None /\ known'[b].rem = known[b].rem
  <2>1. known' = [b \in Browsers |-> [known[b] EXCEPT !.as = None]]  BY DEF Expire
  <2>2. QED  BY <2>1 DEF TypeOK, Told
<1>4. ASSUME NEW p \in Slots
      PROVE  LET d == req'[p]
                 c == req[p]
             IN /\ d.pc = c.pc /\ d.browser = c.browser /\ d.op = c.op /\ d.user = c.user
                /\ d.remember = c.remember /\ d.sess = c.sess /\ d.rem = c.rem
                /\ d.token = c.token /\ d.values = c.values /\ d.forced = c.forced
                /\ d.setSess = c.setSess /\ d.setRem = c.setRem /\ d.status = c.status
                /\ d.alone = c.alone
                /\ ~d.expired => ~c.expired /\ t # c.setSess
  <2>1. req[p] \in Request  BY DEF TypeOK
  <2>2. req'[p] = IF t \in {req[p].token, req[p].setSess}
                  THEN [req[p] EXCEPT !.expired = TRUE] ELSE req[p]
    BY DEF Expire
  <2>3. QED  BY <2>1, <2>2 DEF Request
<1>5. \A x \in Tokens : TokenHolders'[x] \subseteq TokenHolders[x]
  BY <1>1, <1>4 DEF TokenHolders, Toks
<1>6. \A h \in Hashes : HashHolders'[h] \subseteq HashHolders[h]
  <2>1. ASSUME NEW h \in Hashes, NEW b \in HashHolders'[h] PROVE b \in HashHolders[h]
    <3>1. b \in Browsers  BY DEF HashHolders
    <3>2. \/ \E u \in Users : jar'[b].rem = <<u, h>>
          \/ \E p \in Slots : req'[p].browser = b /\ Marks(req'[p], h)
          \/ \E x \in Tokens : b \in TokenHolders'[x] /\ store'[x] # None /\ store'[x].rt = h
      BY DEF HashHolders, Marks
    <3>3. \A p \in Slots : Marks(req'[p], h) => Marks(req[p], h)  BY <1>4 DEF Marks
    <3>4. CASE \E u \in Users : jar'[b].rem = <<u, h>>
      BY <1>1, <3>1, <3>4 DEF HashHolders
    <3>5. CASE \E p \in Slots : req'[p].browser = b /\ Marks(req'[p], h)
      BY <1>4, <3>1, <3>3, <3>5 DEF HashHolders
    <3>6. CASE \E x \in Tokens : b \in TokenHolders'[x] /\ store'[x] # None /\ store'[x].rt = h
      BY <1>2, <1>5, <3>1, <3>6 DEF HashHolders
    <3>7. QED  BY <3>2, <3>4, <3>5, <3>6
  <2>2. QED  BY <2>1
<1>7. Owned'  BY <1>5, <1>6, NobodyTakes DEF EffectInv
<1>8. AloneInv'  BY <1>4 DEF EffectInv, AloneInv
<1>9. \A x : x \in Bare => x \in Bare'  BY <1>2 DEF Bare
<1>10. ASSUME NEW p \in Slots PROVE Shape(req'[p]) /\ Tells(req[p])'
  <2>1. Shape(req[p]) /\ Tells(req[p])  BY DEF EffectInv
  <2>2. Shape(req'[p])  BY <1>4, <2>1 DEF Shape, Done, LoginDone, LogoutDone
  <2>3. req[p].op = "login" /\ req[p].pc = "respond" /\ req[p].status = "ok"
           => req[p].setSess \in Tokens
    BY <2>1 DEF Shape, Done
  <2>4. QED  BY <1>1, <1>2, <1>4, <1>9, <2>1, <2>2, <2>3 DEF Tells
<1>11. ASSUME NEW b \in Browsers PROVE Out(b)' /\ As(b)' /\ Rem(b)'
  <2>1. Out(b) /\ As(b) /\ Rem(b)  BY DEF EffectInv
  <2>2. ASSUME NEW p \in Slots, Harmless(req[p]) PROVE Harmless(req[p])'
    BY <1>1, <1>4, <2>2 DEF Harmless
  <2>3. Out(b)'  BY <1>1, <1>3, <1>4, <1>5, <1>9, <2>1, <2>2 DEF Out
  <2>4. As(b)'  BY <1>3 DEF As
  <2>5. Rem(b)'  BY <1>1, <1>3, <1>4, <2>1 DEF Rem, KeepsCookie
  <2>6. QED  BY <2>3, <2>4, <2>5
<1>12. QED  BY <1>7, <1>8, <1>10, <1>11 DEF EffectInv

(* A user is deleted: from then on no browser counts on anything.          *)
LEMMA DeleteUserKeeps ==
    ASSUME TypeOK, TypeOK', EffectInv, NEW u \in Users, DeleteUser(u)
    PROVE  EffectInv'
<1>1. UNCHANGED <<store, jar>>  BY DEF DeleteUser
<1>2. \A b \in Browsers : known'[b] = NotTold  BY DEF DeleteUser
<1>3. ASSUME NEW p \in Slots
      PROVE  LET d == req'[p]
                 c == req[p]
             IN /\ d.pc = c.pc /\ d.browser = c.browser /\ d.op = c.op /\ d.user = c.user
                /\ d.remember = c.remember /\ d.sess = c.sess /\ d.rem = c.rem
                /\ d.token = c.token /\ d.values = c.values /\ d.forced = c.forced
                /\ d.setSess = c.setSess /\ d.setRem = c.setRem /\ d.status = c.status
                /\ d.alone = FALSE
  <2>1. req[p] \in Request  BY DEF TypeOK
  <2>2. req'[p] = [req[p] EXCEPT !.alone = FALSE]  BY DEF DeleteUser
  <2>3. QED  BY <2>1, <2>2 DEF Request
<1>4. \A x \in Tokens : TokenHolders'[x] \subseteq TokenHolders[x]
  <2>1. \A p \in Slots : Toks(req[p])' = Toks(req[p])  BY <1>3 DEF Toks
  <2>2. QED  BY <1>1, <1>3, <2>1 DEF TokenHolders
<1>5. \A h \in Hashes : HashHolders'[h] \subseteq HashHolders[h]
  <2>1. \A p \in Slots, h \in Hashes : Marks(req'[p], h) => Marks(req[p], h)  BY <1>3 DEF Marks
  <2>2. ASSUME NEW h \in Hashes, NEW b \in HashHolders'[h] PROVE b \in HashHolders[h]
    <3>1. b \in Browsers  BY DEF HashHolders
    <3>2. \/ \E x \in Users : jar[b].rem = <<x, h>>
          \/ \E p \in Slots : req'[p].browser = b /\ Marks(req'[p], h)
          \/ \E t \in Tokens : b \in TokenHolders'[t] /\ store[t] # None /\ store[t].rt = h
      BY <1>1 DEF HashHolders, Marks
    <3>3. QED  BY <1>3, <1>4, <2>1, <3>1, <3>2 DEF HashHolders
  <2>3. QED  BY <2>2
<1>6. Owned'  BY <1>4, <1>5, NobodyTakes DEF EffectInv
<1>7. AloneInv'  BY <1>3 DEF AloneInv
<1>8. ASSUME NEW p \in Slots PROVE Shape(req'[p]) /\ Tells(req[p])'
  <2>1. Shape(req[p])  BY DEF EffectInv
  <2>2. Shape(req'[p])  BY <1>3, <2>1 DEF Shape, Done, LoginDone, LogoutDone
  <2>3. QED  BY <1>3, <2>2 DEF Tells
<1>9. \A b \in Browsers : Out(b)' /\ As(b)' /\ Rem(b)'
  BY <1>2 DEF Out, As, Rem, NotTold
<1>10. QED  BY <1>6, <1>7, <1>8, <1>9 DEF EffectInv

-----------------------------------------------------------------------------
(* Every step keeps it.                                                    *)
LEMMA EffectStep == IInv /\ EffectInv /\ [Next]_vars => EffectInv'
<1> SUFFICES ASSUME IInv, EffectInv, [Next]_vars PROVE EffectInv'
  OBVIOUS
<1>1. TypeOK /\ TypeOK'  BY Step DEF IInv
<1>2. ASSUME NEW q \in Slots, Browser(q) PROVE EffectInv'
  BY <1>1, <1>2, SendKeeps, RespondKeeps, LoseKeeps DEF Browser
<1>3. ASSUME NEW q \in Slots, Manager(q) PROVE EffectInv'
  BY <1>1, <1>3, LoadKeeps, ErrorKeeps, CheckKeeps, GetRememberedKeeps, LeaveKeeps,
     LeaveFailsKeeps, CommitKeeps
  DEF Manager
<1>4. ASSUME NEW q \in Slots, Handlers(q) PROVE EffectInv'
  BY <1>1, <1>4, LoginKeeps, InsertKeeps, DeleteRowKeeps DEF Handlers
<1>5. ASSUME NEW b \in Browsers, CloseBrowser(b) PROVE EffectInv'
  BY <1>1, <1>5, CloseKeeps
<1>6. ASSUME NEW t \in Tokens, Expire(t) PROVE EffectInv'
  BY <1>1, <1>6, ExpireKeeps
<1>7. ASSUME NEW u \in Users, DeleteUser(u) PROVE EffectInv'
  BY <1>1, <1>7, DeleteUserKeeps
<1>8. CASE UNCHANGED vars
  <2>1. UNCHANGED <<rows, store, jar, req, known>>  BY <1>8 DEF vars
  <2>2. TokenHolders' = TokenHolders /\ Bare' = Bare  BY <2>1 DEF TokenHolders, Bare, Toks
  <2>3. HashHolders' = HashHolders  BY <2>1, <2>2 DEF HashHolders, Marks
  <2>4. Owned' /\ AloneInv'  BY <2>1, <2>2, <2>3 DEF EffectInv, Owned, AloneInv
  <2>5. \A q \in Slots : Shape(req'[q]) /\ Tells(req[q])'
    BY <2>1, <2>2 DEF EffectInv, Tells
  <2>6. \A b \in Browsers : Out(b)' /\ As(b)' /\ Rem(b)'
    BY <2>1, <2>2 DEF EffectInv, Out, As, Rem, Harmless
  <2>7. QED  BY <2>4, <2>5, <2>6 DEF EffectInv
<1>9. QED  BY <1>2, <1>3, <1>4, <1>5, <1>6, <1>7, <1>8 DEF Next

(* At the beginning nobody holds anything.                                 *)
LEMMA EffectBeginning == Init => EffectInv
<1> SUFFICES ASSUME Init PROVE EffectInv
  OBVIOUS
<1>1. \A q \in Slots : req[q] = FreeSlot  BY DEF Init
<1>2. \A b \in Browsers : jar[b].sess = None /\ jar[b].rem = None /\ known[b] = NotTold
  BY DEF Init
<1>3. None \notin Browsers \cup Tokens \cup Hashes
      /\ \A u \in Users, h \in Hashes : <<u, h>> # None
  BY NoneAssumption, MarkerAssumption DEF NoneAssumption, MarkerAssumption
<1>4. \A t \in Tokens : TokenHolders[t] = {}
  BY <1>1, <1>2, <1>3, FreeIs DEF TokenHolders
<1>5. \A h \in Hashes : HashHolders[h] = {}
  BY <1>1, <1>2, <1>3, <1>4, FreeIs DEF HashHolders
<1>6. Owned /\ AloneInv  BY <1>1, <1>4, <1>5, FreeIs DEF Owned, AloneInv
<1>7. \A q \in Slots : Shape(req[q]) /\ Tells(req[q])  BY <1>1, FreeIs DEF Tells
<1>8. \A b \in Browsers : Out(b) /\ As(b) /\ Rem(b)
  BY <1>2 DEF Out, As, Rem, NotTold
<1>9. QED  BY <1>6, <1>7, <1>8 DEF EffectInv

(* Whoever holds a token or a hash holds it alone, and what browsers count *)
(* on is so.                                                               *)
LEMMA Effects == Spec => [](IInv /\ EffectInv)
<1>1. Init => IInv /\ EffectInv  BY Beginning, EffectBeginning
<1>2. IInv /\ EffectInv /\ [Next]_vars => (IInv /\ EffectInv)'  BY Step, EffectStep
<1>3. QED  BY <1>1, <1>2, PTL DEF Spec

(* A logout of which the browser got the answer, and that none of its own  *)
(* requests overlapped, holds against everything but a new login: Logout   *)
(* (auth-handlers.go:94) ignores every error of the store and the          *)
(* database, and yet neither the session nor the remember cookie of the    *)
(* browser logs anyone in.                                                 *)
THEOREM LogoutEffect == Spec => []LogoutTakesEffect
<1>1. IInv /\ EffectInv => LogoutTakesEffect
  <2> SUFFICES ASSUME IInv, EffectInv, NEW b \in Browsers, known[b].out PROVE ~LoggedIn(b)
    BY DEF LogoutTakesEffect
  <2>1. /\ jar[b].rem \notin rows
        /\ \A t \in Tokens : b \in TokenHolders[t] => t \in Bare
    BY DEF EffectInv, Out
  <2>2. jar[b].sess \in Tokens \cup {None}  BY DEF IInv, TypeOK
  <2>3. jar[b].sess # None => jar[b].sess \in Bare  BY <2>1, <2>2 DEF TokenHolders
  <2>4. QED  BY <2>1, <2>3 DEF LoggedIn, Bare
<1>2. QED  BY <1>1, Effects, PTL

(* A login of which the browser got the answer lasts as long as its        *)
(* session: no request of another browser, no visit of its own and no      *)
(* failure of the store takes PostUserLogin (auth-handlers.go:24) back.    *)
THEOREM LoginEffect == Spec => []LoginTakesEffect
<1>1. EffectInv => LoginTakesEffect
  BY NoneAssumption DEF EffectInv, As, LoginTakesEffect, NoneAssumption
<1>2. QED  BY <1>1, Effects, PTL

(* The remember cookie that a login set stays valid until the browser logs *)
(* in or out again, across closed browsers and expired sessions: no other  *)
(* browser's Logout deletes its row in remember_tokens.                    *)
THEOREM RememberEffect == Spec => []RememberLasts
<1>1. EffectInv => RememberLasts  BY DEF EffectInv, Rem, RememberLasts
<1>2. QED  BY <1>1, Effects, PTL

=============================================================================
