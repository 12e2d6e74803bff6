-------------------------- MODULE MailQueueProofs --------------------------
(***************************************************************************)
(* Theorems about the mail queue, for every set of requests, both channel  *)
(* capacities and every configuration of the transport.                    *)
(***************************************************************************)
EXTENDS MailQueue, SequenceTheorems, FiniteSetTheorems, TLAPS

(* Assigning one field of a function keeps its type.                       *)
LEMMA ExceptType ==
    ASSUME NEW S, NEW T, NEW f \in [S -> T], NEW x \in S, NEW y \in T
    PROVE  [f EXCEPT ![x] = y] \in [S -> T]
OBVIOUS

(* A message at the head of the queue is a request, and taking it leaves   *)
(* a shorter queue.                                                        *)
LEMMA DequeueType ==
    ASSUME NEW S, NEW s \in Seq(S), s # <<>>
    PROVE  /\ Head(s) \in S
           /\ Tail(s) \in Seq(S)
           /\ Len(Tail(s)) = Len(s) - 1
           /\ Len(s) \in Nat
BY HeadTailProperties, LenProperties

(* A handler's step keeps the type invariant.                              *)
LEMMA TypeHandler ==
    ASSUME TypeOK, NEW r \in Requests, Handler(r)
    PROVE  TypeOK'
<1> USE CapAssumption, RequestsAssumption DEF TypeOK, config, callers
<1>1. CASE Arrive(r) \/ Refuse(r)
  <2>1. caller' \in [Requests -> CallerState]
    BY <1>1, ExceptType DEF Arrive, Refuse, CallerState
  <2> QED BY <1>1, <2>1 DEF Arrive, Refuse
<1>2. CASE Enqueue(r)
  <2>1. caller' \in [Requests -> CallerState]
    BY <1>2, ExceptType DEF Enqueue, CallerState
  <2>2. jobs' \in Seq(Requests) /\ Len(jobs') = Len(jobs) + 1
    BY <1>2, AppendProperties DEF Enqueue
  <2>3. Len(jobs') <= JobsCap
    BY <1>2, <2>2, LenProperties DEF Enqueue
  <2> QED BY <1>2, <2>1, <2>2, <2>3 DEF Enqueue
<1>3. CASE Receive(r)
  <2>1. caller' \in [Requests -> CallerState]
    BY <1>3, ExceptType DEF Receive, CallerState
  <2>2. /\ Head(results) \in Result
        /\ results' \in Seq(Result)
        /\ Len(results') <= ResultsCap
    BY <1>3, DequeueType DEF Receive
  <2>3. answer' \in [Requests -> Result \cup {NoAnswer}]
    BY <1>3, <2>2, ExceptType DEF Receive
  <2> QED BY <1>3, <2>1, <2>2, <2>3 DEF Receive
<1> QED BY <1>1, <1>2, <1>3 DEF Handler

(* A worker's step keeps the type invariant.                               *)
LEMMA TypeWorker ==
    ASSUME TypeOK, Worker
    PROVE  TypeOK'
<1> USE CapAssumption, RequestsAssumption DEF TypeOK, config, callers
<1> USE DEF Phase, SenderState, ClientState, Return, Continue
<1>1. CASE Take
  <2>1. /\ cur' \in Requests
        /\ jobs' \in Seq(Requests)
        /\ Len(jobs') <= JobsCap
    BY <1>1, DequeueType DEF Take
  <2>2. phase' \in {"post", "build"} /\ ok' \in BOOLEAN
    BY <1>1 DEF Take
  <2> QED BY <1>1, <2>1, <2>2 DEF Take
<1>2. CASE Build
  <2>1. phase' \in {"post", "connect", "attach"} /\ ok' \in BOOLEAN
    BY <1>2 DEF Build
  <2> QED BY <1>2, <2>1 DEF Build
<1>3. CASE Attach
  <2>1. phase' \in {"post", "api"} /\ ok' \in BOOLEAN
    BY <1>3 DEF Attach
  <2> QED BY <1>3, <2>1 DEF Attach
<1>4. CASE Connect
  <2>1. phase = "connect"
    BY <1>4 DEF Connect, ConnectOk, ConnectFail, ConnectTimeout
  <2>2. client' \in [Requests -> ClientState]
    BY <1>4, <2>1, ExceptType DEF Connect, ConnectOk, ConnectFail, ConnectTimeout
  <2>3. phase' \in {"post", "compose"} /\ ok' \in BOOLEAN
    BY <1>4 DEF Connect, ConnectOk, ConnectFail, ConnectTimeout
  <2> QED BY <1>4, <2>1, <2>2, <2>3
          DEF Connect, ConnectOk, ConnectFail, ConnectTimeout
<1>5. CASE Compose
  <2>1. /\ phase' \in {"post", "select"}
        /\ ok' \in BOOLEAN
        /\ sender' \in SenderState
    BY <1>5 DEF Compose
  <2> QED BY <1>5, <2>1 DEF Compose
<1>6. CASE SelectSent \/ SelectTimeout
  BY <1>6 DEF SelectSent, SelectTimeout
<1>7. CASE Quit
  <2>1. client' \in [Requests -> ClientState]
    BY <1>7, ExceptType DEF Quit
  <2> QED BY <1>7, <2>1 DEF Quit
<1>8. CASE Post
  <2>1. [req |-> cur, ok |-> ok] \in Result
    BY <1>8 DEF Post, Result
  <2>2. results' \in Seq(Result) /\ Len(results') = Len(results) + 1
    BY <1>8, <2>1, AppendProperties DEF Post
  <2>3. Len(results') <= ResultsCap
    BY <1>8, <2>2, LenProperties DEF Post
  <2> QED BY <1>8, <2>2, <2>3 DEF Post
<1> QED BY <1>1, <1>2, <1>3, <1>4, <1>5, <1>6, <1>7, <1>8 DEF Worker

(* A step of a server or of a goroutine of the SMTP library keeps the type *)
(* invariant; the goroutine exists only while the worker holds a message.  *)
LEMMA TypeServer ==
    ASSUME TypeOK, sender # "none" => cur # NoRequest,
           \/ SendLock \/ Server \/ \E r \in Requests : LateConnect(r)
    PROVE  TypeOK'
<1> USE CapAssumption, RequestsAssumption DEF TypeOK, config, callers
<1> USE DEF Phase, SenderState, ClientState, Return
<1>1. CASE SendLock
  BY <1>1 DEF SendLock
<1>2. CASE CallApi
  <2>1. delivered' \in SUBSET Requests /\ phase' = "post" /\ ok' \in BOOLEAN
    BY <1>2 DEF CallApi
  <2> QED BY <1>2, <2>1 DEF CallApi
<1>3. CASE SendAccept
  <2>1. delivered' \in SUBSET Requests
    BY <1>3 DEF SendAccept
  <2> QED BY <1>3, <2>1 DEF SendAccept
<1>4. CASE SendReturn
  BY <1>4 DEF SendReturn
<1>5. CASE \E r \in Requests : LateConnect(r)
  <2>1. client' \in [Requests -> ClientState]
    BY <1>5, ExceptType DEF LateConnect
  <2> QED BY <1>5, <2>1 DEF LateConnect
<1> QED BY <1>1, <1>2, <1>3, <1>4, <1>5 DEF Server

-----------------------------------------------------------------------------
(* The worker's part of the inductive invariant.  What Send is about to    *)
(* return is a success only of a mail that was accepted: through the API   *)
(* at once, through SMTP when sendMailProcess returned nil; and that       *)
(* goroutine lives only while the worker waits for it.                     *)
WorkerInv ==
    /\ sender # "none" => phase \in {"select", "quit"}
    /\ sender \in {"accepted", "ok"} => cur \in delivered
    /\ phase \in {"quit", "post"} /\ ok => cur \in delivered

(* A success in the channel or in a handler's hands is about a delivery.   *)
ReportInv ==
    /\ \A i \in 1..Len(results) : results[i].ok => results[i].req \in delivered
    /\ \A r \in Requests : answer[r].ok => answer[r].req \in delivered

(* The handlers that wait are finitely many, and as many as the messages   *)
(* that are on their way and the results that nobody took.                 *)
CountInv == IsFiniteSet(Waiting) /\ Conservation

IInv == TypeOK /\ WorkerInv /\ ReportInv /\ CountInv

(* Every action keeps the mails that were delivered.                       *)
LEMMA DeliveredGrows ==
    ASSUME TypeOK, [Next]_vars
    PROVE  delivered \subseteq delivered'
BY DEF Next, Handler, Worker, Server, Connect, Arrive, Refuse, Enqueue, Receive,
       Take, Build, Attach, CallApi, ConnectOk, ConnectFail, ConnectTimeout,
       Compose, SelectSent, SelectTimeout, Quit, Post, SendLock, SendAccept,
       SendReturn, LateConnect, vars

(* Every action keeps the type invariant.                                  *)
LEMMA TypeStep ==
    ASSUME TypeOK, WorkerInv, [Next]_vars
    PROVE  TypeOK'
<1>1. sender # "none" => cur # NoRequest
  BY DEF TypeOK, WorkerInv
<1>2. CASE UNCHANGED vars
  BY <1>2 DEF TypeOK, vars
<1> QED BY <1>1, <1>2, TypeHandler, TypeWorker, TypeServer DEF Next

(* Every action keeps the worker's part.                                   *)
LEMMA WorkerStep ==
    ASSUME TypeOK, WorkerInv, [Next]_vars
    PROVE  WorkerInv'
<1> USE DEF WorkerInv, TypeOK, Phase, SenderState, Return, Continue, config,
            callers
<1>1. CASE \E r \in Requests : Handler(r) \/ LateConnect(r)
  BY <1>1 DEF Handler, Arrive, Refuse, Enqueue, Receive, LateConnect
<1>2. CASE Take
  BY <1>2 DEF Take
<1>3. CASE Build \/ Attach
  BY <1>3 DEF Build, Attach
<1>4. CASE Connect
  BY <1>4 DEF Connect, ConnectOk, ConnectFail, ConnectTimeout
<1>5. CASE Compose
  BY <1>5 DEF Compose
<1>6. CASE SelectSent \/ SelectTimeout
  BY <1>6 DEF SelectSent, SelectTimeout
<1>7. CASE Quit
  BY <1>7 DEF Quit
<1>8. CASE Post
  BY <1>8 DEF Post
<1>9. CASE SendLock \/ SendReturn
  BY <1>9 DEF SendLock, SendReturn
<1>10. CASE CallApi
  BY <1>10 DEF CallApi
<1>11. CASE SendAccept
  BY <1>11 DEF SendAccept
<1>12. CASE UNCHANGED vars
  BY <1>12 DEF vars
<1> QED BY <1>1, <1>2, <1>3, <1>4, <1>5, <1>6, <1>7, <1>8, <1>9, <1>10, <1>11,
           <1>12 DEF Next, Worker, Server

(* Every action keeps what the results say true: a result enters the       *)
(* channel in Post and moves to a handler in Receive.                      *)
LEMMA ReportStep ==
    ASSUME TypeOK, WorkerInv, ReportInv, [Next]_vars
    PROVE  ReportInv'
<1>1. delivered \subseteq delivered'
  BY DeliveredGrows
<1>2. CASE \E r \in Requests : Receive(r)
  <2>1. PICK r \in Requests : Receive(r)
    BY <1>2
  <2>2. /\ Len(results') = Len(results) - 1
        /\ Len(results) \in Nat \ {0}
        /\ \A i \in 1..Len(results') : results'[i] = results[i + 1]
    BY <2>1, HeadTailProperties, EmptySeq DEF Receive, TypeOK
  <2>3. \A i \in 1..Len(results') : results'[i].ok => results'[i].req \in delivered
    BY <2>2 DEF ReportInv
  <2>4. Head(results) = results[1]
    BY <2>1 DEF Receive
  <2>5. Head(results).ok => Head(results).req \in delivered
    BY <2>2, <2>4 DEF ReportInv
  <2>6. \A q \in Requests : answer'[q] = IF q = r THEN Head(results) ELSE answer[q]
    BY <2>1 DEF Receive, TypeOK
  <2> QED BY <1>1, <2>3, <2>5, <2>6 DEF ReportInv
<1>3. CASE Post
  <2>1. [req |-> cur, ok |-> ok] \in Result
    BY <1>3 DEF Post, TypeOK, Result
  <2>2. /\ Len(results') = Len(results) + 1
        /\ \A i \in 1..Len(results) : results'[i] = results[i]
        /\ results'[Len(results) + 1] = [req |-> cur, ok |-> ok]
        /\ Len(results) \in Nat
    BY <1>3, <2>1, AppendProperties, LenProperties DEF Post, TypeOK
  <2>3. ok => cur \in delivered
    BY <1>3 DEF Post, WorkerInv
  <2>4. \A i \in 1..Len(results') : i \in 1..Len(results) \/ i = Len(results) + 1
    BY <2>2
  <2>5. \A i \in 1..Len(results') : results'[i].ok => results'[i].req \in delivered
    BY <2>2, <2>3, <2>4 DEF ReportInv
  <2> QED BY <1>1, <1>3, <2>5 DEF ReportInv, Post, callers
<1>4. CASE UNCHANGED <<results, answer>>
  BY <1>1, <1>4 DEF ReportInv
<1>5. \/ \E r \in Requests : Receive(r)
      \/ Post
      \/ UNCHANGED <<results, answer>>
  BY DEF Next, Handler, Worker, Server, Connect, Arrive, Refuse, Enqueue, Take,
         Build, Attach, CallApi, ConnectOk, ConnectFail, ConnectTimeout, Compose,
         SelectSent, SelectTimeout, Quit, SendLock, SendAccept, SendReturn,
         LateConnect, vars, callers
<1> QED BY <1>2, <1>3, <1>4, <1>5

(* Every action keeps the count: Enqueue adds a handler that waits and a   *)
(* message, Take and Post move it along, Receive removes both.             *)
LEMMA CountStep ==
    ASSUME TypeOK, CountInv, [Next]_vars
    PROVE  CountInv'
<1> DEFINE W == Cardinality(Waiting)
<1>1. /\ W \in Nat
      /\ Len(jobs) \in Nat
      /\ Len(results) \in Nat
      /\ W = Len(jobs) + Busy + Len(results)
  BY FS_CardinalityType, LenProperties DEF CountInv, Conservation, TypeOK
<1>2. CASE \E r \in Requests : Enqueue(r)
  <2>1. PICK r \in Requests : Enqueue(r)
    BY <1>2
  <2>2. Waiting' = Waiting \cup {r} /\ r \notin Waiting
    BY <2>1 DEF Enqueue, Waiting, TypeOK
  <2>3. IsFiniteSet(Waiting') /\ Cardinality(Waiting') = W + 1
    BY <2>2, FS_AddElement DEF CountInv
  <2>4. Len(jobs') = Len(jobs) + 1 /\ Busy' = Busy /\ results' = results
    BY <2>1, AppendProperties DEF Enqueue, TypeOK, Busy
  <2> QED BY <1>1, <2>3, <2>4 DEF CountInv, Conservation, Busy
<1>3. CASE \E r \in Requests : Receive(r)
  <2>1. PICK r \in Requests : Receive(r)
    BY <1>3
  <2>2. Waiting' = Waiting \ {r} /\ r \in Waiting
    BY <2>1 DEF Receive, Waiting, TypeOK
  <2>3. IsFiniteSet(Waiting') /\ Cardinality(Waiting') = W - 1
    BY <2>2, FS_RemoveElement DEF CountInv
  <2>4. Len(results') = Len(results) - 1 /\ Busy' = Busy /\ jobs' = jobs
    BY <2>1, HeadTailProperties DEF Receive, TypeOK, Busy
  <2> QED BY <1>1, <2>3, <2>4 DEF CountInv, Conservation, Busy
<1>4. CASE Take
  <2>1. Waiting' = Waiting
    BY <1>4 DEF Take, callers, Waiting
  <2>2. Len(jobs') = Len(jobs) - 1 /\ cur' \in Requests /\ results' = results
    BY <1>4, HeadTailProperties DEF Take, TypeOK
  <2>3. Busy = 0 /\ Busy' = 1
    BY <1>4, <2>2, RequestsAssumption DEF Take, TypeOK, Busy
  <2> QED BY <1>1, <2>1, <2>2, <2>3 DEF CountInv, Conservation
<1>5. CASE Post
  <2>1. Waiting' = Waiting
    BY <1>5 DEF Post, callers, Waiting
  <2>2. [req |-> cur, ok |-> ok] \in Result
    BY <1>5 DEF Post, TypeOK, Result
  <2>3. Len(results') = Len(results) + 1 /\ jobs' = jobs
    BY <1>5, <2>2, AppendProperties DEF Post, TypeOK
  <2>4. Busy = 1 /\ Busy' = 0
    BY <1>5 DEF Post, TypeOK, Busy
  <2> QED BY <1>1, <2>1, <2>3, <2>4 DEF CountInv, Conservation
<1>6. CASE Waiting' = Waiting /\ UNCHANGED <<jobs, cur, results>>
  BY <1>6 DEF CountInv, Conservation, Busy
<1>7. \/ \E r \in Requests : Enqueue(r) \/ Receive(r) \/ Arrive(r) \/ Refuse(r)
      \/ Take
      \/ Post
      \/ UNCHANGED <<caller, jobs, cur, results>>
  BY DEF Next, Handler, Worker, Server, Connect, Build, Attach, CallApi,
         ConnectOk, ConnectFail, ConnectTimeout, Compose, SelectSent,
         SelectTimeout, Quit, SendLock, SendAccept, SendReturn, LateConnect, vars,
         callers
<1>8. ASSUME NEW r \in Requests, Arrive(r) \/ Refuse(r)
      PROVE  Waiting' = Waiting /\ UNCHANGED <<jobs, cur, results>>
  BY <1>8 DEF Arrive, Refuse, Waiting, TypeOK
<1>9. UNCHANGED caller => Waiting' = Waiting
  BY DEF Waiting
<1> QED BY <1>2, <1>3, <1>4, <1>5, <1>6, <1>7, <1>8, <1>9

(* The inductive invariant.                                                *)
THEOREM MailInvariant == Spec => []IInv
<1>1. Init => IInv
  <2> SUFFICES ASSUME Init PROVE IInv
    OBVIOUS
  <2>1. TypeOK
    <3>1. /\ jobs \in Seq(Requests) /\ Len(jobs) <= JobsCap
          /\ results \in Seq(Result) /\ Len(results) <= ResultsCap
      BY CapAssumption, EmptySeq DEF Init
    <3>2. /\ caller \in [Requests -> CallerState]
          /\ answer \in [Requests -> Result \cup {NoAnswer}]
          /\ client \in [Requests -> ClientState]
      BY DEF Init, CallerState, ClientState
    <3> QED BY <3>1, <3>2 DEF Init, TypeOK, Phase, SenderState
  <2>2. WorkerInv
    BY DEF Init, WorkerInv
  <2>3. Len(results) = 0 /\ Len(jobs) = 0
    BY EmptySeq DEF Init
  <2>4. ReportInv
    BY <2>3 DEF Init, ReportInv, NoAnswer
  <2>5. Waiting = {}
    BY DEF Init, Waiting
  <2>6. CountInv
    BY <2>3, <2>5, FS_EmptySet DEF Init, CountInv, Conservation, Busy
  <2> QED BY <2>1, <2>2, <2>4, <2>6 DEF IInv
<1>2. IInv /\ [Next]_vars => IInv'
  BY TypeStep, WorkerStep, ReportStep, CountStep DEF IInv
<1> QED BY <1>1, <1>2, PTL DEF Spec

(* Channels, worker and handlers stay within their types: in particular no *)
(* channel ever holds more than its capacity.                              *)
THEOREM MailTypeCorrect == Spec => []TypeOK
<1>1. IInv => TypeOK
  BY DEF IInv
<1> QED BY <1>1, MailInvariant, PTL

(* Every handler blocked on Results is owed exactly one result, whatever   *)
(* the number of handlers and the capacities of the two channels.          *)
THEOREM MailConservation == Spec => []Conservation
<1>1. IInv => Conservation
  BY DEF IInv, CountInv
<1> QED BY <1>1, MailInvariant, PTL

(* A result that says the mail was sent is about a mail that a server      *)
(* accepted.                                                               *)
THEOREM MailSuccessIsDelivery == Spec => []SuccessIsDelivery
<1>1. IInv => SuccessIsDelivery
  <2> SUFFICES ASSUME IInv, NEW x \in Reported, x.ok
               PROVE  x.req \in delivered
    BY DEF SuccessIsDelivery
  <2>1. CASE x \in {results[i] : i \in DOMAIN results}
    BY <2>1, LenProperties DEF IInv, ReportInv, TypeOK
  <2>2. CASE x \in {answer[r] : r \in {q \in Requests : caller[q] = "answered"}}
    BY <2>2 DEF IInv, ReportInv
  <2> QED BY <2>1, <2>2 DEF Reported
<1> QED BY <1>1, MailInvariant, PTL

(* While a handler waits, the mail is not stuck: there is a message in     *)
(* Jobs, the worker holds one, or a result is there to be taken.           *)
THEOREM MailNobodyStranded ==
    Spec => [](jobs = <<>> /\ cur = NoRequest /\ results = <<>> => Waiting = {})
<1>1. IInv => (jobs = <<>> /\ cur = NoRequest /\ results = <<>> => Waiting = {})
  BY EmptySeq, FS_EmptySet DEF IInv, CountInv, Conservation, Busy
<1> QED BY <1>1, MailInvariant, PTL

-----------------------------------------------------------------------------
(* Where each message is.  A handler puts its message into Jobs once, and  *)
(* from then on the message is in one place only: in Jobs, with the        *)
(* worker, in Results, or in the hands of a handler.                       *)
Sent == {r \in Requests : caller[r] \in {"waiting", "answered"}}

QueuedOnce ==
    \A i \in 1..Len(jobs) :
       /\ jobs[i] \in Sent
       /\ jobs[i] # cur
       /\ \A j \in 1..Len(jobs) : jobs[i] = jobs[j] => i = j

\* What a report may be about: what was sent, and is on its way no longer.
Settled == {m \in Sent : m # cur /\ \A i \in 1..Len(jobs) : jobs[i] # m}

PostedOnce ==
    \A i \in 1..Len(results) :
       /\ results[i].req \in Settled
       /\ \A j \in 1..Len(results) : results[i].req = results[j].req => i = j

TakenOnce ==
    \A r \in Requests : caller[r] = "answered" =>
       /\ answer[r] \in Result
       /\ answer[r].req \in Settled
       /\ \A i \in 1..Len(results) : results[i].req # answer[r].req
       /\ \A s \in Requests : caller[s] = "answered" /\ answer[s].req = answer[r].req
                               => r = s

OnceInv ==
    /\ cur # NoRequest => cur \in Sent
    /\ QueuedOnce
    /\ PostedOnce
    /\ TakenOnce

(* How far a message has come.  Nothing is delivered before its turn, and  *)
(* nothing that has been delivered is offered to a server again.           *)
OfferInv ==
    /\ delivered \subseteq Sent
    /\ \A i \in 1..Len(jobs) : jobs[i] \notin delivered
    /\ phase \in {"build", "attach", "api", "connect", "compose"} => cur \notin delivered
    /\ sender \in {"spawned", "locked"} => cur \notin delivered
    /\ phase = "compose" => client[cur] = "open"

(* What the steps of Send have found of the message.                       *)
SoundInv ==
    /\ phase \in {"attach", "api", "connect", "compose"} => defect[cur] # "template"
    /\ phase = "api" => defect[cur] # "attachment"
    /\ phase \in {"select", "quit"} => defect[cur] = "none"
    /\ OnlySoundMailDelivered

(* What is known of the connection of a mail that was sent through SMTP.   *)
ClosedInv ==
    /\ phase \in {"attach", "api"} => transport # "smtp"
    /\ transport = "smtp" =>
          /\ phase = "post" /\ ok => client[cur] = "closed"
          /\ \A i \in 1..Len(results) :
                results[i].ok => client[results[i].req] = "closed"
          /\ \A r \in Requests :
                caller[r] = "answered" /\ answer[r].ok => client[answer[r].req] = "closed"

MailInv == IInv /\ OnceInv /\ OfferInv /\ SoundInv /\ ClosedInv


(* What a step does to the places of a message: Enqueue, Take, Post and    *)
(* Receive move one along; the others leave all of them where they are.    *)
LEMMA Moves ==
    ASSUME TypeOK, [Next]_vars
    PROVE  \/ \E r \in Requests : Enqueue(r) \/ Receive(r)
           \/ Take
           \/ Post
           \/ /\ UNCHANGED <<jobs, cur, results, answer>>
              /\ \A r \in Requests : /\ (r \in Sent') = (r \in Sent)
                                     /\ (caller'[r] = "answered") = (caller[r] = "answered")
<1>1. ASSUME NEW r \in Requests, Arrive(r) \/ Refuse(r)
      PROVE  /\ UNCHANGED <<jobs, cur, results, answer>>
             /\ \A q \in Requests : /\ (q \in Sent') = (q \in Sent)
                                    /\ (caller'[q] = "answered") = (caller[q] = "answered")
  <2>1. \A q \in Requests : caller'[q] = caller[q] \/ (q = r /\ caller[r] = "idle"
                                              /\ caller'[r] \in {"sending", "refused"})
    BY <1>1 DEF Arrive, Refuse, TypeOK
  <2> QED BY <1>1, <2>1 DEF Arrive, Refuse, Sent
<1>2. UNCHANGED caller =>
        \A q \in Requests : /\ (q \in Sent') = (q \in Sent)
                            /\ (caller'[q] = "answered") = (caller[q] = "answered")
  BY DEF Sent
<1>3. \/ \E r \in Requests : Enqueue(r) \/ Receive(r) \/ Arrive(r) \/ Refuse(r)
      \/ Take
      \/ Post
      \/ UNCHANGED <<caller, jobs, cur, results, answer>>
  BY DEF Next, Handler, Worker, Server, Connect, Build, Attach, CallApi,
         ConnectOk, ConnectFail, ConnectTimeout, Compose, SelectSent,
         SelectTimeout, Quit, SendLock, SendAccept, SendReturn, LateConnect, vars,
         callers
<1> QED BY <1>1, <1>2, <1>3

(* The messages in Jobs and the reports in Results are typed.              *)
LEMMA Elements ==
    ASSUME TypeOK
    PROVE  /\ Len(jobs) \in Nat /\ Len(results) \in Nat
           /\ \A i \in 1..Len(jobs) : jobs[i] \in Requests
           /\ \A i \in 1..Len(results) : results[i] \in Result /\ results[i].req \in Requests
<1>1. jobs \in Seq(Requests) /\ results \in Seq(Result)  BY DEF TypeOK
<1>2. /\ Len(jobs) \in Nat /\ jobs \in [1..Len(jobs) -> Requests]
      /\ Len(results) \in Nat /\ results \in [1..Len(results) -> Result]
  BY <1>1, LenProperties
<1> QED BY <1>2 DEF Result

(* A handler that puts its message into Jobs had not sent it before.       *)
LEMMA OnceEnqueue ==
    ASSUME TypeOK, OnceInv, NEW r \in Requests, Enqueue(r)
    PROVE  OnceInv'
<1>1. /\ r \notin Sent /\ r \in Sent' /\ \A q \in Requests : q \in Sent => q \in Sent'
      /\ \A q \in Requests : caller'[q] = "answered" => caller[q] = "answered"
  BY DEF Enqueue, TypeOK, Sent
<1>2. UNCHANGED <<cur, results, answer>>  BY DEF Enqueue, callers
<1>3. /\ Len(jobs') = Len(jobs) + 1
      /\ \A i \in 1..Len(jobs) : jobs'[i] = jobs[i]
      /\ jobs'[Len(jobs) + 1] = r
  BY AppendProperties DEF Enqueue, TypeOK
<1>4. \A i \in 1..Len(jobs') : i \in 1..Len(jobs) \/ i = Len(jobs) + 1
  BY <1>3, Elements
<1>5. cur # r /\ \A i \in 1..Len(jobs) : jobs[i] # r
  <2>1. r # NoRequest  BY RequestsAssumption
  <2> QED BY <1>1, <2>1 DEF OnceInv, QueuedOnce
<1>6. QueuedOnce'
  <2>1. ASSUME NEW i \in 1..Len(jobs')
        PROVE  jobs'[i] \in Sent' /\ jobs'[i] # cur'
    BY <1>1, <1>2, <1>3, <1>4, <1>5, Elements DEF OnceInv, QueuedOnce
  <2>2. ASSUME NEW i \in 1..Len(jobs'), NEW j \in 1..Len(jobs'), jobs'[i] = jobs'[j]
        PROVE  i = j
    BY <1>3, <1>4, <1>5, <2>2 DEF OnceInv, QueuedOnce
  <2> QED BY <2>1, <2>2 DEF QueuedOnce
<1>7. ASSUME NEW m \in Requests, m \in Settled PROVE m \in Settled'
  <2>1. m # r  BY <1>1, <1>7 DEF Settled
  <2> QED BY <1>1, <1>2, <1>3, <1>4, <1>7, <2>1 DEF Settled
<1>8. PostedOnce'  BY <1>2, <1>7, Elements DEF OnceInv, PostedOnce
<1>9. TakenOnce'  BY <1>1, <1>2, <1>7 DEF OnceInv, TakenOnce, Result
<1>10. (cur # NoRequest => cur \in Sent)'  BY <1>1, <1>2 DEF OnceInv, TypeOK
<1> QED BY <1>6, <1>8, <1>9, <1>10 DEF OnceInv

(* The oldest message leaves Jobs for the worker.                          *)
LEMMA OnceTake ==
    ASSUME TypeOK, OnceInv, Take
    PROVE  OnceInv'
<1>1. UNCHANGED <<caller, results, answer>>  BY DEF Take, callers
<1>2. /\ Len(jobs') = Len(jobs) - 1
      /\ Len(jobs) \in Nat \ {0}
      /\ \A i \in 1..Len(jobs') : jobs'[i] = jobs[i + 1]
      /\ cur' = jobs[1] /\ cur' \in Requests
  BY HeadTailProperties, EmptySeq DEF Take, TypeOK
<1>3. 1 \in 1..Len(jobs) /\ \A i \in 1..Len(jobs') : i + 1 \in 1..Len(jobs) /\ i + 1 # 1
  BY <1>2
<1>4. QueuedOnce'
  <2>1. ASSUME NEW i \in 1..Len(jobs')
        PROVE  jobs'[i] \in Sent' /\ jobs'[i] # cur'
    BY <1>1, <1>2, <1>3 DEF OnceInv, QueuedOnce, Sent
  <2>2. ASSUME NEW i \in 1..Len(jobs'), NEW j \in 1..Len(jobs'), jobs'[i] = jobs'[j]
        PROVE  i = j
    <3>1. i + 1 = j + 1  BY <1>2, <1>3, <2>2 DEF OnceInv, QueuedOnce
    <3> QED BY <3>1
  <2> QED BY <2>1, <2>2 DEF QueuedOnce
<1>5. ASSUME NEW m, m \in Settled PROVE m \in Settled'
  <2>1. m # cur'  BY <1>2, <1>3, <1>5 DEF Settled
  <2>2. \A i \in 1..Len(jobs') : jobs'[i] # m  BY <1>2, <1>3, <1>5 DEF Settled
  <2> QED BY <1>1, <1>5, <2>1, <2>2 DEF Settled, Sent
<1>6. PostedOnce'  BY <1>1, <1>5 DEF OnceInv, PostedOnce
<1>7. TakenOnce'  BY <1>1, <1>5 DEF OnceInv, TakenOnce
<1>8. (cur # NoRequest => cur \in Sent)'  BY <1>1, <1>2, <1>3 DEF OnceInv, QueuedOnce, Sent
<1> QED BY <1>4, <1>6, <1>7, <1>8 DEF OnceInv

(* The worker reports its message, and holds it no longer.                 *)
LEMMA OncePost ==
    ASSUME TypeOK, OnceInv, Post
    PROVE  OnceInv'
<1>1. UNCHANGED <<caller, jobs, answer>> /\ cur' = NoRequest  BY DEF Post, callers
<1>2. cur \in Requests /\ cur # NoRequest /\ [req |-> cur, ok |-> ok] \in Result
  BY RequestsAssumption DEF Post, TypeOK, Result
<1>3. /\ Len(results') = Len(results) + 1
      /\ \A i \in 1..Len(results) : results'[i] = results[i]
      /\ results'[Len(results) + 1].req = cur
  BY <1>2, AppendProperties DEF Post, TypeOK
<1>4. \A i \in 1..Len(results') : i \in 1..Len(results) \/ i = Len(results) + 1
  BY <1>3, Elements
<1>5. QueuedOnce'
  <2>1. \A i \in 1..Len(jobs) : jobs[i] # NoRequest  BY Elements, RequestsAssumption
  <2> QED BY <1>1, <2>1 DEF OnceInv, QueuedOnce, Sent
<1>6. ASSUME NEW m \in Requests, m \in Settled \/ m = cur
      PROVE  m \in Settled'
  <2>1. m # cur'  BY <1>1, RequestsAssumption
  <2>2. m \in Sent /\ \A i \in 1..Len(jobs) : jobs[i] # m
    BY <1>2, <1>6 DEF OnceInv, Settled, QueuedOnce
  <2> QED BY <1>1, <2>1, <2>2 DEF Settled, Sent
<1>7. PostedOnce'
  <2>1. ASSUME NEW i \in 1..Len(results')
        PROVE  results'[i].req \in Settled'
    BY <1>2, <1>3, <1>4, <1>6, Elements DEF OnceInv, PostedOnce
  <2>2. ASSUME NEW i \in 1..Len(results'), NEW j \in 1..Len(results'),
               results'[i].req = results'[j].req
        PROVE  i = j
    <3>1. \A k \in 1..Len(results) : results[k].req # cur  BY DEF OnceInv, PostedOnce, Settled
    <3> QED BY <1>3, <1>4, <2>2, <3>1 DEF OnceInv, PostedOnce
  <2> QED BY <2>1, <2>2 DEF PostedOnce
<1>8. TakenOnce'
  <2>1. ASSUME NEW r \in Requests, caller[r] = "answered"
        PROVE  /\ answer[r] \in Result /\ answer[r].req \in Requests
               /\ answer[r].req \in Settled' /\ answer[r].req # cur
               /\ \A i \in 1..Len(results') : results'[i].req # answer[r].req
    <3>1. /\ answer[r] \in Result /\ answer[r].req \in Requests
          /\ answer[r].req \in Settled /\ answer[r].req # cur
          /\ \A i \in 1..Len(results) : results[i].req # answer[r].req
      BY <2>1 DEF OnceInv, TakenOnce, Settled, Result
    <3> QED BY <1>3, <1>4, <1>6, <3>1
  <2> QED BY <1>1, <2>1 DEF OnceInv, TakenOnce
<1>9. (cur # NoRequest => cur \in Sent)'  BY <1>1
<1> QED BY <1>5, <1>7, <1>8, <1>9 DEF OnceInv

(* The oldest report leaves Results for a handler.                         *)
LEMMA OnceReceive ==
    ASSUME TypeOK, OnceInv, NEW r \in Requests, Receive(r)
    PROVE  OnceInv'
<1>1. UNCHANGED <<jobs, cur>>  BY DEF Receive
<1>2. /\ \A q \in Requests : (q \in Sent') = (q \in Sent)
      /\ \A q \in Requests : caller'[q] = "answered" => q = r \/ caller[q] = "answered"
      /\ caller[r] # "answered"
  BY DEF Receive, TypeOK, Sent
<1>3. /\ Len(results') = Len(results) - 1
      /\ Len(results) \in Nat \ {0}
      /\ \A i \in 1..Len(results') : results'[i] = results[i + 1]
      /\ Head(results) = results[1]
  BY HeadTailProperties, EmptySeq DEF Receive, TypeOK
<1>4. 1 \in 1..Len(results) /\ \A i \in 1..Len(results') : i + 1 \in 1..Len(results) /\ i + 1 # 1
  BY <1>3
<1>5. \A q \in Requests : answer'[q] = IF q = r THEN results[1] ELSE answer[q]
  BY <1>3 DEF Receive, TypeOK
<1>6. ASSUME NEW m \in Requests, m \in Settled PROVE m \in Settled'
  BY <1>1, <1>2, <1>6 DEF Settled
<1>7. QueuedOnce'  BY <1>1, <1>2, Elements DEF OnceInv, QueuedOnce
<1>8. PostedOnce'
  <2>1. ASSUME NEW i \in 1..Len(results')
        PROVE  results'[i].req \in Settled'
    BY <1>3, <1>4, <1>6, Elements DEF OnceInv, PostedOnce
  <2>2. ASSUME NEW i \in 1..Len(results'), NEW j \in 1..Len(results'),
               results'[i].req = results'[j].req
        PROVE  i = j
    <3>1. i + 1 = j + 1  BY <1>3, <1>4, <2>2 DEF OnceInv, PostedOnce
    <3> QED BY <3>1
  <2> QED BY <2>1, <2>2 DEF PostedOnce
<1>9. TakenOnce'
  <2>1. ASSUME NEW q \in Requests, caller'[q] = "answered"
        PROVE  /\ answer'[q] \in Result
               /\ answer'[q].req \in Settled'
               /\ \A i \in 1..Len(results') : results'[i].req # answer'[q].req
    <3>1. CASE q = r
      <4>1. /\ results[1] \in Result /\ results[1].req \in Requests
            /\ results[1].req \in Settled
        BY <1>4, Elements DEF OnceInv, PostedOnce
      <4>2. \A i \in 1..Len(results') : results'[i].req # results[1].req
        BY <1>3, <1>4 DEF OnceInv, PostedOnce
      <4> QED BY <1>5, <1>6, <3>1, <4>1, <4>2
    <3>2. CASE q # r
      <4>1. caller[q] = "answered" /\ answer'[q] = answer[q]  BY <1>2, <1>5, <2>1, <3>2
      <4>2. /\ answer[q] \in Result /\ answer[q].req \in Requests
            /\ answer[q].req \in Settled
            /\ \A i \in 1..Len(results) : results[i].req # answer[q].req
        BY <4>1 DEF OnceInv, TakenOnce, Result
      <4> QED BY <1>3, <1>4, <1>6, <4>1, <4>2
    <3> QED BY <3>1, <3>2
  <2>2. ASSUME NEW q \in Requests, NEW s \in Requests, caller'[q] = "answered",
               caller'[s] = "answered", answer'[s].req = answer'[q].req
        PROVE  q = s
    <3>1. ASSUME NEW t \in Requests, caller'[t] = "answered", t # r
          PROVE  /\ caller[t] = "answered" /\ answer'[t] = answer[t]
                 /\ answer[t].req # results[1].req
      BY <1>2, <1>4, <1>5, <3>1 DEF OnceInv, TakenOnce
    <3>2. answer'[r] = results[1]  BY <1>5
    <3> QED BY <2>2, <3>1, <3>2 DEF OnceInv, TakenOnce
  <2> QED BY <2>1, <2>2 DEF TakenOnce
<1>10. (cur # NoRequest => cur \in Sent)'  BY <1>1, <1>2 DEF OnceInv, TypeOK
<1> QED BY <1>7, <1>8, <1>9, <1>10 DEF OnceInv

(* Every action keeps each message in one place.                           *)
LEMMA OnceStep ==
    ASSUME TypeOK, OnceInv, [Next]_vars
    PROVE  OnceInv'
<1>1. ASSUME UNCHANGED <<jobs, cur, results, answer>>,
             \A r \in Requests : /\ (r \in Sent') = (r \in Sent)
                                 /\ (caller'[r] = "answered") = (caller[r] = "answered")
      PROVE  OnceInv'
  <2>1. ASSUME NEW m \in Requests PROVE (m \in Settled') = (m \in Settled)
    BY <1>1 DEF Settled
  <2>2. QueuedOnce'  BY <1>1, Elements DEF OnceInv, QueuedOnce
  <2>3. PostedOnce'  BY <1>1, <2>1, Elements DEF OnceInv, PostedOnce
  <2>4. TakenOnce'  BY <1>1, <2>1 DEF OnceInv, TakenOnce, Result
  <2>5. (cur # NoRequest => cur \in Sent)'  BY <1>1 DEF OnceInv, TypeOK
  <2> QED BY <2>2, <2>3, <2>4, <2>5 DEF OnceInv
<1> QED BY <1>1, Moves, OnceEnqueue, OnceReceive, OnceTake, OncePost

(* Whom an action of the worker or of a server works for.                  *)
LEMMA WorksForCur ==
    ASSUME TypeOK, WorkerInv, OnceInv, phase # "idle" \/ sender # "none"
    PROVE  /\ cur \in Requests /\ cur \in Sent
           /\ phase # "idle" /\ (sender # "none" => phase \in {"select", "quit"})
           /\ \A i \in 1..Len(jobs) : jobs[i] # cur
BY DEF TypeOK, WorkerInv, OnceInv, QueuedOnce

(* What handlers send is not delivered before the worker takes it.         *)
LEMMA OfferHandler ==
    ASSUME TypeOK, WorkerInv, OnceInv, OfferInv, NEW r \in Requests,
           Handler(r) \/ LateConnect(r)
    PROVE  OfferInv'
<1> USE DEF OfferInv, callers
<1>1. CASE Enqueue(r)
  <2>1. r \notin Sent /\ Sent \subseteq Sent'  BY <1>1 DEF Enqueue, TypeOK, Sent
  <2>2. UNCHANGED <<cur, phase, sender, client, delivered>>  BY <1>1 DEF Enqueue
  <2>3. \A i \in 1..Len(jobs') : jobs'[i] = r \/ (i \in 1..Len(jobs) /\ jobs'[i] = jobs[i])
    <3>1. /\ Len(jobs') = Len(jobs) + 1 /\ Len(jobs) \in Nat
          /\ \A i \in 1..Len(jobs) : jobs'[i] = jobs[i]
          /\ jobs'[Len(jobs) + 1] = r
      BY <1>1, AppendProperties, Elements DEF Enqueue, TypeOK
    <3>2. \A i \in 1..Len(jobs') : i \in 1..Len(jobs) \/ i = Len(jobs) + 1  BY <3>1
    <3> QED BY <3>1, <3>2
  <2> QED BY <2>1, <2>2, <2>3
<1>2. CASE Arrive(r) \/ Refuse(r) \/ Receive(r)
  <2>1. Sent \subseteq Sent'  BY <1>2 DEF Arrive, Refuse, Receive, TypeOK, Sent
  <2>2. UNCHANGED <<jobs, cur, phase, sender, client, delivered>>
    BY <1>2 DEF Arrive, Refuse, Receive
  <2> QED BY <2>1, <2>2
<1>3. CASE LateConnect(r)
  <2>1. UNCHANGED <<caller, jobs, cur, phase, sender, delivered>> /\ Sent' = Sent
    BY <1>3 DEF LateConnect, Sent
  <2>2. \A q \in Requests : client[q] = "open" => client'[q] = "open"
    BY <1>3 DEF LateConnect, TypeOK
  <2>3. phase = "compose" => cur \in Requests  BY WorksForCur
  <2> QED BY <2>1, <2>2, <2>3
<1> QED BY <1>1, <1>2, <1>3 DEF Handler

(* The worker offers only its own message, and only once.                  *)
LEMMA OfferWorker ==
    ASSUME TypeOK, WorkerInv, OnceInv, OfferInv, Worker
    PROVE  OfferInv'
<1>0. delivered' = delivered /\ Sent' = Sent
  BY DEF Worker, Connect, Take, Build, Attach, ConnectOk, ConnectFail, ConnectTimeout,
         Compose, SelectSent, SelectTimeout, Quit, Post, callers, Sent
<1>1. CASE Take
  <2>1. /\ Len(jobs') = Len(jobs) - 1 /\ Len(jobs) \in Nat \ {0}
        /\ \A i \in 1..Len(jobs') : jobs'[i] = jobs[i + 1]
        /\ cur' = jobs[1]
    BY <1>1, HeadTailProperties, EmptySeq DEF Take, TypeOK
  <2>2. 1 \in 1..Len(jobs) /\ \A i \in 1..Len(jobs') : i + 1 \in 1..Len(jobs)  BY <2>1
  <2>3. cur' \notin delivered /\ \A i \in 1..Len(jobs') : jobs'[i] \notin delivered
    BY <2>1, <2>2 DEF OfferInv
  <2>4. phase' \in {"build", "post"} /\ sender' = sender /\ sender = "none"
    BY <1>1 DEF Take, Return, Continue, WorkerInv
  <2> QED BY <1>0, <2>3, <2>4 DEF OfferInv
<1>2. CASE Build \/ Attach
  <2>1. /\ UNCHANGED <<jobs, cur, sender, client>>
        /\ phase' \in {"post", "connect", "attach", "api"}
        /\ phase \in {"build", "attach"}
    BY <1>2 DEF Build, Attach, Return, Continue
  <2> QED BY <1>0, <2>1 DEF OfferInv
<1>3. CASE Connect
  <2>1. /\ UNCHANGED <<jobs, cur, sender>> /\ phase = "connect"
        /\ phase' \in {"post", "compose"}
        /\ phase' = "compose" => client' = [client EXCEPT ![cur] = "open"]
    BY <1>3 DEF Connect, ConnectOk, ConnectFail, ConnectTimeout, Return, Continue
  <2>2. phase' = "compose" => client'[cur] = "open"  BY <2>1, WorksForCur DEF TypeOK
  <2> QED BY <1>0, <2>1, <2>2 DEF OfferInv
<1>4. CASE Compose
  BY <1>0, <1>4 DEF Compose, Return, Continue, OfferInv
<1>5. CASE SelectSent \/ SelectTimeout
  BY <1>0, <1>5 DEF SelectSent, SelectTimeout, OfferInv
<1>6. CASE Quit
  BY <1>0, <1>6 DEF Quit, OfferInv
<1>7. CASE Post
  BY <1>0, <1>7 DEF Post, OfferInv, WorkerInv
<1> QED BY <1>1, <1>2, <1>3, <1>4, <1>5, <1>6, <1>7 DEF Worker

(* What a server accepts is the message that the worker holds.             *)
LEMMA OfferServer ==
    ASSUME TypeOK, WorkerInv, OnceInv, OfferInv, SendLock \/ Server
    PROVE  OfferInv'
<1> USE DEF OfferInv
<1>0. UNCHANGED <<jobs, cur, client>> /\ Sent' = Sent
  BY DEF Server, SendLock, CallApi, SendAccept, SendReturn, callers, Sent
<1>1. CASE SendLock \/ SendReturn
  BY <1>0, <1>1 DEF SendLock, SendReturn
<1>2. CASE CallApi
  <2>1. /\ phase = "api" /\ phase' = "post" /\ sender' = sender
        /\ delivered' \in {delivered, delivered \cup {cur}}
    BY <1>2 DEF CallApi, Return
  <2> QED BY <1>0, <2>1, WorksForCur
<1>3. CASE SendAccept
  <2>1. /\ sender = "locked" /\ sender' = "accepted" /\ phase' = phase
        /\ delivered' = delivered \cup {cur}
    BY <1>3 DEF SendAccept
  <2> QED BY <1>0, <2>1, WorksForCur
<1> QED BY <1>1, <1>2, <1>3 DEF Server

LEMMA OfferStep ==
    ASSUME TypeOK, WorkerInv, OnceInv, OfferInv, [Next]_vars
    PROVE  OfferInv'
<1>1. UNCHANGED vars => OfferInv'  BY DEF vars, OfferInv, Sent
<1> QED BY <1>1, OfferHandler, OfferWorker, OfferServer DEF Next

-----------------------------------------------------------------------------
(* What Send has found of the message that the worker holds it still knows *)
(* when a server is asked to take it.                                      *)
LEMMA SoundStep ==
    ASSUME TypeOK, WorkerInv, SoundInv, [Next]_vars
    PROVE  SoundInv'
<1> USE DEF SoundInv, OnlySoundMailDelivered, Return, Continue, config, callers
<1>0. defect' = defect
  BY DEF Next, Handler, Worker, Server, Connect, Arrive, Refuse, Enqueue, Receive,
         Take, Build, Attach, CallApi, ConnectOk, ConnectFail, ConnectTimeout,
         Compose, SelectSent, SelectTimeout, Quit, Post, SendLock, SendAccept,
         SendReturn, LateConnect, vars
<1>1. CASE \E r \in Requests : Handler(r) \/ LateConnect(r)
  BY <1>0, <1>1 DEF Handler, Arrive, Refuse, Enqueue, Receive, LateConnect
<1>2. CASE Take \/ Post
  BY <1>0, <1>2 DEF Take, Post
<1>3. CASE Build \/ Attach \/ Connect
  BY <1>0, <1>3 DEF Build, Attach, Connect, ConnectOk, ConnectFail, ConnectTimeout
<1>4. CASE Compose
  <2>1. phase = "compose" => defect[cur] \in Defect /\ defect[cur] # "template"
    BY DEF TypeOK
  <2> QED BY <1>0, <1>4, <2>1 DEF Compose, Defect
<1>5. CASE SelectSent \/ SelectTimeout \/ Quit
  BY <1>0, <1>5 DEF SelectSent, SelectTimeout, Quit
<1>6. CASE SendLock \/ SendReturn
  BY <1>0, <1>6 DEF SendLock, SendReturn
<1>7. CASE SendAccept
  BY <1>0, <1>7 DEF SendAccept, WorkerInv
<1>8. CASE CallApi
  <2>1. phase = "api" => defect[cur] \in Defect /\ defect[cur] \notin {"template", "attachment"}
    BY DEF TypeOK
  <2>2. phase = "api" /\ phase' = "post"  BY <1>8 DEF CallApi
  <2>3. \A r \in delivered' : r \in delivered \/ (r = cur /\ defect[cur] # "address")
    BY <1>8 DEF CallApi
  <2> QED BY <1>0, <2>1, <2>2, <2>3 DEF Defect
<1>9. CASE UNCHANGED vars
  BY <1>9 DEF vars
<1> QED BY <1>1, <1>2, <1>3, <1>4, <1>5, <1>6, <1>7, <1>8, <1>9 DEF Next, Worker, Server

-----------------------------------------------------------------------------
(* Only the worker opens a connection, for its own message; an answer that *)
(* comes late comes to a connection that is not closed.                    *)
LEMMA ClosedStays ==
    ASSUME TypeOK, [Next]_vars, NEW m \in Requests, client[m] = "closed",
           m # cur \/ phase # "connect"
    PROVE  client'[m] = "closed"
<1>1. CASE Connect \/ Quit
  BY <1>1 DEF Connect, ConnectOk, ConnectFail, ConnectTimeout, Quit, TypeOK
<1>2. CASE \E r \in Requests : LateConnect(r)
  BY <1>2 DEF LateConnect, TypeOK
<1>3. CASE UNCHANGED client
  BY <1>3
<1>4. Connect \/ Quit \/ (\E r \in Requests : LateConnect(r)) \/ UNCHANGED client
  BY DEF Next, Handler, Worker, Server, Arrive, Refuse, Enqueue, Receive, Take, Build,
         Attach, CallApi, Compose, SelectSent, SelectTimeout, Post, SendLock,
         SendAccept, SendReturn, vars
<1> QED BY <1>1, <1>2, <1>3, <1>4

(* Send returns a success through SMTP only from Quit.                     *)
LEMMA ClosedSend ==
    ASSUME TypeOK, WorkerInv, OnceInv, ClosedInv, [Next]_vars
    PROVE  /\ transport' = transport
           /\ phase' \in {"attach", "api"} => transport # "smtp"
           /\ transport = "smtp" /\ phase' = "post" /\ ok' => client'[cur'] = "closed"
<1> USE DEF ClosedInv, Return, Continue, config, callers
<1>0. transport' = transport
  BY DEF Next, Handler, Worker, Server, Connect, Arrive, Refuse, Enqueue, Receive,
         Take, Build, Attach, CallApi, ConnectOk, ConnectFail, ConnectTimeout,
         Compose, SelectSent, SelectTimeout, Quit, Post, SendLock, SendAccept,
         SendReturn, LateConnect, vars
<1>1. CASE UNCHANGED <<phase, ok, cur>>
  <2>1. phase = "post" => cur \in Requests  BY WorksForCur
  <2>2. ASSUME transport = "smtp", phase = "post", ok PROVE client'[cur] = "closed"
    BY <2>1, <2>2, ClosedStays
  <2> QED BY <1>0, <1>1, <2>2
<1>2. CASE Take \/ Build \/ Attach \/ Connect \/ Compose \/ SelectSent \/ SelectTimeout \/ Post
  BY <1>0, <1>2 DEF Take, Build, Attach, Connect, ConnectOk, ConnectFail, ConnectTimeout,
       Compose, SelectSent, SelectTimeout, Post
<1>3. CASE Quit
  <2>1. cur \in Requests /\ cur' = cur  BY <1>3, WorksForCur DEF Quit
  <2> QED BY <1>0, <1>3, <2>1 DEF Quit, TypeOK
<1>4. CASE CallApi
  BY <1>0, <1>4 DEF CallApi
<1>5. \/ Take \/ Build \/ Attach \/ Connect \/ Compose \/ SelectSent \/ SelectTimeout \/ Post
      \/ Quit \/ CallApi \/ UNCHANGED <<phase, ok, cur>>
  BY DEF Next, Handler, Worker, Server, Arrive, Refuse, Enqueue, Receive, SendLock,
         SendAccept, SendReturn, LateConnect, vars
<1> QED BY <1>1, <1>2, <1>3, <1>4, <1>5

(* A report of success is posted when the connection is closed, and nobody *)
(* opens one for its message again.                                        *)
LEMMA ClosedStep ==
    ASSUME TypeOK, WorkerInv, OnceInv, ClosedInv, [Next]_vars
    PROVE  ClosedInv'
<1>1. SUFFICES ASSUME transport = "smtp"
               PROVE  /\ \A i \in 1..Len(results') :
                            results'[i].ok => client'[results'[i].req] = "closed"
                      /\ \A r \in Requests : caller'[r] = "answered" /\ answer'[r].ok
                                               => client'[answer'[r].req] = "closed"
  BY ClosedSend DEF ClosedInv
<1>2. ASSUME NEW i \in 1..Len(results), results[i].ok
      PROVE  client'[results[i].req] = "closed"
  <2>1. results[i].req \in Requests /\ results[i].req # cur
    BY Elements DEF OnceInv, PostedOnce, Settled
  <2>2. client[results[i].req] = "closed"  BY <1>1, <1>2 DEF ClosedInv
  <2> QED BY <2>1, <2>2, ClosedStays
<1>3. ASSUME NEW r \in Requests, caller[r] = "answered", answer[r].ok
      PROVE  client'[answer[r].req] = "closed"
  <2>1. answer[r].req \in Requests /\ answer[r].req # cur
    BY <1>3 DEF OnceInv, TakenOnce, Settled, Result
  <2>2. client[answer[r].req] = "closed"  BY <1>1, <1>3 DEF ClosedInv
  <2> QED BY <2>1, <2>2, ClosedStays
<1>4. CASE \E r \in Requests : Enqueue(r)
  <2>1. PICK r \in Requests : Enqueue(r)  BY <1>4
  <2>2. UNCHANGED <<results, answer>> /\ \A q \in Requests :
           caller'[q] = "answered" => caller[q] = "answered"
    BY <2>1 DEF Enqueue, TypeOK
  <2> QED BY <1>2, <1>3, <2>2
<1>5. CASE \E r \in Requests : Receive(r)
  <2>1. PICK r \in Requests : Receive(r)  BY <1>5
  <2>2. /\ Len(results') = Len(results) - 1 /\ Len(results) \in Nat \ {0}
        /\ \A i \in 1..Len(results') : results'[i] = results[i + 1]
        /\ Head(results) = results[1]
    BY <2>1, HeadTailProperties, EmptySeq DEF Receive, TypeOK
  <2>3. 1 \in 1..Len(results) /\ \A i \in 1..Len(results') : i + 1 \in 1..Len(results)
    BY <2>2
  <2>4. \A q \in Requests : /\ q = r => answer'[q] = results[1]
                            /\ q # r => answer'[q] = answer[q] /\ caller'[q] = caller[q]
    BY <2>1, <2>2 DEF Receive, TypeOK
  <2>5. ASSUME NEW i \in 1..Len(results'), results'[i].ok
        PROVE  client'[results'[i].req] = "closed"
    BY <1>2, <2>2, <2>3, <2>5
  <2>6. ASSUME NEW q \in Requests, caller'[q] = "answered", answer'[q].ok
        PROVE  client'[answer'[q].req] = "closed"
    <3>1. CASE q = r  BY <1>2, <2>3, <2>4, <2>6, <3>1
    <3>2. CASE q # r  BY <1>3, <2>4, <2>6, <3>2
    <3> QED BY <3>1, <3>2
  <2> QED BY <2>5, <2>6
<1>6. CASE Post
  <2>1. cur \in Requests /\ [req |-> cur, ok |-> ok] \in Result /\ phase = "post"
    BY <1>6 DEF Post, TypeOK, Result
  <2>2. /\ Len(results') = Len(results) + 1 /\ Len(results) \in Nat
        /\ \A i \in 1..Len(results) : results'[i] = results[i]
        /\ results'[Len(results) + 1] = [req |-> cur, ok |-> ok]
    BY <1>6, <2>1, AppendProperties, Elements DEF Post, TypeOK
  <2>3. \A i \in 1..Len(results') : i \in 1..Len(results) \/ i = Len(results) + 1
    BY <2>2
  <2>4. ok => client'[cur] = "closed"  BY <1>1, <2>1, ClosedStays DEF ClosedInv
  <2>5. UNCHANGED <<caller, answer>>  BY <1>6 DEF Post, callers
  <2> QED BY <1>2, <1>3, <2>2, <2>3, <2>4, <2>5
<1>7. CASE UNCHANGED results /\ UNCHANGED answer /\
           \A r \in Requests : (caller'[r] = "answered") = (caller[r] = "answered")
  BY <1>2, <1>3, <1>7
<1>8. CASE Take
  BY <1>7, <1>8 DEF Take, callers
<1> QED BY <1>4, <1>5, <1>6, <1>7, <1>8, Moves

(* All parts of the invariant together.                                    *)
LEMMA MailInvHolds == Spec => []MailInv
<1>1. Init => OnceInv /\ OfferInv /\ SoundInv /\ ClosedInv
  <2> SUFFICES ASSUME Init PROVE OnceInv /\ OfferInv /\ SoundInv /\ ClosedInv
    OBVIOUS
  <2>1. Len(results) = 0 /\ Len(jobs) = 0  BY EmptySeq DEF Init
  <2>2. OnceInv
    BY <2>1 DEF Init, OnceInv, QueuedOnce, PostedOnce, TakenOnce
  <2>3. OfferInv /\ SoundInv  BY <2>1 DEF Init, OfferInv, SoundInv, OnlySoundMailDelivered
  <2>4. ClosedInv  BY <2>1 DEF Init, ClosedInv
  <2> QED BY <2>2, <2>3, <2>4
<1>2. IInv /\ OnceInv /\ OfferInv /\ SoundInv /\ ClosedInv /\ [Next]_vars
        => (OnceInv /\ OfferInv /\ SoundInv /\ ClosedInv)'
  BY OnceStep, OfferStep, SoundStep, ClosedStep DEF IInv
<1> QED BY <1>1, <1>2, MailInvariant, PTL DEF Spec, MailInv

(* No message is answered for twice, or while it is still on its way, for  *)
(* any number of handlers and any capacity of the channels: two handlers   *)
(* may take each other's result, but never the same one.                   *)
THEOREM MailOneResult == Spec => []OneResultPerMessage
<1>1. MailInv => OneResultPerMessage
  <2> SUFFICES ASSUME MailInv PROVE OneResultPerMessage
    OBVIOUS
  <2>1. ASSUME NEW x \in Reported PROVE x.req \in Settled
    <3>1. \A i \in DOMAIN results : results[i].req \in Settled
      BY LenProperties DEF MailInv, IInv, TypeOK, OnceInv, PostedOnce
    <3>2. \A r \in Requests : caller[r] = "answered" => answer[r].req \in Settled
      BY DEF MailInv, OnceInv, TakenOnce
    <3> QED BY <3>1, <3>2 DEF Reported
  <2>2. ASSUME NEW m \in Settled PROVE m \notin InFlight
    <3>1. \A i \in DOMAIN jobs : jobs[i] # m
      BY LenProperties DEF MailInv, IInv, TypeOK, Settled
    <3> QED BY <3>1 DEF InFlight, Settled
  <2>3. \A r, s \in Requests :
           caller[r] = "answered" /\ caller[s] = "answered" /\ answer[r].req = answer[s].req
           => r = s
    BY DEF MailInv, OnceInv, TakenOnce
  <2> QED BY <2>1, <2>2, <2>3 DEF OneResultPerMessage
<1> QED BY <1>1, MailInvHolds, PTL

(* A mail that is reported as sent through SMTP has left no connection     *)
(* open and no goroutine that may open one.                                *)
THEOREM MailSuccessCloses == Spec => []SuccessClosesConnection
<1>1. MailInv => SuccessClosesConnection
  <2> SUFFICES ASSUME MailInv, transport = "smtp", NEW x \in Reported, x.ok
               PROVE  client[x.req] = "closed"
    BY DEF SuccessClosesConnection
  <2>1. \A i \in DOMAIN results : results[i].ok => client[results[i].req] = "closed"
    BY LenProperties DEF MailInv, IInv, TypeOK, ClosedInv
  <2>2. \A r \in Requests : caller[r] = "answered" /\ answer[r].ok
                              => client[answer[r].req] = "closed"
    BY DEF MailInv, ClosedInv
  <2> QED BY <2>1, <2>2 DEF Reported
<1> QED BY <1>1, MailInvHolds, PTL

(* Of a message with a bad template, attachment or address no server ever  *)
(* accepts anything.                                                       *)
THEOREM MailOnlySound == Spec => []OnlySoundMailDelivered
<1>1. MailInv => OnlySoundMailDelivered  BY DEF MailInv, SoundInv
<1> QED BY <1>1, MailInvHolds, PTL

(* The worker starts a send only for a mail that no server has accepted    *)
(* and on a connection that is open: whatever timed out or was lost, no    *)
(* mail is sent twice.                                                     *)
THEOREM MailNeverResent == Spec => NeverResent
<1>1. MailInv /\ [Next]_vars =>
        [sender = "none" /\ sender' = "spawned"
           => cur \notin delivered /\ client[cur] = "open"]_vars
  <2> SUFFICES ASSUME MailInv, Next, sender = "none", sender' = "spawned"
               PROVE  cur \notin delivered /\ client[cur] = "open"
    OBVIOUS
  <2>1. Compose
    BY DEF Next, Handler, Worker, Server, Connect, Arrive, Refuse, Enqueue, Receive,
           Take, Build, Attach, CallApi, ConnectOk, ConnectFail, ConnectTimeout,
           SelectSent, SelectTimeout, Quit, Post, SendLock, SendAccept, SendReturn,
           LateConnect
  <2> QED BY <2>1 DEF Compose, MailInv, OfferInv
<1> QED BY <1>1, MailInvHolds, PTL DEF Spec, NeverResent

-----------------------------------------------------------------------------
(* The refinement of MailService: the message that the worker holds is     *)
(* still the head of the service's queue.                                  *)
Holding == IF cur = NoRequest THEN <<>> ELSE <<cur>>
Queue == Holding \o jobs

(* An element in front of a sequence is its head.                          *)
LEMMA InFront ==
    ASSUME NEW S, NEW e \in S, NEW s \in Seq(S)
    PROVE  /\ <<e>> \o s \in Seq(S) /\ <<e>> \o s # <<>>
           /\ Len(<<e>> \o s) = Len(s) + 1
           /\ Head(<<e>> \o s) = e /\ Tail(<<e>> \o s) = s
<1> DEFINE t == <<e>> \o s
<1>1. <<e>> \in Seq(S) /\ Len(<<e>>) = 1 /\ <<e>>[1] = e  OBVIOUS
<1>2. /\ t \in Seq(S) /\ Len(t) = 1 + Len(s)
      /\ \A i \in 1..(1 + Len(s)) : t[i] = IF i <= 1 THEN <<e>>[i] ELSE s[i - 1]
  BY <1>1, ConcatProperties
<1>3. Len(s) \in Nat  BY LenProperties
<1> HIDE DEF t
<1>4. t # <<>>  BY <1>2, <1>3, EmptySeq
<1>5. t[1] = e  BY <1>1, <1>2, <1>3
<1>6. Head(t) = e  BY <1>4, <1>5
<1>7. /\ Tail(t) \in Seq(S) /\ Len(Tail(t)) = Len(s)
      /\ \A i \in 1..Len(Tail(t)) : Tail(t)[i] = t[i + 1]
  BY <1>2, <1>3, <1>4, HeadTailProperties
<1>8. \A i \in 1..Len(Tail(t)) : Tail(t)[i] = s[i]  BY <1>2, <1>3, <1>7
<1>9. Tail(t) = s  BY <1>7, <1>8, SeqEqual
<1> QED BY <1>2, <1>3, <1>4, <1>6, <1>9 DEF t

(* A sequence is its head in front of its tail.                            *)
LEMMA HeadInFront ==
    ASSUME NEW S, NEW s \in Seq(S), s # <<>>
    PROVE  <<Head(s)>> \o Tail(s) = s
<1> DEFINE t == <<Head(s)>> \o Tail(s)
<1>1. /\ Head(s) \in S /\ Tail(s) \in Seq(S) /\ Len(Tail(s)) = Len(s) - 1
      /\ \A i \in 1..Len(Tail(s)) : Tail(s)[i] = s[i + 1]
      /\ Len(s) \in Nat \ {0} /\ Head(s) = s[1]
  BY HeadTailProperties, EmptySeq
<1>2. <<Head(s)>> \in Seq(S) /\ Len(<<Head(s)>>) = 1 /\ <<Head(s)>>[1] = Head(s)
  BY <1>1
<1>3. /\ t \in Seq(S) /\ Len(t) = Len(s)
      /\ \A i \in 1..Len(s) : t[i] = IF i <= 1 THEN <<Head(s)>>[i] ELSE Tail(s)[i - 1]
  BY <1>1, <1>2, ConcatProperties
<1> HIDE DEF t
<1>4. \A i \in 1..Len(s) : t[i] = s[i]  BY <1>1, <1>2, <1>3
<1>5. t = s  BY <1>3, <1>4, SeqEqual
<1> QED BY <1>5 DEF t

(* The queue of the service, in either state of the worker.                *)
LEMMA QueueIs ==
    ASSUME TypeOK
    PROVE  /\ Holding \in Seq(Requests) /\ jobs \in Seq(Requests) /\ Queue \in Seq(Requests)
           /\ Len(Queue) <= JobsCap + 1 /\ (Len(jobs) < JobsCap => Len(Queue) < JobsCap + 1)
           /\ cur = NoRequest => Queue = jobs
           /\ cur # NoRequest => Queue # <<>> /\ Head(Queue) = cur /\ Tail(Queue) = jobs
<1>1. /\ jobs \in Seq(Requests) /\ Len(jobs) \in Nat /\ Len(jobs) <= JobsCap
      /\ cur \in Requests \cup {NoRequest} /\ JobsCap \in Nat
  BY LenProperties, CapAssumption DEF TypeOK
<1>2. CASE cur = NoRequest
  <2>1. Holding = <<>>  BY <1>2 DEF Holding
  <2>2. Queue = jobs  BY <1>1, <2>1, ConcatEmptySeq DEF Queue
  <2>3. <<>> \in Seq(Requests)  BY EmptySeq
  <2> QED BY <1>1, <1>2, <2>1, <2>2, <2>3
<1>3. CASE cur # NoRequest
  <2>1. Holding = <<cur>> /\ cur \in Requests  BY <1>1, <1>3 DEF Holding
  <2>2. /\ Queue \in Seq(Requests) /\ Queue # <<>> /\ Len(Queue) = Len(jobs) + 1
        /\ Head(Queue) = cur /\ Tail(Queue) = jobs
    BY <1>1, <2>1, InFront DEF Queue
  <2>3. <<cur>> \in Seq(Requests)  BY <2>1
  <2> QED BY <1>1, <1>3, <2>1, <2>2, <2>3
<1> QED BY <1>2, <1>3

(* What the service sees of the steps that do not concern it.              *)
LEMMA Unseen ==
    ASSUME UNCHANGED <<caller, jobs, cur, results, answer, delivered>>
    PROVE  UNCHANGED Service!vars
BY DEF Service!vars

(* A handler's step is one of a sender.                                    *)
LEMMA HandlerRefines ==
    ASSUME MailInv, NEW r \in Requests, Handler(r)
    PROVE  Service!Next
<1>1. TypeOK  BY DEF MailInv, IInv
<1>2. CASE Arrive(r) \/ Refuse(r)
  <2>1. Service!Decide(r)  BY <1>2 DEF Arrive, Refuse, Service!Decide
  <2> QED BY <2>1 DEF Service!Next
<1>3. CASE Enqueue(r)
  <2>1. /\ caller[r] = "sending" /\ Len(jobs) < JobsCap /\ jobs' = Append(jobs, r)
        /\ caller' = [caller EXCEPT ![r] = "waiting"]
        /\ UNCHANGED <<cur, answer, results, delivered>>
    BY <1>3 DEF Enqueue
  <2>2. Queue' = Append(Queue, r)
    <3>1. Queue' = Holding \o Append(jobs, r)  BY <2>1 DEF Queue, Holding
    <3>2. Append(jobs, r) = jobs \o <<r>> /\ Append(Queue, r) = Queue \o <<r>>
      BY <1>1, QueueIs, AppendIsConcat
    <3>3. <<r>> \in Seq(Requests)  OBVIOUS
    <3>4. Holding \o (jobs \o <<r>>) = (Holding \o jobs) \o <<r>>
      BY <1>1, <3>3, QueueIs, ConcatAssociative
    <3> QED BY <3>1, <3>2, <3>4 DEF Queue
  <2>3. Len(Queue) < JobsCap + 1  BY <1>1, <2>1, QueueIs
  <2>4. Service!Accept(r)  BY <2>1, <2>2, <2>3 DEF Service!Accept, Queue, Holding
  <2> QED BY <2>4 DEF Service!Next
<1>4. CASE Receive(r)
  <2>1. Service!Collect(r)  BY <1>4 DEF Receive, Service!Collect
  <2> QED BY <2>1 DEF Service!Next
<1> QED BY <1>2, <1>3, <1>4 DEF Handler

(* The service sees the worker only when it reports.                       *)
LEMMA WorkerRefines ==
    ASSUME MailInv, Worker
    PROVE  Service!Next \/ UNCHANGED Service!vars
<1>1. TypeOK  BY DEF MailInv, IInv
<1>2. CASE Take
  <2>1. /\ cur = NoRequest /\ jobs # <<>> /\ cur' = Head(jobs) /\ jobs' = Tail(jobs)
        /\ UNCHANGED <<caller, results, answer, delivered>>
    BY <1>1, <1>2 DEF Take, TypeOK, callers
  <2>2. Queue = jobs /\ jobs \in Seq(Requests)  BY <1>1, <2>1, QueueIs
  <2>3. Head(jobs) # NoRequest  BY <2>1, <2>2, HeadTailProperties, RequestsAssumption
  <2>4. Queue' = <<Head(jobs)>> \o Tail(jobs)  BY <2>1, <2>3 DEF Queue, Holding
  <2>5. Queue' = Queue  BY <2>1, <2>2, <2>4, HeadInFront
  <2> QED BY <2>1, <2>5 DEF Service!vars, Queue, Holding
<1>3. CASE Post
  <2>1. /\ cur # NoRequest /\ cur' = NoRequest /\ jobs' = jobs
        /\ phase = "post" /\ Len(results) < ResultsCap /\ ok \in BOOLEAN
        /\ results' = Append(results, [req |-> cur, ok |-> ok])
        /\ UNCHANGED <<caller, answer, delivered>>
    BY <1>1, <1>3 DEF Post, TypeOK, callers
  <2>2. Queue # <<>> /\ Head(Queue) = cur /\ Tail(Queue) = jobs /\ jobs \in Seq(Requests)
    BY <1>1, <2>1, QueueIs
  <2>3. Queue' = Tail(Queue)
    <3>1. Queue' = <<>> \o jobs  BY <2>1 DEF Queue, Holding
    <3> QED BY <2>2, <3>1, ConcatEmptySeq
  <2>4. ok => cur \in delivered  BY <2>1 DEF MailInv, IInv, WorkerInv
  <2>5. Service!Report  BY <2>1, <2>2, <2>3, <2>4 DEF Service!Report, Queue, Holding
  <2> QED BY <2>5 DEF Service!Next
<1>4. CASE ~Take /\ ~Post
  <2>1. UNCHANGED <<caller, jobs, cur, results, answer, delivered>>
    BY <1>4 DEF Worker, Connect, Build, Attach, ConnectOk, ConnectFail, ConnectTimeout,
         Compose, SelectSent, SelectTimeout, Quit, callers
  <2> QED BY <2>1, Unseen
<1> QED BY <1>2, <1>3, <1>4

(* A server takes the oldest message, and only once.                       *)
LEMMA ServerRefines ==
    ASSUME MailInv, SendLock \/ Server \/ \E r \in Requests : LateConnect(r)
    PROVE  Service!Next \/ UNCHANGED Service!vars
<1>1. TypeOK  BY DEF MailInv, IInv
<1>2. ASSUME delivered' = delivered \cup {cur}, cur \in Requests, cur \notin delivered,
             UNCHANGED <<caller, jobs, cur, results, answer>>
      PROVE  Service!Next
  <2>1. Queue # <<>> /\ Head(Queue) = cur
    BY <1>1, <1>2, QueueIs, RequestsAssumption
  <2>2. Queue' = Queue  BY <1>2 DEF Queue, Holding
  <2>3. Service!Deliver  BY <1>2, <2>1, <2>2 DEF Service!Deliver, Queue, Holding
  <2> QED BY <2>3 DEF Service!Next
<1>3. CASE SendAccept
  <2>1. cur \in Requests /\ cur \notin delivered
    BY <1>3, WorksForCur DEF SendAccept, MailInv, IInv, OfferInv
  <2> QED BY <1>2, <1>3, <2>1 DEF SendAccept, callers
<1>4. CASE CallApi
  <2>1. cur \in Requests /\ cur \notin delivered
    BY <1>4, WorksForCur DEF CallApi, MailInv, IInv, OfferInv
  <2>2. /\ delivered' \in {delivered, delivered \cup {cur}}
        /\ UNCHANGED <<caller, jobs, cur, results, answer>>
    BY <1>4 DEF CallApi, callers
  <2> QED BY <1>2, <2>1, <2>2, Unseen
<1>5. CASE SendLock \/ SendReturn \/ \E r \in Requests : LateConnect(r)
  <2>1. UNCHANGED <<caller, jobs, cur, results, answer, delivered>>
    BY <1>5 DEF SendLock, SendReturn, LateConnect, callers
  <2> QED BY <2>1, Unseen
<1> QED BY <1>3, <1>4, <1>5 DEF Server

(* The worker with its timeouts, connections and lost replies is a queue   *)
(* that serves one message at a time in the order in which the messages    *)
(* were accepted, delivers each at most once, reports each once, and       *)
(* reports a success only of what it delivered.                            *)
THEOREM MailRefinesService == Spec => RefinesService
<1>1. Init => Service!Init
  <2>1. Init => Queue = <<>>
    BY EmptySeq, ConcatEmptySeq DEF Init, Queue, Holding
  <2> QED BY <2>1 DEF Init, Service!Init, Queue, Holding, NoAnswer
<1>2. MailInv /\ [Next]_vars => [Service!Next]_(Service!vars)
  <2> SUFFICES ASSUME MailInv, [Next]_vars
               PROVE  Service!Next \/ UNCHANGED Service!vars
    OBVIOUS
  <2>1. CASE UNCHANGED vars
    BY <2>1, Unseen DEF vars
  <2> QED BY <2>1, HandlerRefines, WorkerRefines, ServerRefines DEF Next
<1> QED BY <1>1, <1>2, MailInvHolds, PTL DEF Spec, RefinesService, Service!Spec

=============================================================================
