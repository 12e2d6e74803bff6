----------------------------- MODULE MailQueue -----------------------------
(***************************************************************************)
(* The mail queue of the framework: HTTP handlers put messages on the      *)
(* buffered channel Mail.Jobs, the one goroutine started by New runs       *)
(* ListenForMail, which sends each message and puts a Result on the        *)
(* buffered channel Mail.Results, and every handler then takes one Result. *)
(* A Result carries no identity: a handler takes whichever is oldest.      *)
(*                                                                         *)
(* A message is its request; the only thing its data is needed for is the  *)
(* defect that makes one of the sending steps fail.  The field "req" of a  *)
(* result and the variable "answer" are history: the code does not have    *)
(* them, no guard reads them, the properties do.                           *)
(***************************************************************************)
EXTENDS Integers, Sequences, FiniteSets

CONSTANTS
    Requests,    \* HTTP requests that send one mail each
    NoRequest,   \* the worker holds no message
    JobsCap,     \* capacity of Mail.Jobs: 20 in createMailer, 1 in the tests
    ResultsCap,  \* capacity of Mail.Results
    Transports   \* what the .env may select, a subset of TransportKind

TransportKind == {"smtp", "api", "unknown"}

ASSUME RequestsAssumption == NoRequest \notin Requests
ASSUME CapAssumption == JobsCap \in Nat \ {0} /\ ResultsCap \in Nat \ {0}
ASSUME TransportAssumption == Transports \subseteq TransportKind

VARIABLES
    transport,   \* which branch of Send and ChooseAPI the configuration takes
    defect,      \* what is wrong with the message of each request
    caller,      \* where the handler of each request is
    answer,      \* history: the result each handler took
    jobs,        \* the channel Mail.Jobs
    results,     \* the channel Mail.Results
    cur,         \* the message the worker holds
    phase,       \* where the worker is in ListenForMail
    ok,          \* what Send is about to return
    sender,      \* the goroutine that send() of go-simple-mail starts
    client,      \* the SMTP connection opened for each request
    delivered    \* requests whose mail a server accepted

vars == <<transport, defect, caller, answer, jobs, results, cur, phase, ok,
          sender, client, delivered>>
config == <<transport, defect>>
callers == <<caller, answer>>

Defect == {"none", "template", "attachment", "address"}
CallerState == {"idle", "refused", "sending", "waiting", "answered"}
Phase == {"idle", "build", "attach", "api", "connect", "compose", "select",
          "quit", "post"}
SenderState == {"none", "spawned", "locked", "accepted", "ok", "err"}
ClientState == {"none", "dialing", "open", "closed"}
Result == [req : Requests, ok : BOOLEAN]
NoAnswer == [req |-> NoRequest, ok |-> FALSE]

TypeOK ==
    /\ transport \in Transports
    /\ defect \in [Requests -> Defect]
    /\ caller \in [Requests -> CallerState]
    /\ answer \in [Requests -> Result \cup {NoAnswer}]
    /\ jobs \in Seq(Requests)
    /\ Len(jobs) <= JobsCap
    /\ results \in Seq(Result)
    /\ Len(results) <= ResultsCap
    /\ cur \in Requests \cup {NoRequest}
    /\ phase \in Phase
    /\ (phase = "idle") <=> (cur = NoRequest)
    /\ ok \in BOOLEAN
    /\ sender \in SenderState
    /\ client \in [Requests -> ClientState]
    /\ delivered \in SUBSET Requests

Init ==
    /\ transport \in Transports
    /\ defect \in [Requests -> Defect]
    /\ caller = [r \in Requests |-> "idle"]
    /\ answer = [r \in Requests |-> NoAnswer]
    /\ jobs = <<>>
    /\ results = <<>>
    /\ cur = NoRequest
    /\ phase = "idle"
    /\ ok = FALSE
    /\ sender = "none"
    /\ client = [r \in Requests |-> "none"]
    /\ delivered = {}

-----------------------------------------------------------------------------
(* The handlers.                                                           *)

\* PostForgot finds the user and builds the message.
Arrive(r) ==
    /\ caller[r] = "idle"
    /\ caller' = [caller EXCEPT ![r] = "sending"]
    /\ UNCHANGED <<config, answer, jobs, results, cur, phase, ok, sender,
                   client, delivered>>

\* PostForgot answers 400: the form is malformed or no user has that email.
Refuse(r) ==
    /\ caller[r] = "idle"
    /\ caller' = [caller EXCEPT ![r] = "refused"]
    /\ UNCHANGED <<config, answer, jobs, results, cur, phase, ok, sender,
                   client, delivered>>

\* Mutant: a queue without a bound.
EnqueueUnbounded(r) ==
    /\ caller[r] = "sending"
    /\ jobs' = Append(jobs, r)
    /\ caller' = [caller EXCEPT ![r] = "waiting"]
    /\ UNCHANGED <<config, answer, results, cur, phase, ok, sender, client,
                   delivered>>

\* h.App.Mail.Jobs <- msg, which blocks while the channel is full.
Enqueue(r) ==
    /\ caller[r] = "sending"
    /\ Len(jobs) < JobsCap
    /\ jobs' = Append(jobs, r)
    /\ caller' = [caller EXCEPT ![r] = "waiting"]
    /\ UNCHANGED <<config, answer, results, cur, phase, ok, sender, client,
                   delivered>>

\* res := <-h.App.Mail.Results, and the response that depends on res.Error.
Receive(r) ==
    /\ caller[r] = "waiting"
    /\ results # <<>>
    /\ answer' = [answer EXCEPT ![r] = Head(results)]
    /\ results' = Tail(results)
    /\ caller' = [caller EXCEPT ![r] = "answered"]
    /\ UNCHANGED <<config, jobs, cur, phase, ok, sender, client, delivered>>

-----------------------------------------------------------------------------
(* The worker.                                                             *)

\* Send returns; what is left of the loop body is the post.
Return(success) ==
    /\ phase' = "post"
    /\ ok' = success

Continue(next) ==
    /\ phase' = next
    /\ UNCHANGED ok

\* Mutant: a message that ChooseAPI refuses is dropped without a result.
TakeDropsUnknown ==
    /\ phase = "idle"
    /\ jobs # <<>>
    /\ jobs' = Tail(jobs)
    /\ IF transport = "unknown" THEN UNCHANGED <<cur, phase, ok>>
       ELSE cur' = Head(jobs) /\ Continue("build")
    /\ UNCHANGED <<config, callers, results, sender, client, delivered>>

\* msg := <-m.Jobs, then Send picks the transport: ChooseAPI refuses an API
\* that is not one of the three it knows.
Take ==
    /\ phase = "idle"
    /\ jobs # <<>>
    /\ cur' = Head(jobs)
    /\ jobs' = Tail(jobs)
    /\ IF transport = "unknown" THEN Return(FALSE) ELSE Continue("build")
    /\ UNCHANGED <<config, callers, results, sender, client, delivered>>

\* buildHTMLMessage and buildPlainTextMessage parse and execute the templates.
Build ==
    /\ phase = "build"
    /\ IF defect[cur] = "template" THEN Return(FALSE)
       ELSE Continue(IF transport = "smtp" THEN "connect" ELSE "attach")
    /\ UNCHANGED <<config, callers, jobs, results, cur, sender, client,
                   delivered>>

\* addAPIAttachments reads the files.
Attach ==
    /\ phase = "attach"
    /\ IF defect[cur] = "attachment" THEN Return(FALSE) ELSE Continue("api")
    /\ UNCHANGED <<config, callers, jobs, results, cur, sender, client,
                   delivered>>

\* Mutant: the error of driver.Send is dropped.
CallApiUnchecked ==
    /\ phase = "api"
    /\ \E accepted \in BOOLEAN :
          /\ accepted => defect[cur] # "address"
          /\ delivered' = IF accepted THEN delivered \cup {cur} ELSE delivered
    /\ Return(TRUE)
    /\ UNCHANGED <<config, callers, jobs, results, cur, sender, client>>

\* driver.Send: the service takes the message or not, and its reply may be
\* lost after it took the message; it rejects an address that is none.
CallApi ==
    /\ phase = "api"
    /\ \E accepted, replied \in BOOLEAN :
          /\ replied => accepted
          /\ accepted => defect[cur] # "address"
          /\ delivered' = IF accepted THEN delivered \cup {cur} ELSE delivered
          /\ Return(replied)
    /\ UNCHANGED <<config, callers, jobs, results, cur, sender, client>>

\* server.Connect() succeeds.
ConnectOk ==
    /\ phase = "connect"
    /\ client' = [client EXCEPT ![cur] = "open"]
    /\ Continue("compose")
    /\ UNCHANGED <<config, callers, jobs, results, cur, sender, delivered>>

\* server.Connect() fails: the dial, the hello or STARTTLS (nothing stays
\* open), or the choice of an authentication (the connection stays open).
ConnectFail ==
    /\ phase = "connect"
    /\ \E left \in {"closed", "open"} : client' = [client EXCEPT ![cur] = left]
    /\ Return(FALSE)
    /\ UNCHANGED <<config, callers, jobs, results, cur, sender, delivered>>

\* server.Connect() gives up after ConnectTimeout; its goroutine dials on.
ConnectTimeout ==
    /\ phase = "connect"
    /\ client' = [client EXCEPT ![cur] = "dialing"]
    /\ Return(FALSE)
    /\ UNCHANGED <<config, callers, jobs, results, cur, sender, delivered>>

\* Mutant: the error that AddTo or AddAttachment noted is never looked at.
ComposeUnchecked ==
    /\ phase = "compose"
    /\ Continue("select")
    /\ sender' = "spawned"
    /\ UNCHANGED <<config, callers, jobs, results, cur, client, delivered>>

\* Mutant: ListenForMail goes on to the next message instead of reporting.
ComposeSkips ==
    /\ phase = "compose"
    /\ IF defect[cur] \in {"address", "attachment"}
       THEN phase' = "idle" /\ cur' = NoRequest /\ UNCHANGED sender
       ELSE phase' = "select" /\ sender' = "spawned" /\ UNCHANGED cur
    /\ UNCHANGED <<config, callers, jobs, results, ok, client, delivered>>

\* SetFrom, AddTo and AddAttachment only note an error; email.Send returns it
\* at once, without closing the client.  Otherwise send() starts a goroutine.
Compose ==
    /\ phase = "compose"
    /\ IF defect[cur] \in {"address", "attachment"}
       THEN Return(FALSE) /\ UNCHANGED sender
       ELSE Continue("select") /\ sender' = "spawned"
    /\ UNCHANGED <<config, callers, jobs, results, cur, client, delivered>>

\* Mutant: a send that failed is tried again on the same connection.
SelectSentRetries ==
    /\ phase = "select"
    /\ \/ sender = "ok" /\ phase' = "quit" /\ ok' = TRUE /\ UNCHANGED sender
       \/ sender = "err" /\ Continue("compose") /\ sender' = "none"
    /\ UNCHANGED <<config, callers, jobs, results, cur, client, delivered>>

\* send() receives what sendMailProcess returned.
SelectSent ==
    /\ phase = "select"
    /\ sender \in {"ok", "err"}
    /\ phase' = "quit"
    /\ ok' = (sender = "ok")
    /\ UNCHANGED <<config, callers, jobs, results, cur, sender, client,
                   delivered>>

\* Mutant: a timeout is not an error.
SelectTimeoutIsFine ==
    /\ phase = "select"
    /\ phase' = "quit"
    /\ ok' = TRUE
    /\ UNCHANGED <<config, callers, jobs, results, cur, sender, client,
                   delivered>>

\* send() receives from time.After(SendTimeout).
SelectTimeout ==
    /\ phase = "select"
    /\ phase' = "quit"
    /\ ok' = FALSE
    /\ UNCHANGED <<config, callers, jobs, results, cur, sender, client,
                   delivered>>

\* Mutant: KeepAlive, although the client is thrown away after each message.
QuitKeepsAlive ==
    /\ phase = "quit"
    /\ sender \notin {"locked", "accepted"}
    /\ sender' = "none"
    /\ phase' = "post"
    /\ UNCHANGED <<config, callers, jobs, results, cur, ok, client, delivered>>

\* checkKeepAlive: Quit and Close take the mutex that sendMailProcess holds.
Quit ==
    /\ phase = "quit"
    /\ sender \notin {"locked", "accepted"}
    /\ client' = [client EXCEPT ![cur] = "closed"]
    /\ sender' = "none"
    /\ phase' = "post"
    /\ UNCHANGED <<config, callers, jobs, results, cur, ok, delivered>>

\* Mutant: a failed message is reported and then tried again.
PostAndRetry ==
    /\ phase = "post"
    /\ Len(results) < ResultsCap
    /\ results' = Append(results, [req |-> cur, ok |-> ok])
    /\ phase' = IF ok THEN "idle" ELSE "build"
    /\ cur' = IF ok THEN NoRequest ELSE cur
    /\ ok' = FALSE
    /\ UNCHANGED <<config, callers, jobs, sender, client, delivered>>

\* m.Results <- Result{...}, which blocks while the channel is full.
Post ==
    /\ phase = "post"
    /\ Len(results) < ResultsCap
    /\ results' = Append(results, [req |-> cur, ok |-> ok])
    /\ phase' = "idle"
    /\ cur' = NoRequest
    /\ ok' = FALSE
    /\ UNCHANGED <<config, callers, jobs, sender, client, delivered>>

-----------------------------------------------------------------------------
(* The goroutines of go-simple-mail and the servers they talk to.          *)

\* sendMailProcess takes the mutex of the client.
SendLock ==
    /\ sender = "spawned"
    /\ sender' = "locked"
    /\ UNCHANGED <<config, callers, jobs, results, cur, phase, ok, client,
                   delivered>>

\* The server takes the message at the end of DATA.
SendAccept ==
    /\ sender = "locked"
    /\ sender' = "accepted"
    /\ delivered' = delivered \cup {cur}
    /\ UNCHANGED <<config, callers, jobs, results, cur, phase, ok, client>>

\* sendMailProcess returns: a refused command, a broken connection, or the
\* reply to DATA, which may be lost.
SendReturn ==
    /\ \/ sender = "locked" /\ sender' = "err"
       \/ sender = "accepted" /\ sender' \in {"ok", "err"}
    /\ UNCHANGED <<config, callers, jobs, results, cur, phase, ok, client,
                   delivered>>

\* The goroutine of a Connect that timed out gets its answer after all: the
\* connection it opens is in nobody's hands.
LateConnect(r) ==
    /\ client[r] = "dialing"
    /\ \E left \in {"closed", "open"} : client' = [client EXCEPT ![r] = left]
    /\ UNCHANGED <<config, callers, jobs, results, cur, phase, ok, sender,
                   delivered>>

-----------------------------------------------------------------------------
Handler(r) == Arrive(r) \/ Refuse(r) \/ Enqueue(r) \/ Receive(r)

Connect == ConnectOk \/ ConnectFail \/ ConnectTimeout

Worker == \/ Take \/ Build \/ Attach \/ Connect \/ Compose
          \/ SelectSent \/ SelectTimeout \/ Quit \/ Post

Server == CallApi \/ SendAccept \/ SendReturn

Next == \/ \E r \in Requests : Handler(r) \/ LateConnect(r)
        \/ Worker
        \/ SendLock
        \/ Server

Spec == Init /\ [][Next]_vars

(* Fairness.  The Go scheduler runs every goroutine that can run, and a    *)
(* channel serves its blocked senders and receivers first come, first      *)
(* served; Connect ends because of its timeout; the servers are not the    *)
(* program's, and answer only where a run says so.                         *)
ProgramFairness ==
    /\ \A r \in Requests : WF_vars(Enqueue(r)) /\ WF_vars(Receive(r))
    /\ WF_vars(Worker)
    /\ WF_vars(SendLock)

ServerFairness == WF_vars(Server)

FairSpec == Spec /\ ProgramFairness /\ ServerFairness
SilentServerSpec == Spec /\ ProgramFairness

-----------------------------------------------------------------------------
(* Properties.                                                             *)

Waiting == {r \in Requests : caller[r] = "waiting"}
Busy == IF cur = NoRequest THEN 0 ELSE 1
InFlight == {jobs[i] : i \in DOMAIN jobs} \cup ({cur} \ {NoRequest})
Reported == {results[i] : i \in DOMAIN results}
               \cup {answer[r] : r \in {q \in Requests : caller[q] = "answered"}}

\* Every handler blocked on Results is owed exactly one result: a message in
\* Jobs, the one the worker holds, or a result already posted.  So no handler
\* waits for a result that will not come, and the worker is never blocked on
\* a full Results channel that nobody will drain.
Conservation ==
    Cardinality(Waiting) = Len(jobs) + Busy + Len(results)

\* No message is answered for twice, or answered for while it is still on its
\* way: two handlers never share a result, whatever the mix-up between them.
OneResultPerMessage ==
    /\ \A r, s \in Requests :
          /\ caller[r] = "answered" /\ caller[s] = "answered"
          /\ answer[r].req = answer[s].req
          => r = s
    /\ \A x \in Reported : x.req \notin InFlight

\* A result that says the mail was sent is one about a mail that a server
\* accepted (the converse fails: a lost reply or a timeout hides a delivery).
SuccessIsDelivery == \A x \in Reported : x.ok => x.req \in delivered

\* A mail reported as sent has left no connection behind it, nor a goroutine
\* that may still open one.
SuccessClosesConnection ==
    \A x \in Reported : x.ok /\ transport = "smtp" => client[x.req] = "closed"

\* A mail that a server has accepted is not sent a second time, nor is one
\* whose connection may still come up in the background.
NeverResent ==
    [][ sender = "none" /\ sender' = "spawned"
        => cur \notin delivered /\ client[cur] = "open" ]_vars

\* Of a message whose template, attachment or address is bad, nothing is sent,
\* although SetFrom, AddTo and AddAttachment report no error of their own.
OnlySoundMailDelivered == \A r \in delivered : defect[r] = "none"

\* Under the fairness above, with a server that answers, every handler that
\* wants to send gets a result.
EveryoneAnswered ==
    \A r \in Requests : caller[r] = "sending" ~> caller[r] = "answered"

\* What TestMail_SendUsingChan (mail_test.go:41-46) expects of the two
\* channels: who sends to an address that is none takes an error from Results.
InvalidAddressGetsError ==
    \A r \in Requests :
        caller[r] = "answered" /\ defect[r] = "address" => ~answer[r].ok

\* What email.go:992 says of send(): it returns the send result or the timeout
\* result, whichever happens first, so that a server that stays silent holds
\* the worker no longer than SendTimeout.
SendTimeoutBoundsSend == phase = "select" ~> phase = "post"

\* The messages are served in the order of the channel: see MailService.
Service == INSTANCE MailService WITH
    status <- caller,
    queue  <- (IF cur = NoRequest THEN <<>> ELSE <<cur>>) \o jobs,
    outbox <- results,
    taken  <- answer,
    QueueCap <- JobsCap + 1

RefinesService == Service!Spec

=============================================================================
