---------------------------- MODULE MailService ----------------------------
(***************************************************************************)
(* What the mail queue promises to the handlers, without its worker, its   *)
(* connections and its timeouts: the messages are served one at a time in  *)
(* the order in which they were accepted, each of them is reported once,   *)
(* and a report of success is about a mail that was delivered.  It does    *)
(* not promise that a handler takes the report about its own message.      *)
(***************************************************************************)
EXTENDS Integers, Sequences

CONSTANTS
    Requests,    \* the senders, one message each
    NoRequest,   \* in NoAnswer
    QueueCap,    \* messages accepted and not yet reported
    ResultsCap   \* reports nobody took yet

VARIABLES
    status,      \* where each sender is
    queue,       \* the accepted messages, oldest first
    outbox,      \* the reports, oldest first
    taken,       \* the report each sender took
    delivered    \* the mails that were sent

vars == <<status, queue, outbox, taken, delivered>>

Init ==
    /\ status = [r \in Requests |-> "idle"]
    /\ queue = <<>>
    /\ outbox = <<>>
    /\ taken = [r \in Requests |-> [req |-> NoRequest, ok |-> FALSE]]
    /\ delivered = {}

\* A sender makes up its mind to send, or not to.
Decide(r) ==
    /\ status[r] = "idle"
    /\ \E s \in {"sending", "refused"} : status' = [status EXCEPT ![r] = s]
    /\ UNCHANGED <<queue, outbox, taken, delivered>>

\* A message is accepted at the end of the queue.
Accept(r) ==
    /\ status[r] = "sending"
    /\ Len(queue) < QueueCap
    /\ queue' = Append(queue, r)
    /\ status' = [status EXCEPT ![r] = "waiting"]
    /\ UNCHANGED <<outbox, taken, delivered>>

\* Only the oldest message is delivered, and only once.
Deliver ==
    /\ queue # <<>>
    /\ Head(queue) \notin delivered
    /\ delivered' = delivered \cup {Head(queue)}
    /\ UNCHANGED <<status, queue, outbox, taken>>

\* The oldest message is reported: a success only if it was delivered.
Report ==
    /\ queue # <<>>
    /\ Len(outbox) < ResultsCap
    /\ \E ok \in BOOLEAN :
          /\ ok => Head(queue) \in delivered
          /\ outbox' = Append(outbox, [req |-> Head(queue), ok |-> ok])
    /\ queue' = Tail(queue)
    /\ UNCHANGED <<status, taken, delivered>>

\* A sender that waits takes the oldest report.
Collect(r) ==
    /\ status[r] = "waiting"
    /\ outbox # <<>>
    /\ taken' = [taken EXCEPT ![r] = Head(outbox)]
    /\ outbox' = Tail(outbox)
    /\ status' = [status EXCEPT ![r] = "answered"]
    /\ UNCHANGED <<queue, delivered>>

Next == \/ \E r \in Requests : Decide(r) \/ Accept(r) \/ Collect(r)
        \/ Deliver
        \/ Report

Spec == Init /\ [][Next]_vars

=============================================================================
