------------------------------ MODULE Webhook ------------------------------
(***************************************************************************)
(* The webhook Lambda (cmd/webhook, internal/webhook, RecordDelivery):     *)
(* each request records the delivery ID of a workflow_job event and, if it *)
(* is the first to do so, puts one message in the SQS queue.  The two are  *)
(* separate calls, and GitHub sends a delivery again when it has no        *)
(* success answer yet, even while a request for it is still running.       *)
(*                                                                         *)
(* Requests that change nothing are left out: those with a bad signature,  *)
(* without a delivery ID, or of another kind of event.                     *)
(***************************************************************************)
EXTENDS Integers

CONSTANTS
  Deliveries,  \* X-GitHub-Delivery IDs, one for each event
  Requests,    \* requests handled at a time
  MaxSends,    \* bound: how often GitHub sends one delivery
  Faults,      \* what may go wrong, see Fault
  NoDelivery

\* table: DynamoDB refuses the put; queue: SQS refuses the message; crash: the Lambda
\* dies or times out between two calls, or a call took effect but was not answered.
Fault == {"table", "queue", "crash"}

ASSUME SendsAssumption == MaxSends \in Nat
ASSUME WebhookFaultsAssumption == Faults \subseteq Fault
ASSUME NoDeliveryAssumption == NoDelivery \notin Deliveries

VARIABLES
  sends,     \* how often GitHub has sent each delivery
  accepted,  \* deliveries GitHub was answered 200 for
  recorded,  \* deliveries with an EVENT# item in the table
  messages,  \* how many messages each delivery has put in the queue
  req        \* the requests

vars == <<sends, accepted, recorded, messages, req>>

Request == [pc : {"idle", "record", "send"}, delivery : Deliveries \cup {NoDelivery}]
NoRequest == [pc |-> "idle", delivery |-> NoDelivery]

At(q, step) == req[q].pc = step
Sending(q, d) == At(q, "send") /\ req[q].delivery = d

TypeOK ==
  /\ sends \in [Deliveries -> 0 .. MaxSends]
  /\ accepted \in SUBSET Deliveries
  /\ recorded \in SUBSET Deliveries
  /\ messages \in [Deliveries -> Nat]
  /\ req \in [Requests -> Request]
  /\ \A q \in Requests : ~At(q, "idle") => req[q].delivery \in Deliveries

Init ==
  /\ sends = [d \in Deliveries |-> 0]
  /\ accepted = {}
  /\ recorded = {}
  /\ messages = [d \in Deliveries |-> 0]
  /\ req = [q \in Requests |-> NoRequest]

\* GitHub sends a delivery until it is told 200.
Deliver(q, d) ==
  /\ At(q, "idle")
  /\ d \notin accepted
  /\ sends[d] < MaxSends
  /\ sends' = [sends EXCEPT ![d] = @ + 1]
  /\ req' = [req EXCEPT ![q] = [pc |-> "record", delivery |-> d]]
  /\ UNCHANGED <<accepted, recorded, messages>>

\* Mutant: the request forgets its delivery and goes on.
AnswerAndGoOn(q, ok) ==
  /\ req' = [req EXCEPT ![q].delivery = NoDelivery]
  /\ accepted' = IF ok THEN accepted \cup {req[q].delivery} ELSE accepted

\* Handle returns 200, or an error status.
Answer(q, ok) ==
  /\ req' = [req EXCEPT ![q] = NoRequest]
  /\ accepted' = IF ok THEN accepted \cup {req[q].delivery} ELSE accepted

\* Mutant: the put has no condition, and every delivery is seen first.
RecordAnyway(q) ==
  /\ At(q, "record")
  /\ recorded' = recorded \cup {req[q].delivery}
  /\ req' = [req EXCEPT ![q].pc = "send"]
  /\ UNCHANGED <<sends, accepted, messages>>

\* The conditional put; a delivery that is already there is a duplicate.
RecordDelivery(q) ==
  /\ At(q, "record")
  /\ \/ /\ req[q].delivery \notin recorded
        /\ recorded' = recorded \cup {req[q].delivery}
        /\ req' = [req EXCEPT ![q].pc = "send"]
        /\ UNCHANGED accepted
     \/ /\ req[q].delivery \in recorded
        /\ Answer(q, TRUE)
        /\ UNCHANGED recorded
  /\ UNCHANGED <<sends, messages>>

RecordFails(q) ==
  /\ "table" \in Faults
  /\ At(q, "record")
  /\ Answer(q, FALSE)
  /\ UNCHANGED <<sends, recorded, messages>>

Send(q) ==
  /\ At(q, "send")
  /\ messages' = [messages EXCEPT ![req[q].delivery] = @ + 1]
  /\ Answer(q, TRUE)
  /\ UNCHANGED <<sends, recorded>>

SendFails(q) ==
  /\ "queue" \in Faults
  /\ At(q, "send")
  /\ Answer(q, FALSE)
  /\ UNCHANGED <<sends, recorded, messages>>

\* The request dies, before or after the effect of the call it is making.
Crash(q) ==
  /\ "crash" \in Faults
  /\ \/ At(q, "record") /\ UNCHANGED <<recorded, messages>>
     \/ /\ At(q, "record")
        /\ recorded' = recorded \cup {req[q].delivery}
        /\ UNCHANGED messages
     \/ At(q, "send") /\ UNCHANGED <<recorded, messages>>
     \/ /\ At(q, "send")
        /\ messages' = [messages EXCEPT ![req[q].delivery] = @ + 1]
        /\ UNCHANGED recorded
  /\ Answer(q, FALSE)
  /\ UNCHANGED sends

Handle(q) == RecordDelivery(q) \/ RecordFails(q) \/ Send(q) \/ SendFails(q) \/ Crash(q)

\* Every delivery was accepted, or GitHub has given it up.
Quiescent ==
  /\ \A q \in Requests : At(q, "idle")
  /\ \A d \in Deliveries : d \in accepted \/ sends[d] = MaxSends
  /\ UNCHANGED vars

Next ==
  \/ \E q \in Requests, d \in Deliveries : Deliver(q, d)
  \/ \E q \in Requests : Handle(q)
  \/ Quiescent

Spec == Init /\ [][Next]_vars

-----------------------------------------------------------------------------
\* However often GitHub sends a delivery, and however its requests overlap, fail or
\* die, it puts at most one message in the queue (idempotency.go:13-16).
EnqueuedOnce == \A d \in Deliveries : messages[d] <= 1

\* An event GitHub was answered 200 for, and will not send again, is in the queue or
\* about to be: the webhook forwards every workflow_job event (events.go:22-25).
AcceptedIsQueued ==
  \A d \in accepted : messages[d] >= 1 \/ \E q \in Requests : Sending(q, d)
=============================================================================
