--------------------------- MODULE WebhookProofs ---------------------------
(***************************************************************************)
(* What is proved of Webhook for any deliveries, requests and faults.      *)
(***************************************************************************)
EXTENDS Webhook, TLAPS

\* A message was sent for a delivery only if it is on record, and then no request is
\* about to send another; a delivery has one request that sends it.
OneSender ==
  \A d \in Deliveries :
    /\ messages[d] <= 1
    /\ d \notin recorded => messages[d] = 0
    /\ \A q \in Requests : Sending(q, d) =>
         d \in recorded /\ messages[d] = 0 /\ \A p \in Requests \ {q} : ~Sending(p, d)

IInv == TypeOK /\ OneSender

SameReqBut(q) == \A p \in Requests \ {q} : req'[p] = req[p]

LEMMA Answered ==
  ASSUME TypeOK, NEW q \in Requests, NEW ok \in BOOLEAN, ~At(q, "idle"), Answer(q, ok)
  PROVE  /\ req' \in [Requests -> Request] /\ SameReqBut(q)
         /\ req'[q].pc = "idle" /\ accepted' \in SUBSET Deliveries
<1>1. NoRequest \in Request /\ NoRequest.pc = "idle"
  BY DEF NoRequest, Request
<1>2. QED
  BY <1>1 DEF Answer, TypeOK, SameReqBut

\* A step of request q at delivery d that puts at most a first message in the queue.
LEMMA Kept ==
  ASSUME IInv, NEW q \in Requests, SameReqBut(q),
         NEW d \in Deliveries, req[q].delivery = d,
         req'[q].pc = "idle",
         recorded' = recorded \/ recorded' = recorded \cup {d},
         \/ messages' = messages
         \/ Sending(q, d) /\ messages' = [messages EXCEPT ![d] = @ + 1]
  PROVE  OneSender'
<1>1. \A p \in Requests, e \in Deliveries : Sending(p, e)' => p # q /\ Sending(p, e)
  BY DEF Sending, At, SameReqBut
<1>2. messages \in [Deliveries -> Nat]
  BY DEF IInv, TypeOK
<1>3. CASE messages' = messages
  BY <1>1, <1>3 DEF IInv, OneSender
<1>4. CASE Sending(q, d) /\ messages' = [messages EXCEPT ![d] = @ + 1]
  <2>1. d \in recorded /\ messages[d] = 0 /\ messages'[d] = 1
    BY <1>2, <1>4 DEF IInv, OneSender
  <2>2. \A e \in Deliveries \ {d} : messages'[e] = messages[e]
    BY <1>2, <1>4
  <2>3. \A p \in Requests : ~Sending(p, d)'
    BY <1>1, <1>4 DEF IInv, OneSender
  <2>4. QED
    BY <1>1, <2>1, <2>2, <2>3 DEF IInv, OneSender
<1>5. QED
  BY <1>3, <1>4

LEMMA Step == IInv /\ [Next]_vars => IInv'
<1> SUFFICES ASSUME IInv, [Next]_vars PROVE IInv'
  OBVIOUS
<1>1. ASSUME NEW q \in Requests, NEW d \in Deliveries, Deliver(q, d) PROVE IInv'
  <2>1. /\ req' \in [Requests -> Request] /\ SameReqBut(q)
        /\ req'[q].pc = "record" /\ req'[q].delivery = d
    BY <1>1 DEF Deliver, IInv, TypeOK, Request, SameReqBut
  <2>2. sends' \in [Deliveries -> 0 .. MaxSends]
    BY <1>1, SendsAssumption DEF Deliver, IInv, TypeOK
  <2>3. TypeOK'
    BY <1>1, <2>1, <2>2 DEF Deliver, IInv, TypeOK, At, SameReqBut
  <2>4. \A p \in Requests, e \in Deliveries : Sending(p, e)' => Sending(p, e)
    BY <2>1 DEF Sending, At, SameReqBut
  <2>5. QED
    BY <1>1, <2>3, <2>4 DEF Deliver, IInv, OneSender
<1>2. ASSUME NEW q \in Requests, Handle(q) PROVE IInv'
  <2>1. PICK d \in Deliveries : req[q].delivery = d
    <3>1. ~At(q, "idle")
      BY <1>2 DEF Handle, RecordDelivery, RecordFails, Send, SendFails, Crash, At
    <3>2. QED
      BY <3>1 DEF IInv, TypeOK
  <2>2. CASE /\ At(q, "record") /\ d \notin recorded /\ recorded' = recorded \cup {d}
             /\ req' = [req EXCEPT ![q].pc = "send"]
             /\ UNCHANGED <<sends, accepted, messages>>
    <3>1. /\ req' \in [Requests -> Request] /\ SameReqBut(q)
          /\ req'[q].pc = "send" /\ req'[q].delivery = d
      BY <2>1, <2>2 DEF IInv, TypeOK, Request, SameReqBut
    <3>2. TypeOK'
      BY <2>2, <3>1 DEF IInv, TypeOK, At, SameReqBut
    <3>3. \A p \in Requests, e \in Deliveries :
            Sending(p, e)' <=> (p = q /\ e = d) \/ Sending(p, e)
      BY <2>1, <2>2, <3>1 DEF Sending, At, SameReqBut
    <3>4. \A p \in Requests : ~Sending(p, d)
      BY <2>2 DEF IInv, OneSender
    <3>5. QED
      BY <2>2, <3>2, <3>3, <3>4 DEF IInv, OneSender
  <2>3. ASSUME NEW ok \in BOOLEAN, ~At(q, "idle"), Answer(q, ok), sends' = sends,
               recorded' = recorded \/ recorded' = recorded \cup {d},
               \/ messages' = messages
               \/ Sending(q, d) /\ messages' = [messages EXCEPT ![d] = @ + 1]
        PROVE  IInv'
    <3>1. /\ req' \in [Requests -> Request] /\ SameReqBut(q)
          /\ req'[q].pc = "idle" /\ accepted' \in SUBSET Deliveries
      BY <2>3, Answered DEF IInv
    <3>2. messages' \in [Deliveries -> Nat]
      BY <2>3 DEF IInv, TypeOK
    <3>3. TypeOK'
      BY <2>3, <3>1, <3>2 DEF IInv, TypeOK, At, SameReqBut
    <3>4. OneSender'
      BY <2>1, <2>3, <3>1, Kept
    <3>5. QED
      BY <3>3, <3>4 DEF IInv
  <2>4. CASE RecordDelivery(q)
    BY <2>1, <2>2, <2>3, <2>4 DEF RecordDelivery, At
  <2>5. ASSUME Send(q) \/ RecordFails(q) \/ SendFails(q) \/ Crash(q) PROVE IInv'
    BY <2>1, <2>3, <2>5 DEF Send, RecordFails, SendFails, Crash, At, Sending
  <2>6. QED
    BY <1>2, <2>4, <2>5 DEF Handle
<1>3. CASE UNCHANGED vars
  BY <1>3 DEF vars, IInv, TypeOK, OneSender, At, Sending
<1>4. QED
  BY <1>1, <1>2, <1>3 DEF Next, Quiescent

LEMMA Inductive == Spec => []IInv
<1>1. Init => IInv
  <2>1. NoRequest \in Request /\ NoRequest.pc = "idle"
    BY DEF NoRequest, Request
  <2>2. QED
    BY <2>1, SendsAssumption DEF Init, IInv, TypeOK, OneSender, At, Sending
<1>2. QED
  BY <1>1, Step, PTL DEF Spec

\* Every request that has begun knows its delivery.
THEOREM TypeCorrect == Spec => []TypeOK
<1>1. IInv => TypeOK
  BY DEF IInv
<1>2. QED
  BY <1>1, Inductive, PTL

\* The conditional put of RecordDelivery makes one request the sender of a delivery,
\* however many run at a time and whatever fails: the queue never gets a second
\* message, which is what Provision assumes of the messages it is sent.
THEOREM NeverTwice == Spec => []EnqueuedOnce
<1>1. IInv => EnqueuedOnce
  BY DEF IInv, OneSender, EnqueuedOnce
<1>2. QED
  BY <1>1, Inductive, PTL
=============================================================================
