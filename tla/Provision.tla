----------------------------- MODULE Provision -----------------------------
(***************************************************************************)
(* The provision Lambda (cmd/provision, internal/runner): stateless        *)
(* invocations, each handling one workflow_job message of the SQS queue.   *)
(* A `queued' message allocates an idle slot or launches an instance; a    *)
(* `completed' message closes the job and frees its slot.                  *)
(*                                                                         *)
(* One action is one call to DynamoDB or EC2, so invocations interleave    *)
(* between any two calls and everything an invocation read may be stale    *)
(* when it is used.  An invocation that dies, and one that returns an      *)
(* error, gives its message back to the queue.                             *)
(***************************************************************************)
EXTENDS Table

CONSTANTS
  Workers,     \* invocations running at a time
  Matching,    \* Matching[j]: profiles that share a label with job j
  MaxReceive,  \* sqs_max_receive_count, per kind of message
  Faults,      \* what may go wrong, see Fault
  Closed       \* what a slot of a runner that is not ACTIVE is, see holderBar

Kinds == {"queued", "completed"}

\* crash:     an invocation dies between two calls, or a call it made took
\*            effect but was answered with an error
\* store:     DynamoDB refuses a call whose error Handle returns
\* launch:    a GitHub, SSM, EC2 or DynamoDB call of provisionRunner fails
\* duplicate: SQS delivers a message that is still with another invocation
Fault == {"crash", "store", "launch", "duplicate"}

ASSUME MatchingAssumption == Matching \in [Jobs -> SUBSET Profiles]
ASSUME ReceiveAssumption == MaxReceive \in [Kinds -> Nat \ {0}]
ASSUME FaultsAssumption == Faults \subseteq Fault
ASSUME ClosedAssumption == Closed \notin Jobs /\ Closed # NoJob

VARIABLES
  queue,       \* messages visible in the SQS queue
  sent,        \* messages the webhook Lambda has enqueued
  deliveries,  \* receive count of each message
  inv,         \* the invocations
  ec2,         \* ec2[r]: an instance tagged with runner ID r is running
  attempts     \* history: how often each job was claimed for provisioning

vars == <<jobs, runners, queue, sent, deliveries, inv, ec2, attempts>>

Messages == [job : Jobs, kind : Kinds]
NoMessage == [job |-> NoJob, kind |-> "none"]

\* Between ClaimForProvisioning and the end of provisionRunner.
Section == {"createRow", "launch", "failRow", "revert", "setInstance", "bind"}

\* Calls whose error Handle returns to SQS with nothing else done.
ErrorReturned == {"create", "query", "allocate", "claim", "setInstance", "bind",
                  "get", "complete", "free"}

Steps == {"idle", "done"} \cup Section \cup ErrorReturned

\* What an invocation holds in memory: its message, the pool selector, the retry
\* count it read, the candidates it queried, and the runner (slot) it works on.
Invocation == [pc      : Steps,
               msg     : Messages \cup {NoMessage},
               profile : Profiles \cup {NoPool},
               retry   : Nat,
               cands   : SUBSET Candidate,
               runner  : Runners \cup {NoRunner},
               slot    : SlotIdx]

Idle == [pc |-> "idle", msg |-> NoMessage, profile |-> NoPool, retry |-> 0,
         cands |-> {}, runner |-> NoRunner, slot |-> 0]

JobOf(w) == inv[w].msg.job
InSection(w) == inv[w].pc \in Section
At(w, step) == inv[w].pc = step
GoTo(w, step) == inv' = [inv EXCEPT ![w].pc = step]

Init ==
  /\ TableInit
  /\ queue = {}
  /\ sent = {}
  /\ deliveries = [m \in Messages |-> 0]
  /\ inv = [w \in Workers |-> Idle]
  /\ ec2 = [r \in Runners |-> FALSE]
  /\ attempts = [j \in Jobs |-> 0]

TypeOK ==
  /\ TableTypeOK
  /\ queue \in SUBSET Messages
  /\ sent \in SUBSET Messages
  /\ deliveries \in [Messages -> Nat]
  /\ inv \in [Workers -> Invocation]
  /\ ec2 \in [Runners -> BOOLEAN]
  /\ attempts \in [Jobs -> Nat]

queueVars == <<queue, sent, deliveries>>

-----------------------------------------------------------------------------
(***************************************************************************)
(* GitHub, the webhook Lambda and SQS.  Messages are not ordered.          *)
(***************************************************************************)

\* A job is over whatever the table says of it: it was cancelled, or it ran on any runner
\* that has its labels.  GitHub reports it as queued first; a `queued' that comes later
\* than `completed' is one that waited in the queue.
Reported(m) == m.kind = "completed" => [m EXCEPT !.kind = "queued"] \in sent

\* GitHub's deliveries of one event are deduplicated by the webhook Lambda.
Send(m) ==
  /\ m \notin sent
  /\ Reported(m)
  /\ sent' = sent \cup {m}
  /\ queue' = queue \cup {m}
  /\ UNCHANGED <<jobs, runners, deliveries, inv, ec2, attempts>>

\* A message goes back to the queue, or to the dead-letter queue.
GiveBack(w) ==
  LET m == inv[w].msg
  IN /\ queue' = IF deliveries[m] < MaxReceive[m.kind] THEN queue \cup {m} ELSE queue
     /\ inv' = [inv EXCEPT ![w] = Idle]
     /\ UNCHANGED <<sent, deliveries>>

\* handleSQSEvent hands the message to Handle, which starts with ResolveProfile:
\* the profile is any that matches, and a job that matches none is ignored.
Receive(w, m) ==
  /\ At(w, "idle")
  /\ m \in queue
  /\ deliveries' = [deliveries EXCEPT ![m] = @ + 1]
  /\ \/ queue' = queue \ {m}
     \/ /\ "duplicate" \in Faults
        /\ deliveries[m] + 1 < MaxReceive[m.kind]
        /\ UNCHANGED queue
  /\ \/ /\ m.kind = "queued"
        /\ Matching[m.job] = {}
        /\ inv' = [inv EXCEPT ![w] = [@ EXCEPT !.msg = m, !.pc = "done"]]
     \/ /\ m.kind = "queued"
        /\ \E p \in Matching[m.job] :
             inv' = [inv EXCEPT ![w] = [@ EXCEPT !.msg = m, !.pc = "create", !.profile = p]]
     \/ /\ m.kind = "completed"
        /\ inv' = [inv EXCEPT ![w] = [@ EXCEPT !.msg = m, !.pc = "get"]]
  /\ UNCHANGED <<jobs, runners, sent, ec2, attempts>>

\* The handler returned nil: the message is deleted.
Ack(w) ==
  /\ At(w, "done")
  /\ inv' = [inv EXCEPT ![w] = Idle]
  /\ UNCHANGED <<jobs, runners, queueVars, ec2, attempts>>

\* The invocation dies, or a call fails and Handle returns its error.
Abandon(w) ==
  /\ \/ "crash" \in Faults /\ ~At(w, "idle")
     \/ "store" \in Faults /\ inv[w].pc \in ErrorReturned
  /\ GiveBack(w)
  /\ UNCHANGED <<jobs, runners, ec2, attempts>>

-----------------------------------------------------------------------------
(***************************************************************************)
(* handleQueued.                                                           *)
(***************************************************************************)

\* CreateJobIfNotExists, and the test of the status it returns.
Create(w) ==
  LET j == JobOf(w)
  IN /\ At(w, "create")
     /\ \/ /\ CreateJob(j, inv[w].profile)
           /\ GoTo(w, "query")
        \/ /\ jobs[j].status = "QUEUED"
           /\ inv' = [inv EXCEPT ![w].pc = "query", ![w].retry = jobs[j].retry]
           /\ UNCHANGED table
        \/ /\ jobs[j].status \notin {"ABSENT", "QUEUED"}
           /\ GoTo(w, "done")
           /\ UNCHANGED table
     /\ UNCHANGED <<queueVars, ec2, attempts>>

\* The GSI1 query of AllocateIdleRunner.
Query(w) ==
  /\ At(w, "query")
  /\ inv' = [inv EXCEPT ![w].pc = "allocate",
                        ![w].cands = IdleCandidates(inv[w].profile)]
  /\ UNCHANGED <<jobs, runners, queueVars, ec2, attempts>>

\* The transaction on one candidate, or its failed condition.
Allocate(w) ==
  /\ At(w, "allocate")
  /\ \E c \in inv[w].cands :
       \/ /\ AllocateIdleRunner(c, JobOf(w))
          /\ inv' = [inv EXCEPT ![w].pc = "done", ![w].cands = {}]
       \/ /\ ~CanAllocate(c, JobOf(w))
          /\ inv' = [inv EXCEPT ![w].cands = @ \ {c}]
          /\ UNCHANGED table
  /\ UNCHANGED <<queueVars, ec2, attempts>>

\* No candidate is left: query again while the retry window is open.
RetryQuery(w) ==
  /\ At(w, "allocate")
  /\ inv[w].cands = {}
  /\ GoTo(w, "query")
  /\ UNCHANGED <<jobs, runners, queueVars, ec2, attempts>>

\* ... or conclude that the job needs an instance of its own.
StopRetrying(w) ==
  /\ At(w, "allocate")
  /\ inv[w].cands = {}
  /\ GoTo(w, "claim")
  /\ UNCHANGED <<jobs, runners, queueVars, ec2, attempts>>

Claim(w) ==
  LET j == JobOf(w)
  IN /\ At(w, "claim")
     /\ \/ /\ ClaimForProvisioning(j)
           /\ GoTo(w, "createRow")
           /\ attempts' = [attempts EXCEPT ![j] = @ + 1]
        \/ /\ jobs[j].status # "QUEUED"
           /\ GoTo(w, "done")
           /\ UNCHANGED <<table, attempts>>
     /\ UNCHANGED <<queueVars, ec2>>

-----------------------------------------------------------------------------
(***************************************************************************)
(* provisionRunner.  The GitHub client, the registration tokens, the AMI   *)
(* and the ready token change nothing shared: they fail with the row.      *)
(***************************************************************************)

CreateRow(w) ==
  /\ At(w, "createRow")
  /\ \E r \in Runners :
       /\ CreateProvisioning(r, inv[w].profile)
       /\ inv' = [inv EXCEPT ![w].pc = "launch", ![w].runner = r]
  /\ UNCHANGED <<queueVars, ec2, attempts>>

\* A put that is answered with an error may have taken effect.
CreateRowFails(w) ==
  /\ "launch" \in Faults
  /\ At(w, "createRow")
  /\ \/ UNCHANGED table
     \/ \E r \in Runners : CreateProvisioning(r, inv[w].profile)
  /\ GoTo(w, "revert")
  /\ UNCHANGED <<queueVars, ec2, attempts>>

\* Mutant: the instance ID is not put on record before the job is bound.
LaunchThenBind(w) ==
  /\ At(w, "launch")
  /\ ec2' = [ec2 EXCEPT ![inv[w].runner] = TRUE]
  /\ GoTo(w, "bind")
  /\ UNCHANGED <<jobs, runners, queueVars, attempts>>

\* RunInstances, and SetInstanceID to follow.
Launch(w) ==
  /\ At(w, "launch")
  /\ ec2' = [ec2 EXCEPT ![inv[w].runner] = TRUE]
  /\ GoTo(w, "setInstance")
  /\ UNCHANGED <<jobs, runners, queueVars, attempts>>

\* RunInstances answers with an error; the instance may run all the same.
LaunchFails(w) ==
  /\ "launch" \in Faults
  /\ At(w, "launch")
  /\ \E up \in BOOLEAN : ec2' = [ec2 EXCEPT ![inv[w].runner] = up]
  /\ GoTo(w, "failRow")
  /\ UNCHANGED <<jobs, runners, queueVars, attempts>>

\* An error of MarkRunnerFailed is only logged.
FailRow(w) ==
  /\ At(w, "failRow")
  /\ \/ MarkRunnerFailed(inv[w].runner)
     \/ "store" \in Faults /\ UNCHANGED table
  /\ GoTo(w, "revert")
  /\ UNCHANGED <<queueVars, ec2, attempts>>

\* Mutant: a failed launch is returned without the claim being reverted.
ReturnOnly(w) ==
  /\ At(w, "revert")
  /\ GiveBack(w)
  /\ UNCHANGED <<table, ec2, attempts>>

\* revertProvisioning logs an error; provisionRunner returns its own.
Revert(w) ==
  /\ At(w, "revert")
  /\ \/ RevertProvisioning(JobOf(w), inv[w].retry)
     \/ "store" \in Faults /\ UNCHANGED table
  /\ GiveBack(w)
  /\ UNCHANGED <<ec2, attempts>>

SetInstance(w) ==
  /\ At(w, "setInstance")
  /\ SetInstanceID(inv[w].runner)
  /\ GoTo(w, "bind")
  /\ UNCHANGED <<queueVars, ec2, attempts>>

\* A failed condition is an error like any other here: it is returned.
Bind(w) ==
  /\ At(w, "bind")
  /\ \/ /\ BindToJob(inv[w].runner, JobOf(w), inv[w].profile)
        /\ GoTo(w, "done")
        /\ UNCHANGED queueVars
     \/ /\ ~CanBind(inv[w].runner, JobOf(w))
        /\ GiveBack(w)
        /\ UNCHANGED table
  /\ UNCHANGED <<ec2, attempts>>

-----------------------------------------------------------------------------
(***************************************************************************)
(* handleCompleted.                                                        *)
(***************************************************************************)

Get(w) ==
  LET job == jobs[JobOf(w)]
  IN /\ At(w, "get")
     /\ \/ job.status = "ABSENT" /\ GoTo(w, "done")
        \/ /\ job.status # "ABSENT"
           /\ inv' = [inv EXCEPT ![w] = [@ EXCEPT !.pc = "complete", !.profile = job.profile,
                                                    !.runner = job.runner, !.slot = job.slot]]
     /\ UNCHANGED <<jobs, runners, queueVars, ec2, attempts>>

Complete(w) ==
  /\ At(w, "complete")
  /\ MarkCompleted(JobOf(w))
  /\ GoTo(w, IF inv[w].runner = NoRunner THEN "done" ELSE "free")
  /\ UNCHANGED <<queueVars, ec2, attempts>>

Free(w) ==
  /\ At(w, "free")
  /\ MarkIdle(inv[w].runner, inv[w].slot, inv[w].profile)
  /\ GoTo(w, "done")
  /\ UNCHANGED <<queueVars, ec2, attempts>>

-----------------------------------------------------------------------------
Queued(w) == Create(w) \/ Query(w) \/ Allocate(w) \/ RetryQuery(w) \/ StopRetrying(w)
               \/ Claim(w)
ProvisionRunner(w) == CreateRow(w) \/ CreateRowFails(w) \/ Launch(w) \/ LaunchFails(w)
               \/ FailRow(w) \/ Revert(w) \/ SetInstance(w) \/ Bind(w)
Completed(w) == Get(w) \/ Complete(w) \/ Free(w)

\* A step of the code that runs in an invocation.
Work(w) == Queued(w) \/ ProvisionRunner(w) \/ Completed(w) \/ Ack(w)

\* Nothing is left to send or to receive: the platform may rest.
Quiescent ==
  /\ sent = Messages
  /\ queue = {}
  /\ \A w \in Workers : At(w, "idle")
  /\ UNCHANGED vars

Next ==
  \/ \E m \in Messages : Send(m)
  \/ \E w \in Workers, m \in Messages : Receive(w, m)
  \/ \E w \in Workers : Work(w) \/ Abandon(w)
  \/ Quiescent

Spec == Init /\ [][Next]_vars

\* A Lambda that is invoked runs; the retry window closes after 5 seconds however
\* often the query is repeated; SQS hands over every visible message.
Fairness ==
  /\ \A w \in Workers : WF_vars(Work(w)) /\ SF_vars(StopRetrying(w))
  /\ \A m \in Messages : SF_vars(\E w \in Workers : Receive(w, m))

FairSpec == Spec /\ Fairness

-----------------------------------------------------------------------------
(***************************************************************************)
(* Safety.                                                                 *)
(***************************************************************************)

\* ClaimForProvisioning is a lock: of all deliveries of a job's message, at most one
\* invocation at a time may launch an instance for it (job.go:140-144), and while
\* it does nobody can find the job QUEUED.
ProvisioningLock ==
  \A w \in Workers : InSection(w) =>
    /\ jobs[JobOf(w)].status \in {"PROVISIONING", "COMPLETED"}
    /\ \A v \in Workers \ {w} : InSection(v) => JobOf(v) # JobOf(w)

Holds(r, i, j) ==
  /\ runners[r].status = "ACTIVE"
  /\ runners[r].slots[i].status = "BUSY"
  /\ runners[r].slots[i].job = j

\* No crash leaves a BUSY slot of an ACTIVE runner with no job, or a job ALLOCATED
\* with no real slot (runner.go:366-371); and a slot and its job name each other, so
\* that two jobs never share a slot.
SlotBinding ==
  /\ \A j \in Jobs : jobs[j].status = "ALLOCATED" =>
       jobs[j].runner # NoRunner /\ Holds(jobs[j].runner, jobs[j].slot, j)
  /\ \A r \in Runners, i \in SlotIdx :
       runners[r].status = "ACTIVE" /\ runners[r].slots[i].status = "BUSY" =>
         \E j \in Jobs : /\ runners[r].slots[i].job = j
                         /\ jobs[j].status \in {"ALLOCATED", "COMPLETED"}
                         /\ jobs[j].runner = r
                         /\ jobs[j].slot = i

\* GSI1 holds a runner exactly while it has an idle slot to hand out
\* (dynamodb.go:16-18).
PoolExact ==
  \A r \in Runners : runners[r].pool # NoPool <=>
                       runners[r].status = "ACTIVE" /\ IdleSlots(runners[r]) # {}

\* A runner is only ever offered to jobs of the profile it was launched for.
PoolOfProfile ==
  \A r \in Runners : runners[r].pool \in {NoPool, runners[r].profile}

\* An instance never runs without a row to find it by, and none is given to jobs
\* before its ID is on record (provision.go:108-110).
RecordedInstance ==
  \A r \in Runners :
    /\ ec2[r] => runners[r].status # "ABSENT"
    /\ runners[r].status = "ACTIVE" => runners[r].instance /\ ec2[r]

\* A job is claimed for provisioning at most maxProvisionAttempts times
\* (job.go:28-31).
AttemptsBounded == \A j \in Jobs : attempts[j] <= MaxProvisionAttempts

(***************************************************************************)
(* The provision Lambda implements Dispatch.                               *)
(***************************************************************************)
Phase(status) ==
  CASE status = "ABSENT" -> "new"
    [] status = "QUEUED" -> "waiting"
    [] status = "PROVISIONING" -> "starting"
    [] status = "ALLOCATED" -> "running"
    [] status \in {"COMPLETED", "FAILED"} -> "over"

phaseBar == [j \in Jobs |-> Phase(jobs[j].status)]
holderBar ==
  [s \in Runners \X SlotIdx |->
     IF runners[s[1]].status = "ACTIVE" THEN runners[s[1]].slots[s[2]].job ELSE Closed]

D == INSTANCE Dispatch WITH Instances <- Runners, Places <- SlotIdx, Vacant <- NoJob,
                            phase <- phaseBar, holder <- holderBar

\* Whatever is redelivered, reordered or lost on the way, jobs get slots the way
\* Dispatch says, as long as `completed' is handled once.
Dispatches == D!Spec

(***************************************************************************)
(* What a step may never do.                                               *)
(***************************************************************************)

Over(j) == jobs[j].status \in {"COMPLETED", "FAILED"}

\* A late or repeated message never brings a finished job back to life, and no step
\* moves a job to another slot while it runs.
NoRevival ==
  [][\A j \in Jobs :
       /\ Over(j) => Over(j)'
       /\ jobs[j].runner # NoRunner =>
            jobs'[j].runner = jobs[j].runner /\ jobs'[j].slot = jobs[j].slot]_vars

(***************************************************************************)
(* Liveness.                                                               *)
(***************************************************************************)

\* A job whose `queued' message is in the queue ends up with a slot or is given up,
\* however often its launch fails.
JobSettles ==
  \A j \in Jobs :
    [job |-> j, kind |-> "queued"] \in queue /\ Matching[j] # {}
      ~> jobs[j].status \in {"ALLOCATED", "COMPLETED", "FAILED"}

\* However a launch ends, its job leaves PROVISIONING: it is bound, given back or
\* given up.
ClaimResolved ==
  \A j \in Jobs : jobs[j].status = "PROVISIONING" ~> jobs[j].status # "PROVISIONING"
=============================================================================
