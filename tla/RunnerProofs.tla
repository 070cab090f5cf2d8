---------------------------- MODULE RunnerProofs ----------------------------
(***************************************************************************)
(* What is proved of the runner rows, the instances and the slots of       *)
(* Provision: first the eight ways a step of an invocation can touch a     *)
(* row, then that no instance is lost, that a slot and its job name each   *)
(* other, and that every step is one of Dispatch or none; then the pool,   *)
(* the retry budget and the profiles.  FleetProofs uses the first of them  *)
(* for the whole fleet.                                                    *)
(***************************************************************************)
EXTENDS ProvisionProofs

\* An invocation has no runner yet, or it has one that no job was given.
Unopened == Before \cup {"idle", "createRow", "get"}
Unnamed == {"launch", "setInstance", "failRow"}

SameEc2But(r) == \A q \in Runners \ {r} : ec2'[q] = ec2[q]

\* No row and no instance: at most the row of a job, which gets no slot.
Elsewhere(w) ==
  /\ runners' = runners /\ ec2' = ec2
  /\ \A j \in Jobs : jobs'[j].status = "ALLOCATED" => jobs'[j] = jobs[j]
  /\ inv'[w].pc \in Unopened =>
       \/ inv'[w].runner = NoRunner
       \/ inv[w].pc \in Unopened /\ inv'[w].runner = inv[w].runner
  /\ inv'[w].pc \in Section =>
       \/ inv'[w].pc = "createRow"
       \/ /\ inv'[w].pc = "revert" /\ inv[w].pc \in Section
          /\ inv'[w].runner = inv[w].runner

\* The put of a new row, which may be answered with an error.
Opens(w) ==
  /\ inv[w].pc = "createRow" /\ ec2' = ec2 /\ jobs' = jobs /\ inv[w].profile \in Profiles
  /\ \E r \in Runners :
       /\ runners[r].status = "ABSENT"
       /\ SameRunnersBut(r) /\ runners'[r] = NewProvisioningRunner(inv[w].profile)
       /\ \/ inv'[w].pc = "launch" /\ inv'[w].runner = r
          \/ inv'[w].pc = "revert" /\ inv'[w].runner = inv[w].runner

\* The call that launches the instance.
Starts(w) ==
  LET r == inv[w].runner
  IN /\ inv[w].pc = "launch" /\ runners' = runners /\ jobs' = jobs
     /\ r \in Runners /\ inv'[w].runner = r /\ SameEc2But(r)
     /\ \/ inv'[w].pc = "setInstance" /\ ec2'[r]
        \/ inv'[w].pc = "failRow"

Names(w) ==
  LET r == inv[w].runner
  IN /\ inv[w].pc = "setInstance" /\ ec2' = ec2 /\ jobs' = jobs
     /\ r \in Runners /\ inv'[w].pc = "bind" /\ inv'[w].runner = r
     /\ SameRunnersBut(r) /\ runners'[r] = [runners[r] EXCEPT !.instance = TRUE]

Drops(w) ==
  LET r == inv[w].runner
  IN /\ inv[w].pc = "failRow" /\ ec2' = ec2 /\ jobs' = jobs
     /\ r \in Runners /\ inv'[w].pc = "revert" /\ inv'[w].runner = r
     /\ SameRunnersBut(r)
     /\ runners'[r] = [runners[r] EXCEPT !.status = "FAILED", !.pool = NoPool]

Binds(w) ==
  /\ inv[w].pc = "bind" /\ inv'[w].pc = "done" /\ ec2' = ec2
  /\ inv[w].runner \in Runners /\ JobOf(w) \in Jobs /\ inv[w].profile \in Profiles
  /\ BindToJob(inv[w].runner, JobOf(w), inv[w].profile)

Shares(w) ==
  /\ inv[w].pc = "allocate" /\ inv'[w].pc = "done" /\ ec2' = ec2 /\ JobOf(w) \in Jobs
  /\ \E c \in inv[w].cands : c \in Candidate /\ AllocateIdleRunner(c, JobOf(w))

Frees(w) ==
  /\ inv[w].pc = "free" /\ inv'[w].pc = "done" /\ ec2' = ec2
  /\ inv[w].runner \in Runners /\ inv[w].slot \in SlotIdx /\ inv[w].profile \in Profiles
  /\ MarkIdle(inv[w].runner, inv[w].slot, inv[w].profile)

RunnerStep(w) ==
  /\ SameInvBut(w)
  /\ \/ Elsewhere(w) \/ Opens(w) \/ Starts(w) \/ Names(w) \/ Drops(w)
     \/ Binds(w) \/ Shares(w) \/ Frees(w)

LEMMA QueuedRunner ==
  ASSUME Typed, NEW w \in Workers, Queued(w)
  PROVE  RunnerStep(w)
<1> USE DEF Typed
<1>1. /\ JobOf(w) \in Jobs /\ inv[w].pc \in Before /\ inv[w].profile \in Profiles
      /\ inv[w].cands \in SUBSET Candidate /\ TableTypeOK /\ inv \in [Workers -> Invocation]
      /\ jobs[JobOf(w)] \in JobRow
  <2>1. inv[w].pc \in Before
    BY DEF Queued, Create, Query, Allocate, RetryQuery, StopRetrying, Claim, At, Before
  <2>2. ~At(w, "idle")
    BY <2>1 DEF At, Before
  <2>3. QED
    BY <2>1, <2>2, JobOfType DEF TypeOK, TableTypeOK, Shape, Remembers, Invocation
<1>2. ASSUME NEW s \in {"query", "claim", "done", "createRow"}, GoTo(w, s)
      PROVE  SameInvBut(w) /\ inv'[w].runner = inv[w].runner /\ inv'[w].pc = s
  <2>1. s \in Steps
    BY DEF Steps, Section, ErrorReturned
  <2>2. QED
    BY <1>1, <1>2, <2>1, Moved DEF Keeps
<1>3. ASSUME runners' = runners, ec2' = ec2, SameInvBut(w),
             inv'[w].pc \in Before \cup {"createRow", "done"},
             inv'[w].runner = inv[w].runner,
             \/ jobs' = jobs
             \/ SameJobsBut(JobOf(w)) /\ jobs'[JobOf(w)].status # "ALLOCATED"
      PROVE  RunnerStep(w)
  BY <1>1, <1>3 DEF RunnerStep, Elsewhere, Unopened, Before, Section, SameJobsBut
<1>4. CASE Create(w)
  <2>1. CASE CreateJob(JobOf(w), inv[w].profile) /\ GoTo(w, "query")
    <3>1. SameJobsBut(JobOf(w)) /\ jobs'[JobOf(w)].status = "QUEUED" /\ runners' = runners
      BY <1>1, <2>1, CreateJobEffect
    <3>2. QED
      BY <1>2, <1>3, <1>4, <2>1, <3>1 DEF Create, Before
  <2>2. CASE /\ jobs[JobOf(w)].status = "QUEUED" /\ UNCHANGED table
             /\ inv' = [inv EXCEPT ![w].pc = "query", ![w].retry = jobs[JobOf(w)].retry]
    <3>1. SameInvBut(w) /\ inv'[w].runner = inv[w].runner /\ inv'[w].pc = "query"
      BY <1>1, <2>2 DEF SameInvBut, Invocation
    <3>2. QED
      BY <1>3, <1>4, <2>2, <3>1 DEF Create, Before, table
  <2>3. CASE GoTo(w, "done") /\ UNCHANGED table
    BY <1>2, <1>3, <1>4, <2>3 DEF Create, table
  <2>4. QED
    BY <1>4, <2>1, <2>2, <2>3 DEF Create
<1>5. CASE Query(w)
  <2>1. SameInvBut(w) /\ inv'[w].runner = inv[w].runner /\ inv'[w].pc = "allocate"
    BY <1>1, <1>5 DEF Query, SameInvBut, Invocation
  <2>2. QED
    BY <1>3, <1>5, <2>1 DEF Query, Before
<1>6. CASE Allocate(w)
  <2>1. PICK c \in inv[w].cands :
          \/ /\ AllocateIdleRunner(c, JobOf(w))
             /\ inv' = [inv EXCEPT ![w].pc = "done", ![w].cands = {}]
          \/ inv' = [inv EXCEPT ![w].cands = @ \ {c}] /\ UNCHANGED table
    BY <1>6 DEF Allocate
  <2>2. CASE /\ AllocateIdleRunner(c, JobOf(w))
             /\ inv' = [inv EXCEPT ![w].pc = "done", ![w].cands = {}]
    <3>1. SameInvBut(w) /\ inv'[w].pc = "done" /\ c \in Candidate
      BY <1>1, <2>2 DEF SameInvBut, Invocation
    <3>2. QED
      BY <1>1, <1>6, <2>2, <3>1 DEF Allocate, At, RunnerStep, Shares
  <2>3. CASE inv' = [inv EXCEPT ![w].cands = @ \ {c}] /\ UNCHANGED table
    <3>1. SameInvBut(w) /\ inv'[w].runner = inv[w].runner /\ inv'[w].pc = "allocate"
      BY <1>1, <1>6, <2>3 DEF Allocate, At, SameInvBut, Invocation
    <3>2. QED
      BY <1>3, <1>6, <2>3, <3>1 DEF Allocate, Before, table
  <2>4. QED
    BY <2>1, <2>2, <2>3
<1>7. ASSUME RetryQuery(w) \/ StopRetrying(w) PROVE RunnerStep(w)
  <2>1. PICK s \in {"query", "claim"} : GoTo(w, s)
    BY <1>7 DEF RetryQuery, StopRetrying
  <2>2. QED
    BY <1>2, <1>3, <1>7, <2>1 DEF RetryQuery, StopRetrying, Before
<1>8. CASE Claim(w)
  <2>1. CASE ClaimForProvisioning(JobOf(w)) /\ GoTo(w, "createRow")
    <3>1. /\ SameJobsBut(JobOf(w)) /\ runners' = runners
          /\ jobs'[JobOf(w)] = [jobs[JobOf(w)] EXCEPT !.status = "PROVISIONING"]
      BY <1>1, <2>1, ClaimEffect
    <3>2. jobs'[JobOf(w)].status = "PROVISIONING"
      BY <1>1, <3>1 DEF JobRow
    <3>3. QED
      BY <1>2, <1>3, <1>8, <2>1, <3>1, <3>2 DEF Claim
  <2>2. CASE GoTo(w, "done") /\ UNCHANGED <<table, attempts>>
    BY <1>2, <1>3, <1>8, <2>2 DEF Claim, table
  <2>3. QED
    BY <1>8, <2>1, <2>2 DEF Claim
<1>9. QED
  BY <1>4, <1>5, <1>6, <1>7, <1>8 DEF Queued

LEMMA ProvisionRunnerStep ==
  ASSUME Typed, NEW w \in Workers, ProvisionRunner(w)
  PROVE  RunnerStep(w)
<1> USE DEF Typed
<1>1. /\ JobOf(w) \in Jobs /\ inv[w].pc \in Section /\ inv[w].retry \in Nat
      /\ inv[w].profile \in Profiles /\ TableTypeOK
      /\ inv \in [Workers -> Invocation] /\ ec2 \in [Runners -> BOOLEAN]
      /\ jobs[JobOf(w)] \in JobRow
      /\ (inv[w].pc \in Owning => inv[w].runner \in Runners)
  <2>1. inv[w].pc \in Section
    BY DEF ProvisionRunner, CreateRow, CreateRowFails, Launch, LaunchFails, FailRow, Revert,
           SetInstance, Bind, At, Section
  <2>2. ~At(w, "idle")
    BY <2>1 DEF At, Section
  <2>3. QED
    BY <2>1, <2>2, JobOfType DEF TypeOK, TableTypeOK, Shape, Remembers, Invocation
<1>2. ASSUME NEW s \in {"setInstance", "failRow", "revert", "bind", "done"}, GoTo(w, s)
      PROVE  SameInvBut(w) /\ inv'[w].runner = inv[w].runner /\ inv'[w].pc = s
  <2>1. s \in Steps
    BY DEF Steps, Section
  <2>2. QED
    BY <1>1, <1>2, <2>1, Moved DEF Keeps
<1>3. ASSUME inv' = [inv EXCEPT ![w] = Idle]
      PROVE  SameInvBut(w) /\ inv'[w].pc = "idle" /\ inv'[w].runner = NoRunner
  <2>1. Idle.pc = "idle" /\ Idle.runner = NoRunner
    BY DEF Idle
  <2>2. QED
    BY <1>1, <1>3, <2>1 DEF SameInvBut
<1>4. ASSUME runners' = runners, ec2' = ec2, jobs' = jobs, inv' = [inv EXCEPT ![w] = Idle]
      PROVE  RunnerStep(w)
  BY <1>3, <1>4 DEF RunnerStep, Elsewhere, Section
<1>5. CASE CreateRow(w)
  <2>1. PICK r \in Runners :
          /\ CreateProvisioning(r, inv[w].profile)
          /\ inv' = [inv EXCEPT ![w].pc = "launch", ![w].runner = r]
    BY <1>5 DEF CreateRow
  <2>2. SameInvBut(w) /\ inv'[w].pc = "launch" /\ inv'[w].runner = r
    BY <1>1, <2>1 DEF SameInvBut, Invocation
  <2>3. /\ jobs' = jobs /\ SameRunnersBut(r) /\ runners[r].status = "ABSENT"
        /\ runners'[r] = NewProvisioningRunner(inv[w].profile)
    BY <1>1, <2>1, CreateRowEffect
  <2>4. QED
    BY <1>1, <1>5, <2>2, <2>3 DEF CreateRow, At, RunnerStep, Opens
<1>6. CASE CreateRowFails(w)
  <2>1. SameInvBut(w) /\ inv'[w].pc = "revert" /\ inv'[w].runner = inv[w].runner
    BY <1>2, <1>6 DEF CreateRowFails
  <2>2. CASE UNCHANGED table
    BY <1>1, <1>6, <2>1, <2>2
    DEF CreateRowFails, At, RunnerStep, Elsewhere, table, Unopened, Before
  <2>3. CASE \E r \in Runners : CreateProvisioning(r, inv[w].profile)
    <3>1. PICK r \in Runners : CreateProvisioning(r, inv[w].profile)
      BY <2>3
    <3>2. /\ jobs' = jobs /\ SameRunnersBut(r) /\ runners[r].status = "ABSENT"
          /\ runners'[r] = NewProvisioningRunner(inv[w].profile)
      BY <1>1, <3>1, CreateRowEffect
    <3>3. QED
      BY <1>1, <1>6, <2>1, <3>2 DEF CreateRowFails, At, RunnerStep, Opens
  <2>4. QED
    BY <1>6, <2>2, <2>3 DEF CreateRowFails
<1>7. ASSUME Launch(w) \/ LaunchFails(w) PROVE RunnerStep(w)
  <2>1. PICK up \in BOOLEAN : ec2' = [ec2 EXCEPT ![inv[w].runner] = up]
    BY <1>7 DEF Launch, LaunchFails
  <2>2. inv[w].pc = "launch" /\ inv[w].runner \in Runners
    BY <1>1, <1>7 DEF Launch, LaunchFails, At, Owning
  <2>3. SameEc2But(inv[w].runner)
    BY <1>1, <2>1, <2>2 DEF SameEc2But
  <2>4. \/ GoTo(w, "failRow")
        \/ GoTo(w, "setInstance") /\ ec2'[inv[w].runner]
    BY <1>1, <1>7, <2>2 DEF Launch, LaunchFails
  <2>5. QED
    BY <1>2, <1>7, <2>2, <2>3, <2>4 DEF Launch, LaunchFails, RunnerStep, Starts
<1>8. CASE FailRow(w)
  <2>1. SameInvBut(w) /\ inv'[w].pc = "revert" /\ inv'[w].runner = inv[w].runner
    BY <1>2, <1>8 DEF FailRow
  <2>2. inv[w].pc = "failRow" /\ inv[w].runner \in Runners
    BY <1>1, <1>8 DEF FailRow, At, Owning
  <2>3. CASE MarkRunnerFailed(inv[w].runner)
    <3>1. /\ jobs' = jobs /\ SameRunnersBut(inv[w].runner)
          /\ runners'[inv[w].runner]
               = [runners[inv[w].runner] EXCEPT !.status = "FAILED", !.pool = NoPool]
      BY <1>1, <2>2, <2>3, FailedEffect
    <3>2. QED
      BY <1>8, <2>1, <2>2, <3>1 DEF FailRow, RunnerStep, Drops
  <2>4. CASE UNCHANGED table
    BY <1>1, <1>8, <2>1, <2>4 DEF FailRow, RunnerStep, Elsewhere, table, Unopened, Before
  <2>5. QED
    BY <1>8, <2>3, <2>4 DEF FailRow
<1>9. CASE Revert(w)
  <2>1. SameInvBut(w) /\ inv'[w].pc = "idle" /\ inv'[w].runner = NoRunner
    BY <1>3, <1>9 DEF Revert, GiveBack
  <2>2. /\ runners' = runners
        /\ \A j \in Jobs : jobs'[j].status = "ALLOCATED" => jobs'[j] = jobs[j]
    <3>1. CASE RevertProvisioning(JobOf(w), inv[w].retry)
      <4> DEFINE n == inv[w].retry
      <4>1. /\ SameJobsBut(JobOf(w)) /\ runners' = runners
            /\ \/ jobs'[JobOf(w)] = [jobs[JobOf(w)] EXCEPT !.status = "FAILED", !.retry = n + 1]
               \/ jobs'[JobOf(w)] = [jobs[JobOf(w)] EXCEPT !.status = "QUEUED", !.retry = n + 1]
               \/ jobs' = jobs
        BY <1>1, <3>1, RevertEffect
      <4> HIDE DEF n
      <4>2. QED
        BY <1>1, <4>1 DEF SameJobsBut, JobRow
    <3>2. CASE UNCHANGED table
      BY <3>2 DEF table
    <3>3. QED
      BY <1>9, <3>1, <3>2 DEF Revert
  <2>3. QED
    BY <1>9, <2>1, <2>2 DEF Revert, RunnerStep, Elsewhere, Section
<1>10. CASE SetInstance(w)
  <2>1. inv[w].pc = "setInstance" /\ inv[w].runner \in Runners
    BY <1>1, <1>10 DEF SetInstance, At, Owning
  <2>2. SameInvBut(w) /\ inv'[w].pc = "bind" /\ inv'[w].runner = inv[w].runner
    BY <1>2, <1>10 DEF SetInstance
  <2>3. /\ jobs' = jobs /\ SameRunnersBut(inv[w].runner)
        /\ runners'[inv[w].runner] = [runners[inv[w].runner] EXCEPT !.instance = TRUE]
    BY <1>1, <1>10, <2>1, SetInstanceEffect DEF SetInstance
  <2>4. QED
    BY <1>10, <2>1, <2>2, <2>3 DEF SetInstance, RunnerStep, Names
<1>11. CASE Bind(w)
  <2>1. inv[w].pc = "bind" /\ inv[w].runner \in Runners
    BY <1>1, <1>11 DEF Bind, At, Owning
  <2>2. CASE BindToJob(inv[w].runner, JobOf(w), inv[w].profile) /\ GoTo(w, "done")
    <3>1. SameInvBut(w) /\ inv'[w].pc = "done"
      BY <1>2, <2>2
    <3>2. QED
      BY <1>1, <1>11, <2>1, <2>2, <3>1 DEF Bind, RunnerStep, Binds
  <2>3. CASE GiveBack(w) /\ UNCHANGED table
    BY <1>4, <1>11, <2>3 DEF Bind, GiveBack, table
  <2>4. QED
    BY <1>11, <2>2, <2>3 DEF Bind
<1>12. QED
  BY <1>5, <1>6, <1>7, <1>8, <1>9, <1>10, <1>11 DEF ProvisionRunner

LEMMA CompletedRunner ==
  ASSUME Typed, NEW w \in Workers, Completed(w)
  PROVE  RunnerStep(w)
<1> USE DEF Typed
<1>1. /\ JobOf(w) \in Jobs /\ TableTypeOK /\ inv \in [Workers -> Invocation]
      /\ jobs[JobOf(w)] \in JobRow /\ Remembers(inv[w])
  <2>1. ~At(w, "idle")
    BY DEF Completed, Get, Complete, Free, At
  <2>2. QED
    BY <2>1, JobOfType DEF TypeOK, TableTypeOK, Shape
<1>2. ASSUME NEW s \in {"done", "free"}, GoTo(w, s)
      PROVE  SameInvBut(w) /\ inv'[w].pc = s
  <2>1. s \in Steps
    BY DEF Steps, ErrorReturned
  <2>2. QED
    BY <1>1, <1>2, <2>1, Moved
<1>3. ASSUME runners' = runners, ec2' = ec2, SameInvBut(w),
             inv'[w].pc \in {"complete", "free", "done"},
             \A j \in Jobs : jobs'[j].status = "ALLOCATED" => jobs'[j] = jobs[j]
      PROVE  RunnerStep(w)
  BY <1>3 DEF RunnerStep, Elsewhere, Unopened, Before, Section
<1>4. CASE Get(w)
  <2>1. SameInvBut(w) /\ inv'[w].pc \in {"complete", "done"}
    <3>1. CASE GoTo(w, "done")
      BY <1>2, <3>1
    <3>2. CASE inv' = [inv EXCEPT ![w] = [@ EXCEPT !.pc = "complete",
                         !.profile = jobs[JobOf(w)].profile,
                         !.runner = jobs[JobOf(w)].runner, !.slot = jobs[JobOf(w)].slot]]
      BY <1>1, <3>2 DEF SameInvBut, Invocation
    <3>3. QED
      BY <1>4, <3>1, <3>2 DEF Get
  <2>2. QED
    BY <1>3, <1>4, <2>1 DEF Get
<1>5. CASE Complete(w)
  <2>1. /\ SameJobsBut(JobOf(w)) /\ runners' = runners
        /\ jobs'[JobOf(w)] = [jobs[JobOf(w)] EXCEPT !.status = "COMPLETED"]
    BY <1>1, <1>5, CompleteEffect DEF Complete
  <2>2. \A j \in Jobs : jobs'[j].status = "ALLOCATED" => jobs'[j] = jobs[j]
    BY <1>1, <2>1 DEF SameJobsBut, JobRow
  <2>3. PICK s \in {"done", "free"} : GoTo(w, s)
    BY <1>5 DEF Complete
  <2>4. QED
    BY <1>2, <1>3, <1>5, <2>1, <2>2, <2>3 DEF Complete
<1>6. CASE Free(w)
  <2>1. SameInvBut(w) /\ inv'[w].pc = "done" /\ inv[w].pc = "free"
    BY <1>2, <1>6 DEF Free, At
  <2>2. inv[w].runner \in Runners /\ inv[w].slot \in SlotIdx /\ inv[w].profile \in Profiles
    BY <1>1, <2>1 DEF Remembers, TypeOK, Invocation
  <2>3. QED
    BY <1>6, <2>1, <2>2 DEF Free, RunnerStep, Frees
<1>7. QED
  BY <1>4, <1>5, <1>6 DEF Completed

LEMMA MessageRunner ==
  ASSUME Typed, NEW w \in Workers,
         \/ \E m \in Messages : Receive(w, m)
         \/ Ack(w) \/ Abandon(w)
  PROVE  RunnerStep(w)
<1>1. /\ inv \in [Workers -> Invocation] /\ jobs' = jobs /\ runners' = runners /\ ec2' = ec2
  BY DEF Typed, TypeOK, Receive, Ack, Abandon
<1>2. CASE \E m \in Messages : Receive(w, m)
  <2>1. /\ SameInvBut(w) /\ inv'[w].pc \in {"done", "create", "get"}
        /\ inv[w].pc = "idle" /\ inv'[w].runner = inv[w].runner
    <3>1. PICK m \in Messages : Receive(w, m)
      BY <1>2
    <3>2. m.job \in Jobs /\ Matching[m.job] \subseteq Profiles
      BY MatchingAssumption DEF Messages
    <3>3. PICK p \in Profiles \cup {NoPool} :
            \/ inv' = [inv EXCEPT ![w] = [@ EXCEPT !.msg = m, !.pc = "done"]]
            \/ inv' = [inv EXCEPT ![w] = [@ EXCEPT !.msg = m, !.pc = "create", !.profile = p]]
            \/ inv' = [inv EXCEPT ![w] = [@ EXCEPT !.msg = m, !.pc = "get"]]
      BY <3>1, <3>2 DEF Receive
    <3>4. PICK x : /\ inv' = [inv EXCEPT ![w] = x]
                   /\ \/ x = [inv[w] EXCEPT !.msg = m, !.pc = "done"]
                      \/ x = [inv[w] EXCEPT !.msg = m, !.pc = "create", !.profile = p]
                      \/ x = [inv[w] EXCEPT !.msg = m, !.pc = "get"]
      BY <3>3
    <3>5. x.pc \in {"done", "create", "get"} /\ x.runner = inv[w].runner
      BY <1>1, <3>4 DEF Invocation
    <3>6. QED
      BY <1>1, <3>1, <3>4, <3>5 DEF Receive, At, SameInvBut
  <2>2. QED
    BY <1>1, <2>1 DEF RunnerStep, Elsewhere, Unopened, Before, Section
<1>3. CASE Ack(w) \/ Abandon(w)
  <2>1. inv' = [inv EXCEPT ![w] = Idle]
    BY <1>3 DEF Ack, Abandon, GiveBack
  <2>2. Idle.pc = "idle" /\ Idle.runner = NoRunner
    BY DEF Idle
  <2>3. QED
    BY <1>1, <2>1, <2>2 DEF RunnerStep, Elsewhere, SameInvBut, Section
<1>4. QED
  BY <1>2, <1>3

\* Every step of Provision is one of the eight, or touches no row and no invocation.
LEMMA RunnerSteps ==
  ASSUME Typed, [Next]_vars
  PROVE  (\E w \in Workers : RunnerStep(w)) \/ UNCHANGED <<jobs, runners, inv, ec2>>
<1>1. CASE UNCHANGED vars \/ \E m \in Messages : Send(m)
  BY <1>1 DEF vars, Send
<1>2. CASE \E w \in Workers, m \in Messages : Receive(w, m)
  BY <1>2, MessageRunner
<1>3. CASE \E w \in Workers : Work(w) \/ Abandon(w)
  BY <1>3, QueuedRunner, ProvisionRunnerStep, CompletedRunner, MessageRunner DEF Work
<1>4. QED
  BY <1>1, <1>2, <1>3 DEF Next, Quiescent

-----------------------------------------------------------------------------
(***************************************************************************)
(* The launch of an instance.                                              *)
(***************************************************************************)

\* The runner of an invocation inside provisionRunner is its own, from the put of the
\* row on; until SetInstanceID nobody else can have changed the row.
OwnRow ==
  /\ \A w \in Workers : inv[w].pc \in Unopened => inv[w].runner = NoRunner
  /\ \A w \in Workers : InSection(w) /\ inv[w].runner # NoRunner =>
       /\ runners[inv[w].runner].status # "ABSENT"
       /\ \A v \in Workers \ {w} : InSection(v) => inv[v].runner # inv[w].runner

LaunchStages ==
  \A w \in Workers :
    /\ inv[w].pc \in Unnamed => /\ runners[inv[w].runner].status = "PROVISIONING"
                                /\ ~runners[inv[w].runner].instance
    /\ inv[w].pc = "launch" => ~ec2[inv[w].runner]
    /\ inv[w].pc = "bind" => runners[inv[w].runner].instance

RowsOfInstances ==
  \A r \in Runners : /\ ec2[r] => runners[r].status # "ABSENT"
                     /\ runners[r].status = "ACTIVE" => runners[r].instance

LaunchInv == OwnRow /\ LaunchStages /\ RowsOfInstances

\* A launched instance stays up until its row is taken from PROVISIONING or ACTIVE, if
\* nothing outside the platform turns it off.
StaysUp ==
  /\ \A w \in Workers :
       /\ inv[w].pc = "setInstance" => ec2[inv[w].runner]
       /\ inv[w].pc = "bind" /\ runners[inv[w].runner].status = "PROVISIONING" =>
            ec2[inv[w].runner]
  /\ \A r \in Runners : runners[r].status = "ACTIVE" => ec2[r]

LEMMA LaunchInvInit == Init => LaunchInv /\ StaysUp
<1>1. /\ Idle.pc = "idle" /\ Idle.runner = NoRunner
      /\ NoRunnerRow.status = "ABSENT"
  BY DEF Idle, NoRunnerRow, UnboundRunner
<1>2. QED
  BY <1>1 DEF Init, TableInit, LaunchInv, OwnRow, LaunchStages, RowsOfInstances, StaysUp,
              InSection, Section, Unnamed

\* What the eight steps have in common.
LEMMA RunnerFacts ==
  ASSUME Typed
  PROVE  /\ TableTypeOK /\ inv \in [Workers -> Invocation] /\ ec2 \in [Runners -> BOOLEAN]
         /\ \A r \in Runners : runners[r] \in RunnerRow /\ r # NoRunner
         /\ \A w \in Workers : inv[w].pc \in Owning => inv[w].runner \in Runners
BY TableConstants DEF Typed, TypeOK, TableTypeOK, Shape, Remembers

\* A row is new when it is put.
LEMMA NewRow ==
  ASSUME NEW p \in Profiles
  PROVE  LET row == NewProvisioningRunner(p)
         IN /\ row.status = "PROVISIONING" /\ ~row.instance /\ row.pool = NoPool
            /\ row.profile = p /\ \A i \in SlotIdx : row.slots[i] = PlaceholderSlot
BY DEF NewProvisioningRunner, UnboundRunner

LEMMA BoundRow ==
  ASSUME Typed, NEW w \in Workers, Binds(w)
  PROVE  LET r == inv[w].runner
         IN /\ TableTypeOK' /\ SameRunnersBut(r) /\ SameJobsBut(JobOf(w))
            /\ Bound(r, JobOf(w), inv[w].profile)
            /\ runners[r].status = "PROVISIONING" /\ runners'[r].status = "ACTIVE"
            /\ runners'[r].instance = runners[r].instance
            /\ runners'[r].profile = runners[r].profile
            /\ runners'[r].pool = IF RunnerCount > 1 THEN inv[w].profile ELSE runners[r].pool
            /\ jobs[JobOf(w)].status = "PROVISIONING"
            /\ jobs'[JobOf(w)].status = "ALLOCATED" /\ jobs'[JobOf(w)].runner = r
            /\ jobs'[JobOf(w)].slot = 0
<1> DEFINE r == inv[w].runner
           j == JobOf(w)
           p == inv[w].profile
<1>1. r \in Runners /\ j \in Jobs /\ p \in Profiles /\ BindToJob(r, j, p)
  BY DEF Binds
<1>2. TableTypeOK /\ jobs[j] \in JobRow
  BY <1>1, RunnerFacts DEF TableTypeOK
<1> HIDE DEF r, j, p
<1>3. /\ TableTypeOK' /\ SameJobsBut(j) /\ SameRunnersBut(r) /\ Bound(r, j, p)
      /\ jobs[j].status = "PROVISIONING"
      /\ jobs'[j] = [jobs[j] EXCEPT !.status = "ALLOCATED", !.runner = r, !.slot = 0]
  BY <1>1, <1>2, BindEffect
<1>4. /\ jobs'[j].status = "ALLOCATED" /\ jobs'[j].runner = r /\ jobs'[j].slot = 0
  BY <1>2, <1>3 DEF JobRow
<1>5. QED
  BY <1>3, <1>4 DEF Bound, r, j, p

\* A row that was put stays in the table.
LEMMA RowsStay ==
  ASSUME Typed, NEW w \in Workers, RunnerStep(w), NEW r \in Runners,
         runners[r].status # "ABSENT"
  PROVE  runners'[r].status # "ABSENT"
<1> USE RunnerFacts
<1>1. CASE Elsewhere(w) \/ Starts(w)
  BY <1>1 DEF Elsewhere, Starts
<1>2. CASE Opens(w)
  BY <1>2, NewRow DEF Opens, SameRunnersBut
<1>3. CASE Names(w)
  BY <1>3 DEF Names, SameRunnersBut, RunnerRow
<1>4. CASE Drops(w)
  BY <1>4 DEF Drops, SameRunnersBut, RunnerRow
<1>5. CASE Binds(w)
  <2>1. SameRunnersBut(inv[w].runner) /\ runners'[inv[w].runner].status = "ACTIVE"
    BY <1>5, BoundRow
  <2>2. QED
    BY <2>1 DEF SameRunnersBut
<1>6. CASE Shares(w)
  BY <1>6, AllocateEffect DEF Shares, SameRunnerStatus
<1>7. CASE Frees(w)
  BY <1>7, MarkIdleEffect DEF Frees, SameRunnerStatus
<1>8. QED
  BY <1>1, <1>2, <1>3, <1>4, <1>5, <1>6, <1>7 DEF RunnerStep

\* An invocation inside provisionRunner keeps its runner, or has just put its row.
LEMMA RunnerTaken ==
  ASSUME Typed, LaunchInv, NEW w \in Workers, RunnerStep(w)
  PROVE  /\ inv'[w].pc \in Unopened => inv'[w].runner = NoRunner
         /\ inv'[w].pc \in Section /\ inv'[w].runner # NoRunner =>
              \/ /\ inv[w].pc \in Section /\ inv'[w].runner = inv[w].runner
              \/ /\ inv'[w].runner \in Runners
                 /\ runners[inv'[w].runner].status = "ABSENT"
                 /\ runners'[inv'[w].runner].status # "ABSENT"
<1> USE RunnerFacts DEF LaunchInv
<1>1. ASSUME inv'[w].pc \in Unopened PROVE inv'[w].runner = NoRunner
  BY <1>1 DEF OwnRow, RunnerStep, Elsewhere, Opens, Starts, Names, Drops, Binds, Shares, Frees,
              Unopened, Before
<1>2. ASSUME inv'[w].pc \in Section, inv'[w].runner # NoRunner
      PROVE  \/ /\ inv[w].pc \in Section /\ inv'[w].runner = inv[w].runner
             \/ /\ inv'[w].runner \in Runners
                /\ runners[inv'[w].runner].status = "ABSENT"
                /\ runners'[inv'[w].runner].status # "ABSENT"
  <2>1. CASE Elsewhere(w)
    BY <1>1, <1>2, <2>1 DEF Elsewhere, Unopened
  <2>2. CASE Opens(w)
    BY <1>2, <2>2, NewRow DEF Opens, OwnRow, Section
  <2>3. CASE Starts(w) \/ Names(w) \/ Drops(w)
    BY <2>3 DEF Starts, Names, Drops, Section
  <2>4. CASE Binds(w) \/ Shares(w) \/ Frees(w)
    BY <1>2, <2>4 DEF Binds, Shares, Frees, Section
  <2>5. QED
    BY <2>1, <2>2, <2>3, <2>4 DEF RunnerStep
<1>3. QED
  BY <1>1, <1>2

LEMMA OwnRowStep ==
  ASSUME Typed, LaunchInv, NEW w \in Workers, RunnerStep(w)
  PROVE  OwnRow'
<1> USE RunnerFacts DEF LaunchInv
<1>1. \A r \in Runners : runners[r].status # "ABSENT" => runners'[r].status # "ABSENT"
  BY RowsStay
<1>2. inv'[w].pc \in Unopened => inv'[w].runner = NoRunner
  BY RunnerTaken
<1>3. inv'[w].pc \in Section /\ inv'[w].runner # NoRunner =>
        \/ /\ inv[w].pc \in Section /\ inv'[w].runner = inv[w].runner
        \/ /\ inv'[w].runner \in Runners
           /\ runners[inv'[w].runner].status = "ABSENT"
           /\ runners'[inv'[w].runner].status # "ABSENT"
  BY RunnerTaken
<1>4. \A v \in Workers \ {w} : inv'[v] = inv[v]
  BY DEF RunnerStep, SameInvBut
<1>5. ASSUME NEW v \in Workers, InSection(v)', inv'[v].runner # NoRunner
      PROVE  runners'[inv'[v].runner].status # "ABSENT" /\ inv'[v].runner \in Runners
  <2>1. CASE InSection(v) /\ inv'[v].runner = inv[v].runner
    <3>1. inv[v].runner \in Runners
      BY <1>5, <2>1 DEF Invocation
    <3>2. QED
      BY <1>1, <1>5, <2>1, <3>1 DEF OwnRow
  <2>2. CASE v = w
    BY <1>3, <1>5, <2>1, <2>2 DEF InSection
  <2>3. QED
    BY <1>4, <1>5, <2>1, <2>2 DEF InSection
<1>6. ASSUME NEW v \in Workers, NEW u \in Workers \ {v}, InSection(v)', InSection(u)',
             inv'[v].runner # NoRunner
      PROVE  inv'[u].runner # inv'[v].runner
  <2>1. CASE v # w /\ u # w
    BY <1>4, <1>6, <2>1 DEF OwnRow, InSection
  <2>2. CASE v = w
    BY <1>3, <1>4, <1>6, <2>2 DEF OwnRow, InSection
  <2>3. CASE u = w
    BY <1>3, <1>4, <1>6, <2>3 DEF OwnRow, InSection
  <2>4. QED
    BY <2>1, <2>2, <2>3
<1>7. QED
  BY <1>2, <1>4, <1>5, <1>6 DEF OwnRow

LEMMA LaunchInvStep ==
  ASSUME Typed, LaunchInv, NEW w \in Workers, RunnerStep(w)
  PROVE  LaunchInv'
<1> USE RunnerFacts DEF LaunchInv
<1>1. OwnRow'
  BY OwnRowStep
<1>2. SameInvBut(w)
  BY DEF RunnerStep
\* Nobody but its own invocation touches a row before it is named, or un-names it.
<1>3. ASSUME NEW v \in Workers \ {w}, inv[v].pc \in Owning,
             LET r == inv[v].runner
             IN /\ runners'[r].instance = runners[r].instance
                /\ ~runners[r].instance => runners'[r].status = runners[r].status
                /\ inv[v].pc = "launch" => ec2'[r] = ec2[r]
      PROVE  LET r == inv'[v].runner
             IN /\ inv'[v].pc \in Unnamed => /\ runners'[r].status = "PROVISIONING"
                                             /\ ~runners'[r].instance
                /\ inv'[v].pc = "launch" => ~ec2'[r]
                /\ inv'[v].pc = "bind" => runners'[r].instance
  BY <1>2, <1>3 DEF LaunchStages, SameInvBut, Unnamed
<1>4. ASSUME NEW v \in Workers \ {w}, inv[v].pc \in Owning, inv[w].pc \in Section
      PROVE  inv[v].runner \in Runners /\ inv[v].runner # inv[w].runner
  BY <1>4 DEF OwnRow, InSection, Owning, Section
<1>5. ASSUME NEW v \in Workers \ {w}, inv[v].pc \in Owning
      PROVE  inv[v].runner \in Runners /\ runners[inv[v].runner].status # "ABSENT"
  BY <1>5 DEF OwnRow, InSection, Owning, Section
<1> DEFINE Stage(v) == LET r == inv'[v].runner
             IN /\ inv'[v].pc \in Unnamed => /\ runners'[r].status = "PROVISIONING"
                                             /\ ~runners'[r].instance
                /\ inv'[v].pc = "launch" => ~ec2'[r]
                /\ inv'[v].pc = "bind" => runners'[r].instance
<1>6. ASSUME NEW v \in Workers \ {w} PROVE inv[v].pc \notin Owning => Stage(v)
  BY <1>2, <1>6 DEF SameInvBut, Owning, Unnamed
<1>7. CASE Elsewhere(w)
  <2>1. Stage(w)
    BY <1>7 DEF Elsewhere, Section, Unnamed
  <2>2. QED
    BY <1>1, <1>3, <1>6, <1>7, <2>1 DEF Elsewhere, LaunchStages, RowsOfInstances
<1>8. CASE Opens(w)
  <2>1. PICK r \in Runners :
          /\ runners[r].status = "ABSENT"
          /\ SameRunnersBut(r) /\ runners'[r] = NewProvisioningRunner(inv[w].profile)
          /\ \/ inv'[w].pc = "launch" /\ inv'[w].runner = r
             \/ inv'[w].pc = "revert"
    BY <1>8 DEF Opens
  <2>2. runners'[r].status = "PROVISIONING" /\ ~runners'[r].instance /\ ec2' = ec2 /\ ~ec2[r]
    BY <1>8, <2>1, NewRow DEF Opens, RowsOfInstances
  <2>3. Stage(w)
    BY <2>1, <2>2 DEF Unnamed
  <2>4. \A v \in Workers \ {w} : Stage(v)
    BY <1>3, <1>5, <1>6, <2>1, <2>2 DEF SameRunnersBut
  <2>5. RowsOfInstances'
    BY <2>1, <2>2 DEF RowsOfInstances, SameRunnersBut
  <2>6. QED
    BY <1>1, <2>3, <2>4, <2>5 DEF LaunchStages
<1>9. CASE Starts(w)
  <2>1. Stage(w)
    BY <1>9 DEF Starts, LaunchStages, Unnamed
  <2>2. \A v \in Workers \ {w} : Stage(v)
    BY <1>3, <1>4, <1>6, <1>9 DEF Starts, SameEc2But, Section
  <2>3. RowsOfInstances'
    BY <1>9 DEF Starts, RowsOfInstances, LaunchStages, SameEc2But, Unnamed
  <2>4. QED
    BY <1>1, <2>1, <2>2, <2>3 DEF LaunchStages
<1>10. CASE Names(w)
  <2>1. /\ runners'[inv[w].runner].instance
        /\ runners'[inv[w].runner].status = runners[inv[w].runner].status
    BY <1>10 DEF Names, RunnerRow
  <2>2. Stage(w)
    BY <1>10, <2>1 DEF Names, Unnamed
  <2>3. \A v \in Workers \ {w} : Stage(v)
    BY <1>3, <1>4, <1>6, <1>10 DEF Names, SameRunnersBut, Section
  <2>4. RowsOfInstances'
    <3>1. ec2' = ec2 /\ SameRunnersBut(inv[w].runner)
      BY <1>10 DEF Names
    <3>2. QED
      BY <2>1, <3>1 DEF RowsOfInstances, SameRunnersBut
  <2>5. QED
    BY <1>1, <2>2, <2>3, <2>4 DEF LaunchStages
<1>11. CASE Drops(w)
  <2>1. Stage(w)
    BY <1>11 DEF Drops, Unnamed
  <2>2. \A v \in Workers \ {w} : Stage(v)
    BY <1>3, <1>4, <1>6, <1>11 DEF Drops, SameRunnersBut, Section
  <2>3. runners'[inv[w].runner].status = "FAILED"
    BY <1>11 DEF Drops, RunnerRow
  <2>4. RowsOfInstances'
    BY <1>11, <2>3 DEF Drops, RowsOfInstances, SameRunnersBut
  <2>5. QED
    BY <1>1, <2>1, <2>2, <2>4 DEF LaunchStages
<1>12. CASE Binds(w)
  <2>1. /\ SameRunnersBut(inv[w].runner) /\ runners'[inv[w].runner].status = "ACTIVE"
        /\ runners'[inv[w].runner].instance = runners[inv[w].runner].instance
    BY <1>12, BoundRow
  <2>2. Stage(w)
    BY <1>12 DEF Binds, Unnamed
  <2>3. \A v \in Workers \ {w} : Stage(v)
    BY <1>3, <1>4, <1>6, <1>12, <2>1 DEF Binds, SameRunnersBut, Section
  <2>4. runners[inv[w].runner].instance
    BY <1>12 DEF Binds, LaunchStages
  <2>5. RowsOfInstances'
    BY <1>12, <2>1, <2>4 DEF Binds, RowsOfInstances, SameRunnersBut
  <2>6. QED
    BY <1>1, <2>2, <2>3, <2>5 DEF LaunchStages
<1>13. CASE Shares(w) \/ Frees(w)
  <2>1. SameRunnerStatus /\ ec2' = ec2 /\ inv'[w].pc = "done"
    BY <1>13, AllocateEffect, MarkIdleEffect DEF Shares, Frees
  <2>2. Stage(w)
    BY <2>1 DEF Unnamed
  <2>3. \A v \in Workers \ {w} : Stage(v)
    BY <1>3, <1>5, <1>6, <2>1 DEF SameRunnerStatus
  <2>4. RowsOfInstances'
    BY <2>1 DEF RowsOfInstances, SameRunnerStatus
  <2>5. QED
    BY <1>1, <2>2, <2>3, <2>4 DEF LaunchStages
<1>14. QED
  BY <1>7, <1>8, <1>9, <1>10, <1>11, <1>12, <1>13 DEF RunnerStep

LEMMA StaysUpStep ==
  ASSUME Typed, LaunchInv, StaysUp, NEW w \in Workers, RunnerStep(w)
  PROVE  StaysUp'
<1> USE RunnerFacts DEF LaunchInv
<1> DEFINE Up(v) ==
             /\ inv'[v].pc = "setInstance" => ec2'[inv'[v].runner]
             /\ inv'[v].pc = "bind" /\ runners'[inv'[v].runner].status = "PROVISIONING" =>
                  ec2'[inv'[v].runner]
<1>1. SameInvBut(w)
  BY DEF RunnerStep
\* Whoever else has a runner has another one, and its row exists.
<1>2. ASSUME NEW v \in Workers \ {w}, inv'[v].pc \in {"setInstance", "bind"}
      PROVE  /\ inv'[v] = inv[v] /\ inv[v].runner \in Runners
             /\ runners[inv[v].runner].status # "ABSENT"
             /\ inv[w].pc \in Section => inv[v].runner # inv[w].runner
  BY <1>1, <1>2 DEF SameInvBut, OwnRow, InSection, Owning, Section
<1>3. CASE Elsewhere(w)
  <2>1. inv'[w].pc \notin {"setInstance", "bind"}
    BY <1>3 DEF Elsewhere, Section
  <2>2. QED
    BY <1>2, <1>3, <2>1 DEF Elsewhere, StaysUp
<1>4. CASE Opens(w)
  <2>1. PICK r \in Runners :
          /\ runners[r].status = "ABSENT" /\ SameRunnersBut(r)
          /\ runners'[r].status = "PROVISIONING"
    BY <1>4, NewRow DEF Opens
  <2>2. ec2' = ec2 /\ inv'[w].pc \in {"launch", "revert"}
    BY <1>4 DEF Opens
  <2>3. \A v \in Workers : Up(v)
    BY <1>2, <2>1, <2>2 DEF StaysUp, SameRunnersBut
  <2>4. QED
    BY <2>1, <2>2, <2>3 DEF StaysUp, SameRunnersBut
<1>5. CASE Starts(w)
  <2>1. Up(w)
    BY <1>5 DEF Starts
  <2>2. \A v \in Workers \ {w} : Up(v)
    BY <1>2, <1>5 DEF Starts, StaysUp, SameEc2But, Section
  <2>3. runners[inv[w].runner].status # "ACTIVE"
    BY <1>5 DEF Starts, LaunchStages, Unnamed
  <2>4. QED
    BY <1>5, <2>1, <2>2, <2>3 DEF Starts, StaysUp, SameEc2But
<1>6. CASE Names(w)
  <2>1. runners'[inv[w].runner].status = runners[inv[w].runner].status
    BY <1>6 DEF Names, RunnerRow
  <2>2. Up(w)
    BY <1>6 DEF Names, StaysUp
  <2>3. \A v \in Workers \ {w} : Up(v)
    BY <1>2, <1>6 DEF Names, StaysUp, SameRunnersBut, Section
  <2>4. QED
    BY <1>6, <2>1, <2>2, <2>3 DEF Names, StaysUp, SameRunnersBut
<1>7. CASE Drops(w)
  <2>1. runners'[inv[w].runner].status = "FAILED"
    BY <1>7 DEF Drops, RunnerRow
  <2>2. \A v \in Workers : Up(v)
    BY <1>2, <1>7 DEF Drops, StaysUp, SameRunnersBut, Section
  <2>3. QED
    BY <1>7, <2>1, <2>2 DEF Drops, StaysUp, SameRunnersBut
<1>8. CASE Binds(w)
  <2>1. /\ SameRunnersBut(inv[w].runner) /\ ec2' = ec2 /\ inv'[w].pc = "done"
        /\ inv[w].runner \in Runners /\ inv[w].pc = "bind"
        /\ runners[inv[w].runner].status = "PROVISIONING"
    BY <1>8, BoundRow DEF Binds
  <2>2. \A v \in Workers : Up(v)
    BY <1>2, <2>1 DEF StaysUp, SameRunnersBut, Section
  <2>3. ec2[inv[w].runner]
    BY <2>1 DEF StaysUp
  <2>4. QED
    BY <2>1, <2>2, <2>3 DEF StaysUp, SameRunnersBut
<1>9. CASE Shares(w) \/ Frees(w)
  <2>1. SameRunnerStatus /\ ec2' = ec2 /\ inv'[w].pc = "done"
    BY <1>9, AllocateEffect, MarkIdleEffect DEF Shares, Frees
  <2>2. QED
    BY <1>2, <2>1 DEF StaysUp, SameRunnerStatus
<1>10. QED
  BY <1>3, <1>4, <1>5, <1>6, <1>7, <1>8, <1>9 DEF RunnerStep

\* An instance never runs without a row to find it by, and no job gets a slot of one
\* before it was launched and its ID put on record, whatever call of provisionRunner
\* fails and wherever its invocation dies.
THEOREM Recorded == Spec => []RecordedInstance
<1>1. Init => LaunchInv /\ StaysUp
  BY LaunchInvInit
<1>2. ASSUME IInv, LaunchInv, StaysUp, [Next]_vars
      PROVE  LaunchInv' /\ StaysUp'
  <2>1. CASE UNCHANGED <<jobs, runners, inv, ec2>>
    BY <1>2, <2>1
    DEF LaunchInv, OwnRow, LaunchStages, RowsOfInstances, StaysUp, InSection
  <2>2. QED
    BY <1>2, <2>1, RunnerSteps, LaunchInvStep, StaysUpStep DEF IInv
<1>3. LaunchInv /\ StaysUp => RecordedInstance
  BY DEF LaunchInv, RowsOfInstances, StaysUp, RecordedInstance
<1>4. QED
  BY <1>1, <1>2, <1>3, Inductive, PTL DEF Spec

-----------------------------------------------------------------------------
(***************************************************************************)
(* What becomes of a message, and what an invocation remembers of the rows *)
(* it read.                                                                *)
(***************************************************************************)

\* Handle works on its message, or gives it back, or is done with it.
Turned(w) ==
  LET old == inv[w]
      new == inv'[w]
      m == old.msg
  IN /\ ~At(w, "idle") /\ SameInvBut(w) /\ sent' = sent /\ deliveries' = deliveries
     /\ \/ /\ new = Idle
           /\ \/ queue' = queue
              \/ queue' = queue \cup {m} /\ deliveries[m] < MaxReceive[m.kind]
        \/ /\ new.msg = m /\ queue' = queue /\ new.pc \notin {"idle", "create", "get"}
           /\ new.pc \in Before \cup Section =>
                /\ old.pc \in Before \cup Section /\ new.profile = old.profile
                /\ \/ /\ new.retry = old.retry
                      /\ old.pc = "create" => CreateJob(JobOf(w), old.profile)
                   \/ /\ jobs[JobOf(w)].status = "QUEUED" /\ new.retry = jobs[JobOf(w)].retry
                      /\ UNCHANGED table
                /\ \/ new.cands \subseteq old.cands
                   \/ new.cands = IdleCandidates(old.profile) /\ UNCHANGED table
           /\ new.pc \in {"createRow", "query", "allocate", "claim"} =>
                UNCHANGED <<runners, ec2>>
           /\ new.pc = "complete" =>
                /\ old.pc = "get" /\ new.profile = jobs[JobOf(w)].profile
                /\ new.runner = jobs[JobOf(w)].runner /\ new.slot = jobs[JobOf(w)].slot
                /\ UNCHANGED table
           /\ new.pc = "free" =>
                /\ old.pc = "complete" /\ old.runner # NoRunner /\ MarkCompleted(JobOf(w))
                /\ new.runner = old.runner /\ new.slot = old.slot /\ new.profile = old.profile

LEMMA QueuedTurn ==
  ASSUME Typed, NEW w \in Workers, Queued(w)
  PROVE  Turned(w)
<1>1. /\ inv \in [Workers -> Invocation] /\ inv[w].pc \in Before /\ inv[w].pc # "idle"
      /\ UNCHANGED <<queue, sent, deliveries, ec2>>
  BY DEF Typed, TypeOK, Queued, Create, Query, Allocate, RetryQuery, StopRetrying, Claim, At,
         Before, queueVars
<1>2. ASSUME NEW s \in {"query", "claim", "done", "createRow"}, GoTo(w, s),
             s # "done" => runners' = runners,
             inv[w].pc = "create" /\ s # "done" => CreateJob(JobOf(w), inv[w].profile)
      PROVE  Turned(w)
  <2>1. s \in Steps /\ s \notin {"idle", "create", "get", "complete", "free"}
    BY DEF Steps, Section, ErrorReturned
  <2>2. SameInvBut(w) /\ Keeps(w) /\ inv'[w].pc = s
    BY <1>1, <1>2, <2>1, Moved
  <2>3. inv'[w].cands = inv[w].cands /\ inv'[w].retry = inv[w].retry
    BY <1>1, <1>2, <2>1 DEF GoTo, Invocation
  <2>4. QED
    BY <1>1, <1>2, <2>1, <2>2, <2>3 DEF Turned, Keeps, At, Before, Section
<1>3. CASE Create(w)
  <2>1. CASE CreateJob(JobOf(w), inv[w].profile) /\ GoTo(w, "query")
    <3>1. runners' = runners
      BY <2>1 DEF CreateJob
    <3>2. QED
      BY <1>2, <2>1, <3>1
  <2>2. CASE /\ jobs[JobOf(w)].status = "QUEUED" /\ UNCHANGED table
             /\ inv' = [inv EXCEPT ![w].pc = "query", ![w].retry = jobs[JobOf(w)].retry]
    <3>1. /\ SameInvBut(w) /\ inv'[w].msg = inv[w].msg /\ inv'[w].profile = inv[w].profile
          /\ inv'[w].pc = "query" /\ inv'[w].retry = jobs[JobOf(w)].retry
          /\ inv'[w].cands = inv[w].cands
      BY <1>1, <2>2 DEF SameInvBut, Invocation
    <3>2. QED
      BY <1>1, <2>2, <3>1 DEF Turned, At, Before, Section, table
  <2>3. CASE GoTo(w, "done")
    BY <1>2, <2>3
  <2>4. QED
    BY <1>3, <2>1, <2>2, <2>3 DEF Create
<1>4. CASE Query(w)
  <2>1. /\ SameInvBut(w) /\ inv'[w].msg = inv[w].msg /\ inv'[w].profile = inv[w].profile
        /\ inv'[w].pc = "allocate" /\ inv'[w].retry = inv[w].retry
        /\ inv'[w].cands = IdleCandidates(inv[w].profile)
    BY <1>1, <1>4 DEF Query, SameInvBut, Invocation
  <2>2. QED
    BY <1>1, <1>4, <2>1 DEF Query, Turned, At, Before, Section, table
<1>5. CASE Allocate(w)
  <2>1. PICK c \in inv[w].cands :
          \/ inv' = [inv EXCEPT ![w].pc = "done", ![w].cands = {}]
          \/ inv' = [inv EXCEPT ![w].cands = @ \ {c}] /\ UNCHANGED table
    BY <1>5 DEF Allocate
  <2>2. CASE inv' = [inv EXCEPT ![w].pc = "done", ![w].cands = {}]
    <3>1. SameInvBut(w) /\ inv'[w].msg = inv[w].msg /\ inv'[w].pc = "done"
      BY <1>1, <2>2 DEF SameInvBut, Invocation
    <3>2. QED
      BY <1>1, <3>1 DEF Turned, At, Before, Section
  <2>3. CASE inv' = [inv EXCEPT ![w].cands = @ \ {c}] /\ UNCHANGED table
    <3>1. /\ SameInvBut(w) /\ inv'[w].msg = inv[w].msg /\ inv'[w].profile = inv[w].profile
          /\ inv'[w].pc = "allocate" /\ inv'[w].retry = inv[w].retry
          /\ inv'[w].cands \subseteq inv[w].cands
      BY <1>1, <1>5, <2>3 DEF SameInvBut, Invocation, Allocate, At
    <3>2. QED
      BY <1>1, <2>3, <3>1 DEF Turned, At, Before, Section, table
  <2>4. QED
    BY <2>1, <2>2, <2>3
<1>6. CASE RetryQuery(w) \/ StopRetrying(w)
  BY <1>2, <1>6 DEF RetryQuery, StopRetrying, At
<1>7. CASE Claim(w)
  BY <1>2, <1>7 DEF Claim, ClaimForProvisioning, At
<1>8. QED
  BY <1>3, <1>4, <1>5, <1>6, <1>7 DEF Queued

\* A message given back, and one that is done.
Leaves(w) == GiveBack(w) \/ (inv' = [inv EXCEPT ![w] = Idle] /\ UNCHANGED queueVars)

LEMMA EndTurn ==
  ASSUME Typed, NEW w \in Workers, ~At(w, "idle"), Leaves(w)
  PROVE  Turned(w)
<1>1. inv' = [inv EXCEPT ![w] = Idle]
  BY DEF Leaves, GiveBack
<1>2. SameInvBut(w) /\ inv'[w] = Idle
  BY <1>1 DEF Typed, TypeOK, SameInvBut
<1>3. /\ sent' = sent /\ deliveries' = deliveries
      /\ \/ queue' = queue
         \/ /\ queue' = queue \cup {inv[w].msg}
            /\ deliveries[inv[w].msg] < MaxReceive[inv[w].msg.kind]
  BY DEF Leaves, GiveBack, queueVars
<1>4. QED
  BY <1>2, <1>3 DEF Turned

LEMMA ProvisionTurn ==
  ASSUME Typed, NEW w \in Workers, ProvisionRunner(w)
  PROVE  Turned(w)
<1>1. /\ inv \in [Workers -> Invocation] /\ inv[w].pc \in Section /\ ~At(w, "idle")
  BY DEF Typed, TypeOK, ProvisionRunner, CreateRow, CreateRowFails, Launch, LaunchFails,
         FailRow, Revert, SetInstance, Bind, At, Section
<1>2. ASSUME NEW s \in {"setInstance", "failRow", "revert", "bind", "done"}, GoTo(w, s),
             UNCHANGED queueVars
      PROVE  Turned(w)
  <2>1. s \in Steps /\ s \notin {"idle", "get", "complete", "free"} \cup Before \cup {"createRow"}
    BY DEF Steps, Section, ErrorReturned, Before
  <2>2. SameInvBut(w) /\ Keeps(w) /\ inv'[w].pc = s
    BY <1>1, <1>2, <2>1, Moved
  <2>3. inv'[w].cands = inv[w].cands /\ inv'[w].retry = inv[w].retry
    BY <1>1, <1>2, <2>1 DEF GoTo, Invocation
  <2>4. QED
    BY <1>1, <1>2, <2>1, <2>2, <2>3 DEF Turned, Keeps, At, Before, Section, queueVars
<1>3. CASE CreateRow(w)
  <2>1. PICK r \in Runners : inv' = [inv EXCEPT ![w].pc = "launch", ![w].runner = r]
    BY <1>3 DEF CreateRow
  <2>2. /\ SameInvBut(w) /\ inv'[w].msg = inv[w].msg /\ inv'[w].profile = inv[w].profile
        /\ inv'[w].pc = "launch" /\ inv'[w].retry = inv[w].retry
        /\ inv'[w].cands = inv[w].cands
    BY <1>1, <2>1 DEF SameInvBut, Invocation
  <2>3. QED
    BY <1>1, <1>3, <2>2 DEF CreateRow, Turned, At, Before, Section, queueVars
<1>4. CASE CreateRowFails(w) \/ Launch(w) \/ LaunchFails(w) \/ FailRow(w) \/ SetInstance(w)
  BY <1>2, <1>4 DEF CreateRowFails, Launch, LaunchFails, FailRow, SetInstance
<1>5. CASE Revert(w)
  BY <1>1, <1>5, EndTurn DEF Revert, Leaves
<1>6. CASE Bind(w)
  <2>1. CASE GoTo(w, "done") /\ UNCHANGED queueVars
    BY <1>2, <2>1
  <2>2. CASE GiveBack(w)
    BY <1>1, <2>2, EndTurn DEF Leaves
  <2>3. QED
    BY <1>6, <2>1, <2>2 DEF Bind
<1>7. QED
  BY <1>3, <1>4, <1>5, <1>6 DEF ProvisionRunner

LEMMA CompletedTurn ==
  ASSUME Typed, NEW w \in Workers, Completed(w)
  PROVE  Turned(w)
<1>1. /\ inv \in [Workers -> Invocation] /\ ~At(w, "idle") /\ UNCHANGED queueVars
  BY DEF Typed, TypeOK, Completed, Get, Complete, Free, At
<1>2. ASSUME NEW s \in {"done", "free"}, GoTo(w, s)
      PROVE  /\ SameInvBut(w) /\ Keeps(w) /\ inv'[w].pc = s
             /\ s = "done" => Turned(w)
  <2>1. s \in Steps
    BY DEF Steps, ErrorReturned
  <2>2. SameInvBut(w) /\ Keeps(w) /\ inv'[w].pc = s
    BY <1>1, <1>2, <2>1, Moved
  <2>3. QED
    BY <1>1, <2>2 DEF Turned, Keeps, Before, Section, queueVars
<1>3. CASE Get(w)
  <2>1. CASE GoTo(w, "done")
    BY <1>2, <2>1
  <2>2. CASE inv' = [inv EXCEPT ![w] = [@ EXCEPT !.pc = "complete",
                       !.profile = jobs[JobOf(w)].profile,
                       !.runner = jobs[JobOf(w)].runner, !.slot = jobs[JobOf(w)].slot]]
    <3>1. /\ SameInvBut(w) /\ inv'[w].msg = inv[w].msg /\ inv'[w].pc = "complete"
          /\ inv'[w].profile = jobs[JobOf(w)].profile
          /\ inv'[w].runner = jobs[JobOf(w)].runner /\ inv'[w].slot = jobs[JobOf(w)].slot
      BY <1>1, <2>2 DEF SameInvBut, Invocation
    <3>2. QED
      BY <1>1, <1>3, <3>1 DEF Get, Turned, At, Before, Section, queueVars, table
  <2>3. QED
    BY <1>3, <2>1, <2>2 DEF Get
<1>4. CASE Complete(w)
  <2>1. CASE inv[w].runner = NoRunner
    BY <1>2, <1>4, <2>1 DEF Complete
  <2>2. CASE inv[w].runner # NoRunner
    <3>1. SameInvBut(w) /\ Keeps(w) /\ inv'[w].pc = "free"
      BY <1>2, <1>4, <2>2 DEF Complete
    <3>2. QED
      BY <1>1, <1>4, <2>2, <3>1 DEF Complete, Turned, Keeps, At, Before, Section, queueVars
  <2>3. QED
    BY <2>1, <2>2
<1>5. CASE Free(w)
  BY <1>2, <1>5 DEF Free
<1>6. QED
  BY <1>3, <1>4, <1>5 DEF Completed

\* A delivery.
Received(w) ==
  LET m == inv'[w].msg
  IN /\ At(w, "idle") /\ SameInvBut(w) /\ m \in queue /\ m \in Messages
     /\ UNCHANGED <<table, sent, ec2>> /\ inv'[w].pc \in {"done", "create", "get"}
     /\ inv'[w].retry = inv[w].retry /\ inv'[w].cands = inv[w].cands
     /\ inv'[w].pc = "create" => m.kind = "queued" /\ inv'[w].profile \in Matching[m.job]
     /\ inv'[w].pc = "get" => m.kind = "completed"
     /\ deliveries' = [deliveries EXCEPT ![m] = @ + 1]
     /\ \/ queue' = queue \ {m}
        \/ "duplicate" \in Faults /\ deliveries[m] + 1 < MaxReceive[m.kind] /\ queue' = queue

LEMMA Delivered ==
  ASSUME Typed, NEW w \in Workers, NEW m \in Messages, Receive(w, m)
  PROVE  Received(w)
<1>1. inv[w] \in Invocation /\ inv \in [Workers -> Invocation] /\ m.job \in Jobs
  BY DEF Typed, TypeOK, Messages
<1>2. ASSUME NEW pc \in {"done", "get"}, inv' = [inv EXCEPT ![w] = [@ EXCEPT !.msg = m, !.pc = pc]],
             pc = "get" => m.kind = "completed"
      PROVE  Received(w)
  <2>1. /\ SameInvBut(w) /\ inv'[w].msg = m /\ inv'[w].pc = pc /\ inv'[w].retry = inv[w].retry
        /\ inv'[w].cands = inv[w].cands
    BY <1>1, <1>2 DEF SameInvBut, Invocation
  <2>2. QED
    BY <1>2, <2>1 DEF Receive, Received, table
<1>3. ASSUME NEW p \in Matching[m.job], m.kind = "queued",
             inv' = [inv EXCEPT ![w] = [@ EXCEPT !.msg = m, !.pc = "create", !.profile = p]]
      PROVE  Received(w)
  <2>1. /\ SameInvBut(w) /\ inv'[w].msg = m /\ inv'[w].pc = "create" /\ inv'[w].profile = p
        /\ inv'[w].retry = inv[w].retry /\ inv'[w].cands = inv[w].cands
    BY <1>1, <1>3 DEF SameInvBut, Invocation
  <2>2. QED
    BY <1>3, <2>1 DEF Receive, Received, table
<1>4. QED
  BY <1>2, <1>3 DEF Receive

\* Every step of Provision sends a message, delivers one, or is a step of a handler.
LEMMA Turns ==
  ASSUME Typed, [Next]_vars
  PROVE  \/ UNCHANGED vars
         \/ \E m \in Messages : Send(m)
         \/ \E w \in Workers : Received(w)
         \/ \E w \in Workers : Turned(w)
<1>1. ASSUME NEW w \in Workers, Ack(w) \/ Abandon(w) PROVE Turned(w)
  <2>1. ~At(w, "idle")
    BY <1>1 DEF Ack, Abandon, At, ErrorReturned
  <2>2. Leaves(w)
    BY <1>1 DEF Ack, Abandon, Leaves
  <2>3. QED
    BY <2>1, <2>2, EndTurn
<1>2. QED
  BY <1>1, QueuedTurn, ProvisionTurn, CompletedTurn, Delivered DEF Next, Work, Quiescent

LEMMA Turner ==
  ASSUME Typed, [Next]_vars, NEW w \in Workers
  PROVE  inv'[w] = inv[w] \/ Received(w) \/ Turned(w)
BY Turns DEF vars, Send, Received, Turned, SameInvBut

-----------------------------------------------------------------------------
(***************************************************************************)
(* A job and its slot name each other.                                     *)
(***************************************************************************)

\* The assumption of the run provision_safety: a `completed' message is received once.
CompletedOnce == MaxReceive["completed"] = 1

Completion(j) == [job |-> j, kind |-> "completed"]
Carries(w, m) == ~At(w, "idle") /\ inv[w].msg = m

\* ... so that one invocation has it, once.
Once ==
  \A j \in Jobs :
    LET m == Completion(j)
    IN /\ m \notin sent => deliveries[m] = 0
       /\ m \in queue => m \in sent /\ deliveries[m] = 0
       /\ \A w \in Workers : Carries(w, m) =>
            /\ deliveries[m] # 0
            /\ \A v \in Workers \ {w} : ~Carries(v, m)

\* Get has not read the job for its `completed' message.
Uncompleted(j) ==
  \/ deliveries[Completion(j)] = 0
  \/ \E w \in Workers : At(w, "get") /\ JobOf(w) = j

LEMMA CompletionType ==
  ASSUME NEW j \in Jobs
  PROVE  /\ Completion(j) \in Messages
         /\ \A m \in Messages : m.kind = "completed" /\ m.job = j => m = Completion(j)
BY DEF Completion, Messages, Kinds

\* What carries the `completed' message of its job.
LEMMA CompletedCarries ==
  ASSUME Typed, NEW w \in Workers, inv[w].pc \in {"get", "complete", "free"}
  PROVE  JobOf(w) \in Jobs /\ Carries(w, Completion(JobOf(w)))
<1>1. inv[w].msg \in Messages /\ inv[w].msg.kind = "completed" /\ ~At(w, "idle")
  BY DEF Typed, Shape, Remembers, At
<1>2. JobOf(w) \in Jobs
  BY <1>1 DEF Messages, JobOf
<1>3. QED
  BY <1>1, <1>2, CompletionType DEF JobOf, Carries

LEMMA OnceInit == Init => Once
<1>1. Idle.pc = "idle"
  BY DEF Idle
<1>2. QED
  BY <1>1, CompletionType DEF Init, Once, Carries, At

\* An invocation that goes on with its message is the one that had it.
LEMMA OnceTurned ==
  ASSUME Typed, CompletedOnce, Once, NEW u \in Workers, Turned(u)
  PROVE  Once'
<1>1. deliveries' = deliveries /\ sent' = sent /\ ~At(u, "idle") /\ SameInvBut(u)
  BY DEF Turned
<1>2. ASSUME NEW v \in Workers, NEW m, Carries(v, m)' PROVE Carries(v, m)
  <2>1. CASE v = u
    <3>1. inv'[u] # Idle
      BY <1>2, <2>1 DEF Carries, At, Idle
    <3>2. QED
      BY <1>1, <1>2, <2>1, <3>1 DEF Turned, Carries
  <2>2. CASE v # u
    BY <1>1, <1>2, <2>2 DEF SameInvBut, Carries, At
  <2>3. QED
    BY <2>1, <2>2
<1>3. ASSUME NEW j \in Jobs, Completion(j) \in queue' PROVE Completion(j) \in queue
  <2> DEFINE m == Completion(j)
  <2>1. CASE queue' = queue
    BY <1>3, <2>1
  <2>2. CASE m = inv[u].msg /\ deliveries[m] < MaxReceive[m.kind]
    <3>1. MaxReceive[m.kind] = 1 /\ deliveries[m] \in Nat
      BY CompletionType DEF CompletedOnce, Completion, Typed, TypeOK
    <3>2. deliveries[m] # 0
      BY <1>1, <2>2 DEF Once, Carries
    <3>3. QED
      BY <2>2, <3>1, <3>2
  <2>3. QED
    BY <1>3, <2>1, <2>2 DEF Turned
<1>4. QED
  BY <1>1, <1>2, <1>3 DEF Once

LEMMA OnceReceived ==
  ASSUME Typed, CompletedOnce, Once, NEW u \in Workers, Received(u)
  PROVE  Once' /\ \A j \in Jobs : At(u, "get")' /\ JobOf(u)' = j => deliveries[Completion(j)] = 0
<1> DEFINE m == inv'[u].msg
<1>1. /\ m \in Messages /\ m \in queue /\ SameInvBut(u) /\ At(u, "idle") /\ sent' = sent
      /\ deliveries' = [deliveries EXCEPT ![m] = @ + 1] /\ inv'[u].pc # "idle"
      /\ deliveries \in [Messages -> Nat] /\ queue' \subseteq queue
      /\ inv'[u].pc = "get" => m.kind = "completed"
  BY DEF Received, Typed, TypeOK
<1> HIDE DEF m
<1>2. \A v \in Workers \ {u} : \A n : Carries(v, n)' <=> Carries(v, n)
  BY <1>1 DEF SameInvBut, Carries, At
<1>3. \A n : Carries(u, n)' <=> n = m
  BY <1>1 DEF Carries, At, m
<1>4. ASSUME NEW j \in Jobs, Completion(j) = m
      PROVE  /\ deliveries[m] = 0 /\ deliveries'[m] = 1 /\ m \in sent /\ m \notin queue'
             /\ \A v \in Workers : ~Carries(v, m)
  <2>1. deliveries[m] = 0 /\ m \in sent /\ \A v \in Workers : ~Carries(v, m)
    BY <1>1, <1>4 DEF Once
  <2>2. MaxReceive[m.kind] = 1
    BY <1>4 DEF CompletedOnce, Completion
  <2>3. deliveries'[m] = 1
    BY <1>1, <2>1
  <2>4. queue' = queue \ {m}
    BY <2>1, <2>2 DEF Received, m
  <2>5. QED
    BY <2>1, <2>3, <2>4
<1>5. ASSUME NEW j \in Jobs, Completion(j) # m
      PROVE  deliveries'[Completion(j)] = deliveries[Completion(j)]
  BY <1>1, <1>5, CompletionType
<1>6. ASSUME NEW j \in Jobs, At(u, "get")', JobOf(u)' = j PROVE deliveries[Completion(j)] = 0
  <2>1. Completion(j) = m
    BY <1>1, <1>6, CompletionType DEF JobOf, At, m
  <2>2. QED
    BY <1>4, <2>1
<1>7. ASSUME NEW j \in Jobs
      PROVE  LET c == Completion(j)
             IN /\ c \notin sent' => deliveries'[c] = 0
                /\ c \in queue' => c \in sent' /\ deliveries'[c] = 0
                /\ \A w \in Workers : Carries(w, c)' =>
                     /\ deliveries'[c] # 0
                     /\ \A v \in Workers \ {w} : ~Carries(v, c)'
  <2>1. CASE Completion(j) = m
    BY <1>1, <1>2, <1>3, <1>4, <2>1
  <2>2. CASE Completion(j) # m
    BY <1>1, <1>2, <1>3, <1>5, <2>2 DEF Once
  <2>3. QED
    BY <2>1, <2>2
<1>8. Once'
  BY <1>7 DEF Once
<1>9. QED
  BY <1>6, <1>8

\* `completed' is handled once, and what Get has read it will not read again.
LEMMA OnceStep ==
  ASSUME Typed, CompletedOnce, Once, [Next]_vars
  PROVE  Once' /\ \A j \in Jobs : Uncompleted(j)' => Uncompleted(j)
<1>1. CASE UNCHANGED vars
  BY <1>1 DEF vars, Once, Uncompleted, Carries, At, JobOf
<1>2. CASE \E m \in Messages : Send(m)
  BY <1>2 DEF Send, Once, Uncompleted, Carries, At, JobOf
<1>3. CASE \E w \in Workers : Received(w)
  <2>1. PICK u \in Workers : Received(u)
    BY <1>3
  <2>2. ASSUME NEW j \in Jobs, Uncompleted(j)' PROVE Uncompleted(j)
    <3>1. CASE deliveries'[Completion(j)] = 0
      <4>1. deliveries \in [Messages -> Nat] /\ Completion(j) \in Messages
        BY CompletionType DEF Typed, TypeOK
      <4>2. deliveries' = [deliveries EXCEPT ![inv'[u].msg] = @ + 1] /\ inv'[u].msg \in Messages
        BY <2>1 DEF Received
      <4>3. deliveries[Completion(j)] = 0
        BY <3>1, <4>1, <4>2
      <4>4. QED
        BY <4>3 DEF Uncompleted
    <3>2. CASE \E w \in Workers : At(w, "get")' /\ JobOf(w)' = j
      <4>1. PICK w \in Workers : At(w, "get")' /\ JobOf(w)' = j
        BY <3>2
      <4>2. CASE w = u
        BY <2>1, <4>1, <4>2, OnceReceived DEF Uncompleted
      <4>3. CASE w # u
        BY <2>1, <4>1, <4>3 DEF Received, SameInvBut, At, JobOf, Uncompleted
      <4>4. QED
        BY <4>2, <4>3
    <3>3. QED
      BY <2>2, <3>1, <3>2 DEF Uncompleted
  <2>3. QED
    BY <2>1, <2>2, OnceReceived
<1>4. CASE \E w \in Workers : Turned(w)
  <2>1. PICK u \in Workers : Turned(u)
    BY <1>4
  <2>2. ASSUME NEW j \in Jobs, Uncompleted(j)' PROVE Uncompleted(j)
    <3>1. inv'[u].pc # "get"
      BY <2>1 DEF Turned, Idle
    <3>2. QED
      BY <2>1, <2>2, <3>1 DEF Turned, SameInvBut, Uncompleted, At, JobOf
  <2>3. QED
    BY <2>1, <2>2, OnceTurned
<1>5. QED
  BY <1>1, <1>2, <1>3, <1>4, Turns

\* A slot kept for a job: its runner came up, and unless it is on the way down the slot
\* is BUSY with the job.
Seated(r, i, j) ==
  /\ runners[r].status \notin {"ABSENT", "PROVISIONING"}
  /\ runners[r].status = "ACTIVE" => Holds(r, i, j)

\* Until its `completed' message is read a job that got a slot has it.
Sits(j) == jobs[j].status = "ALLOCATED" \/ (Uncompleted(j) /\ jobs[j].runner # NoRunner)

Seats ==
  /\ \A j \in Jobs : Sits(j) =>
       jobs[j].runner # NoRunner /\ Seated(jobs[j].runner, jobs[j].slot, j)
  /\ \A w \in Workers : inv[w].pc \in {"complete", "free"} /\ inv[w].runner # NoRunner =>
       Seated(inv[w].runner, inv[w].slot, JobOf(w))
  /\ \A w \in Workers : At(w, "free") => Over(JobOf(w))

LEMMA SeatsInit == Init => Once /\ Seats
<1>1. Idle.pc = "idle" /\ NoJobRow.status = "ABSENT" /\ NoJobRow.runner = NoRunner
  BY DEF Idle, NoJobRow, UnboundJob
<1>2. QED
  BY <1>1, OnceInit DEF Init, TableInit, Seats, Sits, At

\* A slot kept for a job stays so until an invocation with the job's own `completed'
\* message frees it.
LEMMA SeatKept ==
  ASSUME Typed, Seats, NEW w \in Workers, RunnerStep(w), LaunchInv,
         NEW r \in Runners, NEW i \in SlotIdx, NEW j \in Jobs, Seated(r, i, j),
         ~(At(w, "free") /\ JobOf(w) = j)
  PROVE  Seated(r, i, j)'
<1> USE RunnerFacts
<1>1. CASE Elsewhere(w) \/ Starts(w)
  BY <1>1 DEF Elsewhere, Starts, Seated, Holds
<1>2. CASE Opens(w)
  BY <1>2 DEF Opens, SameRunnersBut, Seated, Holds
<1>3. CASE Names(w)
  BY <1>3 DEF Names, SameRunnersBut, Seated, Holds, RunnerRow
<1>4. CASE Drops(w)
  BY <1>4 DEF Drops, SameRunnersBut, Seated, Holds, RunnerRow
<1>5. CASE Binds(w)
  <2>1. SameRunnersBut(inv[w].runner) /\ runners[inv[w].runner].status = "PROVISIONING"
    BY <1>5, BoundRow
  <2>2. QED
    BY <2>1 DEF SameRunnersBut, Seated, Holds
<1>6. CASE Shares(w)
  <2>1. PICK c \in Candidate : AllocateIdleRunner(c, JobOf(w)) /\ JobOf(w) \in Jobs
    BY <1>6 DEF Shares
  <2>2. /\ SameSlotsBut(c.runner, c.slot) /\ SameRunnerStatus
        /\ runners[c.runner].slots[c.slot].status = "IDLE"
    BY <2>1, AllocateEffect DEF CanAllocate
  <2>3. runners[r].status = "ACTIVE" => <<r, i>> # <<c.runner, c.slot>>
    BY <2>2 DEF Seated, Holds
  <2>4. QED
    BY <2>2, <2>3 DEF SameSlotsBut, SameRunnerStatus, Seated, Holds
<1>7. CASE Frees(w)
  <2> DEFINE q == inv[w].runner
             k == inv[w].slot
  <2>1. /\ q \in Runners /\ k \in SlotIdx /\ inv[w].profile \in Profiles /\ At(w, "free")
        /\ MarkIdle(q, k, inv[w].profile)
    BY <1>7 DEF Frees, At
  <2>2. /\ SameSlotsBut(q, k) /\ SameRunnerStatus
    BY <2>1, MarkIdleEffect
  <2>3. Seated(q, k, JobOf(w))
    BY <2>1 DEF Seats, At
  <2>4. runners[r].status = "ACTIVE" => <<r, i>> # <<q, k>>
    BY <2>1, <2>3 DEF Seated, Holds
  <2>5. QED
    BY <2>2, <2>4 DEF SameSlotsBut, SameRunnerStatus, Seated, Holds
<1>8. QED
  BY <1>1, <1>2, <1>3, <1>4, <1>5, <1>6, <1>7 DEF RunnerStep

\* A job is given a slot that is then BUSY with it.
LEMMA SeatTaken ==
  ASSUME Typed, NEW w \in Workers, RunnerStep(w), NEW j \in Jobs,
         jobs'[j].status = "ALLOCATED", jobs'[j] # jobs[j]
  PROVE  /\ JobOf(w) = j /\ jobs[j].status \in {"QUEUED", "PROVISIONING"}
         /\ Binds(w) \/ Shares(w)
         /\ jobs'[j].runner \in Runners /\ jobs'[j].slot \in SlotIdx
         /\ Holds(jobs[j].runner, jobs[j].slot, j)'
<1>1. Binds(w) \/ Shares(w)
  BY DEF RunnerStep, Elsewhere, Opens, Starts, Names, Drops, Frees, MarkIdle
<1>2. CASE Binds(w)
  <2>1. PICK r \in Runners : r = inv[w].runner
    BY <1>2 DEF Binds
  <2>2. /\ SameJobsBut(JobOf(w)) /\ Bound(r, JobOf(w), inv[w].profile)
        /\ jobs[JobOf(w)].status = "PROVISIONING"
        /\ jobs'[JobOf(w)].runner = r /\ jobs'[JobOf(w)].slot = 0
    BY <1>2, <2>1, BoundRow
  <2>3. JobOf(w) = j
    BY <2>2 DEF SameJobsBut
  <2>4. Holds(r, 0, j)'
    BY <2>2, <2>3 DEF Bound, Holds
  <2>5. Holds(jobs[j].runner, jobs[j].slot, j)'
    BY <2>2, <2>3, <2>4
  <2>6. QED
    BY <1>2, <2>2, <2>3, <2>5, TableConstants
<1>3. CASE Shares(w)
  <2>1. PICK c \in Candidate : AllocateIdleRunner(c, JobOf(w)) /\ JobOf(w) \in Jobs
    BY <1>3 DEF Shares
  <2>2. TableTypeOK /\ c.runner \in Runners /\ c.slot \in SlotIdx
    BY RunnerFacts DEF Candidate
  <2> DEFINE job == [jobs[JobOf(w)] EXCEPT !.status = "ALLOCATED",
                                           !.runner = c.runner, !.slot = c.slot]
  <2>3. job.runner = c.runner /\ job.slot = c.slot
    BY <2>1, <2>2 DEF JobRow, TableTypeOK
  <2>4. /\ SameJobsBut(JobOf(w)) /\ SameRunnerStatus /\ CanAllocate(c, JobOf(w))
        /\ jobs'[JobOf(w)] = job
        /\ runners'[c.runner].slots[c.slot].status = "BUSY"
        /\ runners'[c.runner].slots[c.slot].job = JobOf(w)
    BY <2>1, <2>2, AllocateEffect
  <2> HIDE DEF job
  <2>5. JobOf(w) = j /\ jobs[j].status = "QUEUED"
    BY <2>4 DEF SameJobsBut, CanAllocate
  <2>6. Holds(c.runner, c.slot, j)'
    BY <2>2, <2>4, <2>5 DEF CanAllocate, Holds, SameRunnerStatus
  <2>7. Holds(jobs[j].runner, jobs[j].slot, j)'
    BY <2>3, <2>4, <2>5, <2>6
  <2>8. QED
    BY <1>3, <2>2, <2>3, <2>4, <2>5, <2>7
<1>4. QED
  BY <1>1, <1>2, <1>3

\* Seats is kept by a step of Provision.
LEMMA SeatsStep ==
  ASSUME Typed, Unbound, LaunchInv, CompletedOnce, Once, Seats, [Next]_vars
  PROVE  Seats'
<1> USE RunnerFacts
<1>1. \A j \in Jobs : Uncompleted(j)' => Uncompleted(j)
  BY OnceStep
<1>2. /\ \A j \in Jobs : jobs[j] \in JobRow
      /\ \A w \in Workers : inv[w] \in Invocation
      /\ \A j \in Jobs : jobs[j].status \in Unstarted => jobs[j].runner = NoRunner
  BY DEF TableTypeOK, Unbound
<1>3. ASSUME NEW r \in Runners, NEW i \in SlotIdx, NEW j \in Jobs, Seated(r, i, j),
             ~Seated(r, i, j)'
      PROVE  \E w \in Workers : At(w, "free") /\ JobOf(w) = j /\ inv'[w].pc = "done"
  <2>1. CASE UNCHANGED <<jobs, runners, inv, ec2>>
    BY <1>3, <2>1 DEF Seated, Holds
  <2>2. CASE \E w \in Workers : RunnerStep(w)
    <3>1. PICK w \in Workers : RunnerStep(w)
      BY <2>2
    <3>2. At(w, "free") /\ JobOf(w) = j
      BY <1>3, <3>1, SeatKept
    <3>3. ~Elsewhere(w)
      BY <1>3 DEF Elsewhere, Seated, Holds
    <3>4. inv'[w].pc = "done"
      BY <3>1, <3>2, <3>3
      DEF RunnerStep, Opens, Starts, Names, Drops, Binds, Shares, Frees, At
    <3>5. QED
      BY <3>2, <3>4
  <2>3. QED
    BY <2>1, <2>2, RunnerSteps
<1>4. ASSUME NEW j \in Jobs, Sits(j)'
      PROVE  jobs'[j].runner # NoRunner /\ Seated(jobs[j].runner, jobs[j].slot, j)'
  <2>1. CASE jobs'[j].status = "ALLOCATED" /\ jobs'[j] # jobs[j]
    <3>1. PICK w \in Workers : RunnerStep(w)
      BY <2>1, RunnerSteps
    <3>2. jobs'[j].runner \in Runners /\ Holds(jobs[j].runner, jobs[j].slot, j)'
      BY <2>1, <3>1, SeatTaken
    <3>3. QED
      BY <3>2 DEF Seated, Holds
  <2>2. CASE ~(jobs'[j].status = "ALLOCATED" /\ jobs'[j] # jobs[j])
    <3>1. JobBecomes(j)
      BY JobKept
    <3>2. Sits(j)
      <4>1. CASE jobs'[j] = jobs[j]
        BY <1>1, <1>4, <4>1 DEF Sits
      <4>2. CASE jobs'[j] # jobs[j]
        <5>1. Uncompleted(j) /\ jobs'[j].runner # NoRunner /\ jobs'[j].status # "ALLOCATED"
          BY <1>1, <1>4, <2>2, <4>2 DEF Sits
        <5>2. jobs[j].runner # NoRunner
          BY <1>2, <3>1, <4>2, <5>1 DEF JobBecomes, JobRow
        <5>3. QED
          BY <5>1, <5>2 DEF Sits
      <4>3. QED
        BY <4>1, <4>2
    <3>3. PICK r \in Runners, i \in SlotIdx :
            r = jobs[j].runner /\ i = jobs[j].slot /\ Seated(r, i, j)
      BY <1>2, <3>2 DEF Seats, JobRow
    <3>4. jobs'[j].runner = r /\ jobs'[j].slot = i
      BY <3>3, JobKept
    <3>5. Seated(r, i, j)'
      <4>1. SUFFICES ASSUME NEW w \in Workers, At(w, "free"), JobOf(w) = j,
                            inv'[w].pc = "done"
                     PROVE  FALSE
        BY <1>3, <3>3
      <4>2. Carries(w, Completion(j)) /\ Over(j)
        BY <4>1, CompletedCarries DEF At, Seats
      <4>3. ASSUME NEW v \in Workers, At(v, "get"), JobOf(v) = j PROVE FALSE
        <5>1. Carries(v, Completion(j)) /\ v # w
          BY <4>1, <4>3, CompletedCarries DEF At
        <5>2. QED
          BY <4>2, <5>1 DEF Once
      <4>4. ~Uncompleted(j)
        BY <4>2, <4>3 DEF Uncompleted, Once
      <4>5. QED
        BY <3>2, <4>2, <4>4 DEF Sits, Over
    <3>6. QED
      BY <3>3, <3>4, <3>5
  <2>3. QED
    BY <2>1, <2>2
<1>5. ASSUME NEW v \in Workers, inv'[v].pc \in {"complete", "free"}, inv'[v] # inv[v]
      PROVE  Turned(v)
  <2>1. ~(UNCHANGED vars \/ \E m \in Messages : Send(m))
    BY <1>5 DEF vars, Send
  <2>2. ASSUME NEW u \in Workers, Received(u) PROVE FALSE
    BY <1>5, <2>2 DEF Received, SameInvBut
  <2>3. PICK u \in Workers : Turned(u)
    BY <2>1, <2>2, Turns
  <2>4. QED
    BY <1>5, <2>3 DEF Turned, SameInvBut
<1>6. ASSUME NEW v \in Workers, inv'[v].pc \in {"complete", "free"}, inv'[v].runner # NoRunner
      PROVE  Seated(inv[v].runner, inv[v].slot, JobOf(v))'
  <2>1. CASE inv'[v] = inv[v]
    <3>1. JobOf(v) \in Jobs /\ Carries(v, Completion(JobOf(v))) /\ JobOf(v)' = JobOf(v)
      BY <1>6, <2>1, CompletedCarries DEF JobOf
    <3>2. PICK r \in Runners, i \in SlotIdx, j \in Jobs :
            /\ r = inv[v].runner /\ i = inv[v].slot /\ j = JobOf(v) /\ Seated(r, i, j)
      BY <1>2, <1>6, <2>1, <3>1 DEF Seats, Invocation
    <3>3. ASSUME NEW w \in Workers, At(w, "free"), JobOf(w) = j, inv'[w].pc = "done"
          PROVE  FALSE
      <4>1. Carries(w, Completion(j)) /\ v # w
        BY <1>6, <3>3, CompletedCarries DEF At
      <4>2. QED
        BY <3>1, <3>2, <4>1 DEF Once
    <3>4. Seated(r, i, j)'
      BY <1>3, <3>2, <3>3
    <3>5. QED
      BY <2>1, <3>1, <3>2, <3>4
  <2>2. CASE inv'[v] # inv[v]
    <3>1. Turned(v)
      BY <1>5, <1>6, <2>2
    <3>2. JobOf(v)' = JobOf(v) /\ inv[v].pc \in {"get", "complete"}
      BY <1>6, <3>1 DEF Turned, Idle, JobOf
    <3>3. JobOf(v) \in Jobs
      BY <3>2, CompletedCarries
    <3>4. CASE inv'[v].pc = "complete"
      <4>1. /\ At(v, "get") /\ UNCHANGED table
            /\ inv'[v].runner = jobs[JobOf(v)].runner /\ inv'[v].slot = jobs[JobOf(v)].slot
        BY <3>1, <3>4 DEF Turned, Idle, At
      <4>2. Sits(JobOf(v))
        BY <1>6, <3>3, <4>1 DEF Sits, Uncompleted
      <4>3. Seated(jobs[JobOf(v)].runner, jobs[JobOf(v)].slot, JobOf(v))
        BY <3>3, <4>2 DEF Seats
      <4>4. QED
        BY <3>2, <4>1, <4>3 DEF Seated, Holds, table
    <3>5. CASE inv'[v].pc = "free"
      <4>1. /\ inv[v].pc = "complete" /\ inv[v].runner # NoRunner /\ MarkCompleted(JobOf(v))
            /\ inv'[v].runner = inv[v].runner /\ inv'[v].slot = inv[v].slot
        BY <3>1, <3>5 DEF Turned, Idle
      <4>2. Seated(inv[v].runner, inv[v].slot, JobOf(v)) /\ runners' = runners
        BY <4>1 DEF Seats, MarkCompleted
      <4>3. QED
        BY <3>2, <4>1, <4>2 DEF Seated, Holds
    <3>6. QED
      BY <1>6, <3>4, <3>5
  <2>3. QED
    BY <2>1, <2>2
<1>7. ASSUME NEW v \in Workers, inv'[v].pc = "free" PROVE Over(JobOf(v))'
  <2>1. CASE inv'[v] = inv[v]
    <3>1. JobOf(v) \in Jobs /\ Over(JobOf(v)) /\ JobOf(v)' = JobOf(v)
      BY <1>7, <2>1, CompletedCarries DEF Seats, At, JobOf
    <3>2. PICK j \in Jobs : j = JobOf(v)
      BY <3>1
    <3>3. Over(j)'
      BY <3>1, <3>2, JobKept
    <3>4. QED
      BY <3>1, <3>2, <3>3
  <2>2. CASE inv'[v] # inv[v]
    <3>1. Turned(v)
      BY <1>5, <1>7, <2>2
    <3>2. inv[v].pc = "complete" /\ MarkCompleted(JobOf(v)) /\ inv'[v].msg = inv[v].msg
      BY <1>7, <3>1 DEF Turned, Idle
    <3>3. JobOf(v) \in Jobs /\ JobOf(v)' = JobOf(v)
      BY <3>2, CompletedCarries DEF JobOf
    <3>4. jobs'[JobOf(v)].status = "COMPLETED"
      BY <1>2, <3>2, <3>3 DEF MarkCompleted, TableTypeOK, JobRow
    <3>5. QED
      BY <3>3, <3>4 DEF Over
  <2>3. QED
    BY <2>1, <2>2
<1>8. QED
  BY <1>4, <1>6, <1>7 DEF Seats, At

\* The job of a BUSY slot.
Named(r, i) ==
  \E j \in Jobs : /\ runners[r].slots[i].job = j
                  /\ jobs[j].status \in {"ALLOCATED", "COMPLETED"}
                  /\ jobs[j].runner = r
                  /\ jobs[j].slot = i

\* With no cleanup a bound runner stays ACTIVE, and a job that was given a slot is in
\* nobody's section, whose end could fail it.
Sitting ==
  /\ \A j \in Jobs : jobs[j].status = "ALLOCATED" => runners[jobs[j].runner].status = "ACTIVE"
  /\ \A w \in Workers : InSection(w) => jobs[JobOf(w)].runner = NoRunner
  /\ \A r \in Runners, i \in SlotIdx :
       runners[r].status = "ACTIVE" /\ runners[r].slots[i].status = "BUSY" => Named(r, i)

LEMMA ActiveStays ==
  ASSUME Typed, LaunchInv, NEW w \in Workers, RunnerStep(w), NEW r \in Runners,
         runners[r].status = "ACTIVE"
  PROVE  runners'[r].status = "ACTIVE"
<1> USE RunnerFacts
<1>1. CASE Elsewhere(w) \/ Opens(w) \/ Starts(w)
  BY <1>1 DEF Elsewhere, Opens, Starts, SameRunnersBut
<1>2. CASE Names(w)
  BY <1>2 DEF Names, SameRunnersBut, RunnerRow
<1>3. CASE Drops(w)
  BY <1>3 DEF Drops, SameRunnersBut, LaunchInv, LaunchStages, Unnamed
<1>4. CASE Binds(w)
  <2>1. SameRunnersBut(inv[w].runner) /\ runners'[inv[w].runner].status = "ACTIVE"
    BY <1>4, BoundRow
  <2>2. QED
    BY <2>1 DEF SameRunnersBut
<1>5. CASE Shares(w)
  BY <1>5, AllocateEffect DEF Shares, SameRunnerStatus
<1>6. CASE Frees(w)
  BY <1>6, MarkIdleEffect DEF Frees, SameRunnerStatus
<1>7. QED
  BY <1>1, <1>2, <1>3, <1>4, <1>5, <1>6 DEF RunnerStep

\* A BUSY slot was BUSY with the same job, or was given to its job in this step.
LEMMA BusyOrigin ==
  ASSUME Typed, NEW w \in Workers, RunnerStep(w), NEW r \in Runners, NEW i \in SlotIdx,
         runners'[r].status = "ACTIVE", runners'[r].slots[i].status = "BUSY"
  PROVE  \/ /\ runners[r].status = "ACTIVE" /\ runners[r].slots[i].status = "BUSY"
            /\ runners'[r].slots[i].job = runners[r].slots[i].job
         \/ /\ Binds(w) \/ Shares(w)
            /\ Named(r, i)'
<1> USE RunnerFacts
<1>1. CASE Elsewhere(w) \/ Starts(w)
  BY <1>1 DEF Elsewhere, Starts
<1>2. CASE Opens(w)
  BY <1>2, NewRow DEF Opens, SameRunnersBut
<1>3. CASE Names(w)
  BY <1>3 DEF Names, SameRunnersBut, RunnerRow
<1>4. CASE Drops(w)
  BY <1>4 DEF Drops, SameRunnersBut, RunnerRow
<1>5. CASE Binds(w)
  <2>1. PICK q \in Runners, j \in Jobs : q = inv[w].runner /\ j = JobOf(w)
    BY <1>5 DEF Binds
  <2>2. /\ SameRunnersBut(q) /\ Bound(q, j, inv[w].profile)
        /\ jobs'[j].status = "ALLOCATED" /\ jobs'[j].runner = q /\ jobs'[j].slot = 0
    BY <1>5, <2>1, BoundRow
  <2>3. CASE r # q
    BY <2>2, <2>3 DEF SameRunnersBut
  <2>4. CASE r = q
    <3>1. i = 0
      BY <2>2, <2>4 DEF Bound
    <3>2. QED
      BY <1>5, <2>2, <2>4, <3>1 DEF Bound, Named
  <2>5. QED
    BY <2>3, <2>4
<1>6. CASE Shares(w)
  <2>1. PICK c \in Candidate : AllocateIdleRunner(c, JobOf(w)) /\ JobOf(w) \in Jobs
    BY <1>6 DEF Shares
  <2>2. PICK j \in Jobs, q \in Runners, k \in SlotIdx :
          j = JobOf(w) /\ q = c.runner /\ k = c.slot
    BY <2>1 DEF Candidate
  <2> DEFINE job == [jobs[j] EXCEPT !.status = "ALLOCATED", !.runner = q, !.slot = k]
  <2>3. job.status = "ALLOCATED" /\ job.runner = q /\ job.slot = k
    BY DEF JobRow, TableTypeOK
  <2>4. /\ SameSlotsBut(q, k) /\ SameRunnerStatus /\ CanAllocate(c, j)
        /\ jobs'[j] = job /\ runners'[q].slots[k].job = j
    BY <2>1, <2>2, AllocateEffect
  <2> HIDE DEF job
  <2>5. CASE <<r, i>> # <<q, k>>
    BY <2>4, <2>5 DEF SameSlotsBut, SameRunnerStatus
  <2>6. CASE r = q /\ i = k
    BY <1>6, <2>3, <2>4, <2>6 DEF Named
  <2>7. QED
    BY <2>5, <2>6
<1>7. CASE Frees(w)
  <2>1. PICK q \in Runners, k \in SlotIdx : q = inv[w].runner /\ k = inv[w].slot
    BY <1>7 DEF Frees
  <2>2. /\ SameSlotsBut(q, k) /\ SameRunnerStatus
        /\ \/ runners'[q].slots[k].status = "IDLE"
           \/ runners' = runners
    BY <1>7, <2>1, MarkIdleEffect DEF Frees
  <2>3. QED
    BY <2>2 DEF SameSlotsBut, SameRunnerStatus
<1>8. QED
  BY <1>1, <1>2, <1>3, <1>4, <1>5, <1>6, <1>7 DEF RunnerStep

LEMMA SittingInit == Init => Sitting
<1>1. Idle.pc = "idle" /\ NoJobRow.status = "ABSENT" /\ NoRunnerRow.status = "ABSENT"
  BY DEF Idle, NoJobRow, NoRunnerRow, UnboundJob, UnboundRunner
<1>2. QED
  BY <1>1 DEF Init, TableInit, Sitting, InSection, Section

LEMMA SittingStep ==
  ASSUME IInv, LaunchInv, Seats, Sitting, [Next]_vars
  PROVE  Sitting'
<1> USE RunnerFacts DEF IInv, JobInv
<1>1. /\ \A j \in Jobs : jobs[j] \in JobRow
      /\ JobInv' /\ \A j \in Jobs : JobBecomes(j)
  BY JobInvStep, JobKept DEF TableTypeOK
<1>2. ASSUME NEW j \in Jobs, jobs'[j].status = "ALLOCATED"
      PROVE  runners'[jobs'[j].runner].status = "ACTIVE"
  <2>1. CASE jobs'[j] = jobs[j]
    <3>1. Sits(j) /\ runners[jobs[j].runner].status = "ACTIVE"
      BY <1>2, <2>1 DEF Sits, Sitting
    <3>2. jobs[j].runner \in Runners
      BY <1>1, <3>1 DEF Seats, JobRow
    <3>3. runners'[jobs[j].runner].status = "ACTIVE"
      BY <3>1, <3>2, ActiveStays, RunnerSteps
    <3>4. QED
      BY <2>1, <3>3
  <2>2. CASE jobs'[j] # jobs[j]
    BY <1>2, <2>2, RunnerSteps, SeatTaken DEF Holds
  <2>3. QED
    BY <2>1, <2>2
<1>3. ASSUME NEW w \in Workers, InSection(w)'
      PROVE  jobs'[JobOf(w)'].runner = NoRunner
  <2>1. jobs'[JobOf(w)'].status \in {"PROVISIONING", "COMPLETED"}
    BY <1>1, <1>3 DEF JobInv, ProvisioningLock
  <2>2. JobOf(w)' = JobOf(w) /\ JobOf(w) \in Jobs
        /\ (InSection(w) \/ jobs'[JobOf(w)].status = "PROVISIONING")
    <3>1. CASE jobs' = jobs /\ inv' = inv
      BY <1>3, <3>1, JobOfType DEF InSection, JobOf, At, Section
    <3>2. CASE \E u \in Workers : JobStep(u)
      <4>1. PICK u \in Workers : JobStep(u)
        BY <3>2
      <4>2. CASE w = u
        BY <1>3, <4>1, <4>2 DEF JobStep, Justified, InSection, JobOf, Known
      <4>3. CASE w # u
        BY <1>3, <4>1, <4>3, JobOfType DEF JobStep, SameInvBut, InSection, JobOf, At, Section
      <4>4. QED
        BY <4>2, <4>3
    <3>3. QED
      BY <3>1, <3>2, JobSteps
  <2>3. CASE InSection(w)
    <3>1. jobs[JobOf(w)].runner = NoRunner
      BY <2>3 DEF Sitting
    <3>2. jobs[JobOf(w)] \in JobRow /\ JobBecomes(JobOf(w))
      BY <1>1, <2>2
    <3>3. jobs'[JobOf(w)].runner = jobs[JobOf(w)].runner
      <4>1. [jobs[JobOf(w)] EXCEPT !.status = "PROVISIONING"].runner = jobs[JobOf(w)].runner
        BY <3>2 DEF JobRow
      <4>2. QED
        BY <2>1, <2>2, <3>1, <3>2, <4>1 DEF JobBecomes
    <3>4. QED
      BY <2>2, <3>1, <3>3
  <2>4. CASE jobs'[JobOf(w)].status = "PROVISIONING"
    BY <1>1, <2>2, <2>4 DEF Unbound, Unstarted
  <2>5. QED
    BY <2>2, <2>3, <2>4
<1>4. ASSUME NEW r \in Runners, NEW i \in SlotIdx, runners'[r].status = "ACTIVE",
             runners'[r].slots[i].status = "BUSY", ~Named(r, i)'
      PROVE  FALSE
  <2>1. /\ runners[r].status = "ACTIVE" /\ runners[r].slots[i].status = "BUSY"
        /\ runners'[r].slots[i].job = runners[r].slots[i].job
    BY <1>4, RunnerSteps, BusyOrigin
  <2>2. PICK j \in Jobs : /\ runners[r].slots[i].job = j
                          /\ jobs[j].status \in {"ALLOCATED", "COMPLETED"}
                          /\ jobs[j].runner = r /\ jobs[j].slot = i
    BY <2>1 DEF Sitting, Named
  <2>3. jobs'[j].runner = r /\ jobs'[j].slot = i
    BY <2>2, JobKept
  <2>4. jobs'[j].status \in {"ALLOCATED", "COMPLETED"}
    <3>1. CASE jobs'[j] = jobs[j]
      BY <2>2, <3>1
    <3>2. CASE jobs'[j] # jobs[j]
      <4>1. PICK u \in Workers : JobStep(u)
        BY <3>2, JobSteps
      <4>2. JobOf(u) = j /\ (InSection(u) \/ jobs'[j].status = "COMPLETED")
        BY <2>2, <3>2, <4>1 DEF JobStep, Respects, SameJobsBut, InSection
      <4>3. ~InSection(u)
        BY <2>2, <4>2 DEF Sitting
      <4>4. QED
        BY <4>2, <4>3
    <3>3. QED
      BY <3>1, <3>2
  <2>5. QED
    BY <1>4, <2>1, <2>2, <2>3, <2>4 DEF Named
<1>5. QED
  BY <1>2, <1>3, <1>4 DEF Sitting

\* As long as `completed' is received once, no interleaving and no crash leaves a BUSY
\* slot without its job or a job without its slot, and two jobs never share one: the two
\* transactions write both rows, and handleCompleted frees only what its job still has.
THEOREM SlotsBound == CompletedOnce /\ Spec => []SlotBinding
<1> DEFINE Inv == LaunchInv /\ Once /\ Seats /\ Sitting
<1>1. Init => Inv
  BY LaunchInvInit, SeatsInit, SittingInit
<1>2. ASSUME CompletedOnce, IInv, Inv, [Next]_vars PROVE Inv'
  <2>1. LaunchInv'
    <3>1. CASE UNCHANGED <<jobs, runners, inv, ec2>>
      BY <1>2, <3>1 DEF LaunchInv, OwnRow, LaunchStages, RowsOfInstances, InSection
    <3>2. QED
      BY <1>2, <3>1, RunnerSteps, LaunchInvStep DEF IInv
  <2>2. Once' /\ Seats' /\ Sitting'
    BY <1>2, OnceStep, SeatsStep, SittingStep DEF IInv, JobInv
  <2>3. QED
    BY <2>1, <2>2
<1>3. Inv => SlotBinding
  BY DEF Seats, Sits, Seated, Sitting, Named, SlotBinding
<1> HIDE DEF Inv
<1>4. ASSUME CompletedOnce
      PROVE  Spec => []SlotBinding
  <2>1. IInv /\ Inv /\ [Next]_vars => Inv'
    BY <1>2, <1>4
  <2>2. QED
    BY <1>1, <1>3, <2>1, Inductive, PTL DEF Spec
<1>5. QED
  BY <1>4

-----------------------------------------------------------------------------
(***************************************************************************)
(* Provision implements Dispatch.                                          *)
(***************************************************************************)

\* A slot that is not BUSY with a job is bound to none.
VacantSlots ==
  \A r \in Runners, i \in SlotIdx :
    \/ runners[r].status = "PROVISIONING"
    \/ runners[r].status = "ACTIVE" /\ runners[r].slots[i].status = "IDLE"
    => runners[r].slots[i].job = NoJob

LEMMA VacantInit == Init => VacantSlots
BY DEF Init, TableInit, VacantSlots, NoRunnerRow, UnboundRunner

LEMMA VacantStep ==
  ASSUME Typed, VacantSlots, [Next]_vars
  PROVE  VacantSlots'
<1> USE RunnerFacts
<1>1. CASE UNCHANGED <<jobs, runners, inv, ec2>>
  BY <1>1 DEF VacantSlots
<1>2. ASSUME NEW w \in Workers, RunnerStep(w) PROVE VacantSlots'
  <2>1. CASE Elsewhere(w) \/ Starts(w)
    BY <2>1 DEF Elsewhere, Starts, VacantSlots
  <2>2. CASE Opens(w)
    BY <2>2, NewRow DEF Opens, SameRunnersBut, VacantSlots, PlaceholderSlot
  <2>3. CASE Names(w)
    BY <2>3 DEF Names, SameRunnersBut, VacantSlots, RunnerRow
  <2>4. CASE Drops(w)
    <3>1. PICK r \in Runners : r = inv[w].runner
      BY <2>4 DEF Drops
    <3>2. SameRunnersBut(r) /\ runners'[r].status = "FAILED"
      BY <2>4, <3>1 DEF Drops, RunnerRow
    <3>3. QED
      BY <3>2 DEF SameRunnersBut, VacantSlots
  <2>5. CASE Binds(w)
    <3>1. PICK r \in Runners : r = inv[w].runner
      BY <2>5 DEF Binds
    <3>2. SameRunnersBut(r) /\ Bound(r, JobOf(w), inv[w].profile)
      BY <2>5, <3>1, BoundRow
    <3>3. QED
      BY <3>2 DEF SameRunnersBut, Bound, VacantSlots
  <2>6. CASE Shares(w)
    <3>1. PICK c \in Candidate : AllocateIdleRunner(c, JobOf(w)) /\ JobOf(w) \in Jobs
      BY <2>6 DEF Shares
    <3>2. /\ SameSlotsBut(c.runner, c.slot) /\ SameRunnerStatus
          /\ CanAllocate(c, JobOf(w)) /\ runners'[c.runner].slots[c.slot].status = "BUSY"
      BY <3>1, AllocateEffect
    <3>3. QED
      BY <3>2 DEF SameSlotsBut, SameRunnerStatus, CanAllocate, VacantSlots
  <2>7. CASE Frees(w)
    <3>1. PICK r \in Runners, i \in SlotIdx : r = inv[w].runner /\ i = inv[w].slot
      BY <2>7 DEF Frees
    <3>2. /\ SameSlotsBut(r, i) /\ SameRunnerStatus
          /\ runners'[r].slots[i].job = NoJob \/ runners' = runners
      BY <2>7, <3>1, MarkIdleEffect DEF Frees
    <3>3. QED
      BY <3>2 DEF SameSlotsBut, SameRunnerStatus, VacantSlots
  <2>8. QED
    BY <1>2, <2>1, <2>2, <2>3, <2>4, <2>5, <2>6, <2>7 DEF RunnerStep
<1>3. QED
  BY <1>1, <1>2, RunnerSteps

LEMMA Phased ==
  /\ Phase("ABSENT") = "new" /\ Phase("QUEUED") = "waiting"
  /\ Phase("PROVISIONING") = "starting" /\ Phase("ALLOCATED") = "running"
  /\ Phase("COMPLETED") = "over" /\ Phase("FAILED") = "over"
BY DEF Phase

\* What Dispatch sees of a job that moves, and of rows that do not.
LEMMA PhaseSet ==
  ASSUME NEW j \in Jobs, SameJobsBut(j)
  PROVE  /\ phaseBar[j] = Phase(jobs[j].status)
         /\ phaseBar' = [phaseBar EXCEPT ![j] = Phase(jobs'[j].status)]
BY DEF phaseBar, SameJobsBut

LEMMA HolderKept ==
  ASSUME \A r \in Runners :
           /\ runners'[r].status = "ACTIVE" <=> runners[r].status = "ACTIVE"
           /\ \A i \in SlotIdx : runners[r].status = "ACTIVE" =>
                runners'[r].slots[i].job = runners[r].slots[i].job
  PROVE  holderBar' = holderBar
BY DEF holderBar

LEMMA SlotPairs ==
  ASSUME NEW t \in D!Slots
  PROVE  t = <<t[1], t[2]>> /\ t[1] \in Runners /\ t[2] \in SlotIdx
BY DEF D!Slots

LEMMA HolderSet ==
  ASSUME NEW r \in Runners, NEW i \in SlotIdx, NEW x, runners[r].status = "ACTIVE",
         SameRunnerStatus, SameSlotsBut(r, i), runners'[r].slots[i].job = x
  PROVE  holderBar' = [holderBar EXCEPT ![<<r, i>>] = x]
<1>1. ASSUME NEW q \in Runners, NEW k \in SlotIdx
      PROVE  (IF runners'[q].status = "ACTIVE" THEN runners'[q].slots[k].job ELSE Closed)
               = IF <<q, k>> = <<r, i>> THEN x
                 ELSE IF runners[q].status = "ACTIVE" THEN runners[q].slots[k].job ELSE Closed
  BY DEF SameRunnerStatus, SameSlotsBut
<1> DEFINE new == [t \in D!Slots |-> IF t = <<r, i>> THEN x ELSE holderBar[t]]
<1>2. ASSUME NEW t \in D!Slots PROVE holderBar'[t] = new[t]
  BY <1>1, SlotPairs DEF holderBar, D!Slots
<1>3. holderBar' = new
  BY <1>2 DEF holderBar, D!Slots
<1>4. QED
  BY <1>3 DEF holderBar, D!Slots

LEMMA DispatchInit == Init => D!Init
<1>1. NoJobRow.status = "ABSENT" /\ NoRunnerRow.status = "ABSENT"
  BY DEF NoJobRow, NoRunnerRow, UnboundJob, UnboundRunner
<1>2. QED
  BY <1>1, Phased DEF Init, TableInit, D!Init, D!Slots, phaseBar, holderBar

LEMMA BindsDispatch ==
  ASSUME IInv, VacantSlots, NEW w \in Workers, Binds(w)
  PROVE  D!Next
<1>1. PICK r \in Runners, j \in Jobs : r = inv[w].runner /\ j = JobOf(w)
  BY DEF Binds
<1>2. /\ SameRunnersBut(r) /\ SameJobsBut(j) /\ Bound(r, j, inv[w].profile)
      /\ jobs[j].status = "PROVISIONING" /\ jobs'[j].status = "ALLOCATED"
  BY <1>1, BoundRow DEF IInv
<1>3. phaseBar[j] = "starting" /\ phaseBar' = [phaseBar EXCEPT ![j] = "running"]
  BY <1>2, PhaseSet, Phased
<1> DEFINE s == <<r, 0>>
<1>4. s \in D!Slots /\ s[1] = r
  BY TableConstants DEF D!Slots
<1>5. \A t \in D!Slots : t[1] = r => holderBar[t] = Closed
  BY <1>2 DEF Bound, holderBar, D!Slots
<1>6. holderBar' = [t \in D!Slots |-> IF t = s THEN j ELSE IF t[1] = s[1] THEN NoJob
                                      ELSE holderBar[t]]
  <2>1. ASSUME NEW q \in Runners, NEW i \in SlotIdx
        PROVE  (IF runners'[q].status = "ACTIVE" THEN runners'[q].slots[i].job ELSE Closed)
                 = IF <<q, i>> = s THEN j ELSE IF q = r THEN NoJob ELSE holderBar[<<q, i>>]
    <3>1. CASE q # r
      BY <1>2, <3>1 DEF SameRunnersBut, holderBar
    <3>2. CASE q = r /\ i = 0
      BY <1>2, <3>2 DEF Bound
    <3>3. CASE q = r /\ i # 0
      BY <1>2, <3>3 DEF Bound, VacantSlots
    <3>4. QED
      BY <3>1, <3>2, <3>3
  <2>2. QED
    <3> DEFINE new == [t \in D!Slots |-> IF t = s THEN j ELSE IF t[1] = s[1] THEN NoJob
                                         ELSE holderBar[t]]
    <3>1. ASSUME NEW t \in D!Slots PROVE holderBar'[t] = new[t]
      <4>1. PICK q \in Runners, i \in SlotIdx : t = <<q, i>> /\ t[1] = q /\ t[2] = i
        BY SlotPairs
      <4>2. holderBar'[t] = IF runners'[q].status = "ACTIVE" THEN runners'[q].slots[i].job
                            ELSE Closed
        BY <4>1 DEF holderBar
      <4>3. new[t] = IF <<q, i>> = s THEN j ELSE IF q = r THEN NoJob ELSE holderBar[<<q, i>>]
        BY <1>4, <4>1
      <4>4. QED
        BY <2>1, <4>2, <4>3
    <3>2. QED
      BY <3>1 DEF holderBar, D!Slots
<1>7. D!Open(j)
  BY <1>3, <1>4, <1>5, <1>6 DEF D!Open, D!Move
<1>8. QED
  BY <1>7 DEF D!Next

LEMMA SharesDispatch ==
  ASSUME IInv, VacantSlots, NEW w \in Workers, Shares(w)
  PROVE  D!Next
<1>1. PICK c \in Candidate : AllocateIdleRunner(c, JobOf(w)) /\ JobOf(w) \in Jobs
  BY DEF Shares
<1>2. PICK r \in Runners, i \in SlotIdx, j \in Jobs :
        r = c.runner /\ i = c.slot /\ j = JobOf(w)
  BY <1>1 DEF Candidate
<1>3. TableTypeOK /\ jobs[j] \in JobRow
  BY RunnerFacts DEF IInv, TableTypeOK
<1>4. /\ SameJobsBut(j) /\ SameRunnerStatus /\ SameSlotsBut(r, i) /\ CanAllocate(c, j)
      /\ jobs'[j] = [jobs[j] EXCEPT !.status = "ALLOCATED", !.runner = r, !.slot = i]
      /\ runners'[r].slots[i].job = j
  BY <1>1, <1>2, <1>3, AllocateEffect
<1>5. jobs[j].status = "QUEUED" /\ jobs'[j].status = "ALLOCATED"
  BY <1>3, <1>4 DEF CanAllocate, JobRow
<1>6. phaseBar[j] = "waiting" /\ phaseBar' = [phaseBar EXCEPT ![j] = "running"]
  <2>1. SameJobsBut(j)
    BY <1>4
  <2>2. QED
    BY <1>5, <2>1, PhaseSet, Phased
<1>7. runners[r].status = "ACTIVE" /\ runners[r].slots[i].status = "IDLE"
  BY <1>2, <1>4 DEF CanAllocate
<1>8. holderBar[<<r, i>>] = NoJob /\ <<r, i>> \in D!Slots
  BY <1>7 DEF VacantSlots, holderBar, D!Slots
<1>9. holderBar' = [holderBar EXCEPT ![<<r, i>>] = j]
  <2>1. SameRunnerStatus /\ SameSlotsBut(r, i) /\ runners'[r].slots[i].job = j
    BY <1>4
  <2>2. QED
    BY <1>7, <2>1, HolderSet
<1>10. D!Assign(j)
  BY <1>6, <1>8, <1>9 DEF D!Assign, D!Move
<1>11. QED
  BY <1>10 DEF D!Next

LEMMA FreesDispatch ==
  ASSUME IInv, Seats, NEW w \in Workers, Frees(w)
  PROVE  [D!Next]_(D!vars)
<1>1. PICK r \in Runners, i \in SlotIdx, p \in Profiles :
        r = inv[w].runner /\ i = inv[w].slot /\ p = inv[w].profile
  BY DEF Frees
<1>2. /\ SameSlotsBut(r, i) /\ SameRunnerStatus /\ jobs' = jobs
      /\ \/ /\ runners[r].status = "ACTIVE" /\ runners'[r].slots[i].job = NoJob
         \/ runners' = runners
  BY <1>1, RunnerFacts, MarkIdleEffect DEF Frees, IInv
<1>3. phaseBar' = phaseBar
  BY <1>2 DEF phaseBar
<1>4. CASE runners' = runners
  BY <1>3, <1>4 DEF holderBar, D!vars
<1>5. CASE runners[r].status = "ACTIVE" /\ runners'[r].slots[i].job = NoJob
  <2>1. JobOf(w) \in Jobs /\ Seated(r, i, JobOf(w)) /\ Over(JobOf(w))
    BY <1>1, RunnerFacts, CompletedCarries DEF Frees, Seats, At, IInv
  <2>2. PICK j \in Jobs : j = JobOf(w) /\ Seated(r, i, j) /\ Over(j)
    BY <2>1
  <2>3. <<r, i>> \in D!Slots /\ holderBar[<<r, i>>] = j /\ phaseBar[j] = "over"
    BY <1>5, <2>2, Phased DEF Seated, Holds, Over, holderBar, phaseBar, D!Slots
  <2>4. holderBar' = [holderBar EXCEPT ![<<r, i>>] = NoJob]
    BY <1>2, <1>5, HolderSet
  <2>5. D!Release(<<r, i>>)
    BY <1>3, <2>3, <2>4 DEF D!Release
  <2>6. QED
    BY <2>3, <2>5 DEF D!Next
<1>6. QED
  BY <1>2, <1>4, <1>5

\* The other steps give no slot and take none.
LEMMA OtherHolders ==
  ASSUME Typed, LaunchInv, NEW w \in Workers, RunnerStep(w), ~Binds(w), ~Shares(w), ~Frees(w)
  PROVE  holderBar' = holderBar
<1> USE RunnerFacts
<1>1. CASE Elsewhere(w) \/ Starts(w)
  BY <1>1 DEF Elsewhere, Starts, holderBar
<1>2. CASE Opens(w)
  BY <1>2, NewRow, HolderKept DEF Opens, SameRunnersBut
<1>3. CASE Names(w)
  BY <1>3, HolderKept DEF Names, SameRunnersBut, RunnerRow
<1>4. CASE Drops(w)
  <2>1. PICK r \in Runners : r = inv[w].runner
    BY <1>4 DEF Drops
  <2>2. /\ SameRunnersBut(r) /\ runners'[r].status = "FAILED"
        /\ runners[r].status = "PROVISIONING"
    BY <1>4, <2>1 DEF Drops, RunnerRow, LaunchInv, LaunchStages, Unnamed
  <2>3. QED
    BY <2>2, HolderKept DEF SameRunnersBut
<1>5. QED
  BY <1>1, <1>2, <1>3, <1>4 DEF RunnerStep

LEMMA OtherPhases ==
  ASSUME IInv, [Next]_vars, holderBar' = holderBar,
         \A j \in Jobs : jobs'[j].status = "ALLOCATED" => jobs'[j] = jobs[j]
  PROVE  [D!Next]_(D!vars)
<1>1. CASE jobs' = jobs
  BY <1>1 DEF phaseBar, D!vars
<1>2. ASSUME NEW w \in Workers, JobStep(w), jobs' # jobs PROVE [D!Next]_(D!vars)
  <2>1. /\ JobOf(w) \in Jobs /\ SameJobsBut(JobOf(w)) /\ JobBecomes(JobOf(w))
        /\ \/ inv[w].pc \in Section
           \/ /\ jobs[JobOf(w)].status \in {"ABSENT", "QUEUED"}
              /\ jobs'[JobOf(w)].status \notin {"COMPLETED", "FAILED"}
           \/ inv[w].pc = "complete"
    BY <1>2 DEF JobStep, Respects
  <2>2. PICK j \in Jobs : j = JobOf(w)
    BY <2>1
  <2>3. /\ phaseBar[j] = Phase(jobs[j].status)
        /\ phaseBar' = [phaseBar EXCEPT ![j] = Phase(jobs'[j].status)]
    BY <2>1, <2>2, PhaseSet
  <2>4. jobs[j] \in JobRow
    BY DEF IInv, Typed, TypeOK, TableTypeOK
  <2>5. jobs'[j].status \in {"COMPLETED", "FAILED"} => jobs[j].status # "ABSENT"
    BY <2>1, <2>2 DEF IInv, JobInv, RowsThere, Known
  <2>6. CASE jobs[j].status = "ABSENT" /\ jobs'[j].status = "QUEUED"
    BY <2>3, <2>6, Phased DEF D!Next, D!Submit, D!Move
  <2>7. CASE jobs[j].status = "QUEUED" /\ jobs'[j].status = "PROVISIONING"
    BY <2>3, <2>7, Phased DEF D!Next, D!Start, D!Move
  <2>8. CASE jobs[j].status = "PROVISIONING" /\ jobs'[j].status = "QUEUED"
    BY <2>3, <2>8, Phased DEF D!Next, D!Withdraw, D!Move
  <2>9. CASE jobs'[j].status \in {"COMPLETED", "FAILED"}
    <3>1. CASE Over(j)
      <4>1. phaseBar' = phaseBar
        <5>1. Phase(jobs'[j].status) = phaseBar[j]
          BY <2>3, <2>9, <3>1, Phased DEF Over
        <5>2. QED
          BY <2>3, <5>1 DEF phaseBar
      <4>2. QED
        BY <4>1 DEF D!vars
    <3>2. CASE ~Over(j)
      <4>1. phaseBar[j] \in {"waiting", "starting", "running"}
        BY <2>3, <2>4, <2>5, <2>9, <3>2, Phased DEF Over, JobRow, JobStatus
      <4>2. phaseBar' = [phaseBar EXCEPT ![j] = "over"]
        BY <2>3, <2>9, Phased
      <4>3. QED
        BY <4>1, <4>2 DEF D!Next, D!Finish, D!Move
    <3>3. QED
      BY <3>1, <3>2
  <2>10. CASE jobs'[j] = jobs[j]
    <3>1. phaseBar' = phaseBar
      BY <2>3, <2>10 DEF phaseBar
    <3>2. QED
      BY <3>1 DEF D!vars
  <2>11. jobs'[j].status = "PROVISIONING" \/ ~(jobs'[j] = [jobs[j] EXCEPT !.status = "PROVISIONING"])
    BY <2>4 DEF JobRow
  <2>12. QED
    BY <2>1, <2>2, <2>6, <2>7, <2>8, <2>9, <2>10, <2>11 DEF JobBecomes
<1>3. QED
  BY <1>1, <1>2, JobSteps DEF IInv

\* Whatever the messages do, jobs get slots the way Dispatch says: each step of the code,
\* one call to DynamoDB or EC2, is one step of Dispatch or none, and a slot that
\* handleCompleted frees is one whose job is over.
THEOREM ImplementsDispatch == CompletedOnce /\ Spec => Dispatches
<1> DEFINE Inv == LaunchInv /\ Once /\ Seats /\ VacantSlots
<1>1. Init => Inv /\ D!Init
  BY LaunchInvInit, SeatsInit, VacantInit, DispatchInit
<1>2. ASSUME IInv, Inv, [Next]_vars PROVE LaunchInv' /\ [D!Next]_(D!vars)
  <2>1. CASE UNCHANGED <<jobs, runners, inv, ec2>>
    <3>1. LaunchInv'
      BY <1>2, <2>1 DEF LaunchInv, OwnRow, LaunchStages, RowsOfInstances, InSection
    <3>2. UNCHANGED D!vars
      BY <2>1 DEF D!vars, phaseBar, holderBar
    <3>3. QED
      BY <3>1, <3>2
  <2>2. ASSUME NEW w \in Workers, RunnerStep(w) PROVE LaunchInv' /\ [D!Next]_(D!vars)
    <3>1. LaunchInv'
      BY <1>2, <2>2, LaunchInvStep DEF IInv
    <3>2. CASE Binds(w) \/ Shares(w) \/ Frees(w)
      BY <1>2, <3>1, <3>2, BindsDispatch, SharesDispatch, FreesDispatch
    <3>3. CASE ~(Binds(w) \/ Shares(w) \/ Frees(w))
      <4>1. holderBar' = holderBar
        BY <1>2, <2>2, <3>3, OtherHolders DEF IInv
      <4>2. \A j \in Jobs : jobs'[j].status = "ALLOCATED" => jobs'[j] = jobs[j]
        BY <1>2, <2>2, <3>3, SeatTaken DEF IInv
      <4>3. QED
        BY <1>2, <3>1, <4>1, <4>2, OtherPhases
    <3>4. QED
      BY <3>2, <3>3
  <2>3. QED
    BY <1>2, <2>1, <2>2, RunnerSteps DEF IInv
<1>3. ASSUME CompletedOnce
      PROVE  Spec => Dispatches
  <2>1. IInv /\ Inv /\ [Next]_vars => Inv' /\ [D!Next]_(D!vars)
    BY <1>2, <1>3, OnceStep, SeatsStep, VacantStep DEF IInv, JobInv
  <2> HIDE DEF Inv
  <2>2. QED
    BY <1>1, <2>1, Inductive, PTL DEF Spec, Dispatches, D!Spec
<1>4. QED
  BY <1>3
-----------------------------------------------------------------------------
(***************************************************************************)
(* The pool.                                                               *)
(***************************************************************************)

\* With one runner on each instance, the only idle slot a query finds is the last.
\* With more, see provision_pool_lost.
RunnersAlone == RunnerCount = 1

LastOnly ==
  \A w \in Workers :
    /\ At(w, "idle") => inv[w].cands = {}
    /\ inv[w].pc \in Before \cup Section => \A c \in inv[w].cands : c.last

LEMMA OnlySlot ==
  ASSUME RunnersAlone, TableTypeOK
  PROVE  /\ SlotIdx = {0}
         /\ \A p : \A c \in IdleCandidates(p) : c.last
         /\ \A r \in Runners : IdleSlots(runners[r]) # {} <=> runners[r].slots[0].status = "IDLE"
<1>1. SlotIdx = {0}
  BY DEF RunnersAlone, SlotIdx
<1>2. ASSUME NEW p, NEW c \in IdleCandidates(p) PROVE c.last
  <2>1. c.slot \in IdleSlots(runners[c.runner]) /\ IdleSlots(runners[c.runner]) \subseteq {0}
    BY <1>1 DEF IdleCandidates, IdleSlots
  <2>2. IdleSlots(runners[c.runner]) = {c.slot}
    BY <2>1
  <2>3. QED
    BY <2>2 DEF IdleCandidates
<1>3. QED
  BY <1>1, <1>2 DEF IdleSlots

LEMMA LastOnlyStep ==
  ASSUME Typed, RunnersAlone, LastOnly, [Next]_vars
  PROVE  LastOnly'
<1>1. CASE UNCHANGED vars \/ \E m \in Messages : Send(m)
  BY <1>1 DEF vars, Send, LastOnly, At
<1>2. ASSUME NEW w \in Workers, Received(w) PROVE LastOnly'
  <2>1. /\ SameInvBut(w) /\ inv'[w].cands = {} /\ inv'[w].pc # "idle"
    BY <1>2 DEF Received, LastOnly
  <2>2. QED
    BY <2>1 DEF LastOnly, At, SameInvBut
<1>3. ASSUME NEW w \in Workers, Turned(w) PROVE LastOnly'
  <2>1. SameInvBut(w)
    BY <1>3 DEF Turned
  <2>2. CASE inv'[w] = Idle
    BY <2>1, <2>2 DEF LastOnly, At, SameInvBut, Idle, Before, Section
  <2>3. CASE inv'[w] # Idle
    <3>1. /\ inv'[w].pc # "idle"
          /\ inv'[w].pc \in Before \cup Section =>
               /\ inv[w].pc \in Before \cup Section
               /\ \/ inv'[w].cands \subseteq inv[w].cands
                  \/ inv'[w].cands = IdleCandidates(inv[w].profile)
      BY <1>3, <2>3 DEF Turned
    <3>2. \A c \in IdleCandidates(inv[w].profile) : c.last
      BY OnlySlot DEF Typed, TypeOK
    <3>3. QED
      BY <2>1, <3>1, <3>2 DEF LastOnly, At, SameInvBut
  <2>4. QED
    BY <2>2, <2>3
<1>4. QED
  BY <1>1, <1>2, <1>3, Turns

\* The entry and the slot of a row are written together.
LEMMA PoolExactStep ==
  ASSUME Typed, RunnersAlone, LastOnly, PoolExact, NEW w \in Workers, RunnerStep(w)
  PROVE  PoolExact'
<1> USE RunnerFacts
<1>1. SlotIdx = {0} /\ TableTypeOK /\ RunnerCount = 1
  BY OnlySlot DEF RunnersAlone
<1> DEFINE Exact(row) == row.pool # NoPool <=> row.status = "ACTIVE" /\ row.slots[0].status = "IDLE"
<1>2. /\ PoolExact <=> \A r \in Runners : Exact(runners[r])
      /\ PoolExact' <=> \A r \in Runners : Exact(runners'[r])
  BY <1>1 DEF PoolExact, IdleSlots
<1>3. ASSUME NEW r \in Runners, SameRunnersBut(r), Exact(runners'[r]) PROVE PoolExact'
  BY <1>2, <1>3 DEF SameRunnersBut
<1>4. CASE Elsewhere(w) \/ Starts(w)
  BY <1>2, <1>4 DEF Elsewhere, Starts
<1>5. CASE Opens(w)
  <2>1. PICK r \in Runners : SameRunnersBut(r) /\ runners'[r] = NewProvisioningRunner(inv[w].profile)
    BY <1>5 DEF Opens
  <2>2. Exact(runners'[r])
    BY <1>5, <2>1, NewRow DEF Opens
  <2>3. QED
    BY <1>3, <2>1, <2>2
<1>6. CASE Names(w)
  BY <1>2, <1>3, <1>6 DEF Names, RunnerRow
<1>7. CASE Drops(w)
  BY <1>2, <1>3, <1>7 DEF Drops, RunnerRow
<1>8. CASE Binds(w)
  <2>1. PICK r \in Runners : r = inv[w].runner
    BY <1>8 DEF Binds
  <2>2. /\ SameRunnersBut(r) /\ Bound(r, JobOf(w), inv[w].profile)
    BY <1>8, <2>1, BoundRow
  <2>3. runners'[r].pool = NoPool /\ runners'[r].slots[0].status = "BUSY"
    <3>1. /\ runners[r].status = "PROVISIONING" /\ runners'[r].pool = runners[r].pool
          /\ runners'[r].slots[0].status = "BUSY"
      BY <1>1, <2>2 DEF Bound
    <3>2. runners[r].pool = NoPool
      BY <1>2, <2>1, <3>1
    <3>3. QED
      BY <3>1, <3>2
  <2>4. QED
    BY <1>3, <2>2, <2>3
<1>9. CASE Shares(w)
  <2>1. PICK c \in inv[w].cands : c \in Candidate /\ AllocateIdleRunner(c, JobOf(w))
    BY <1>9 DEF Shares
  <2>2. c.last /\ c.runner \in Runners /\ c.slot = 0
    BY <1>1, <1>9, <2>1 DEF Shares, LastOnly, Before, Candidate
  <2>3. /\ SameRunnersBut(c.runner) /\ runners'[c.runner].slots[0].status = "BUSY"
        /\ runners'[c.runner].pool = NoPool
    BY <1>1, <1>9, <2>1, <2>2, AllocateEffect DEF Shares
  <2>4. QED
    BY <1>3, <2>2, <2>3
<1>10. CASE Frees(w)
  <2>1. PICK r \in Runners, i \in SlotIdx, p \in Profiles :
          r = inv[w].runner /\ i = inv[w].slot /\ p = inv[w].profile
    BY <1>10 DEF Frees
  <2>2. MarkIdle(r, 0, p) /\ i = 0 /\ p # NoPool
    BY <1>1, <1>10, <2>1, NullAssumption DEF Frees
  <2>3. \/ /\ SameRunnersBut(r) /\ SameRunnerStatus /\ runners[r].status = "ACTIVE"
           /\ runners'[r].slots[0].status = "IDLE" /\ runners'[r].pool = p
        \/ runners' = runners
    BY <1>1, <2>1, <2>2, MarkIdleEffect
  <2>4. QED
    BY <1>2, <1>3, <2>2, <2>3 DEF SameRunnerStatus
<1>11. QED
  BY <1>4, <1>5, <1>6, <1>7, <1>8, <1>9, <1>10 DEF RunnerStep

\* With one runner on each instance the index holds an instance exactly while its runner is
\* idle, although AllocateIdleRunner decides on a snapshot whether the entry goes and
\* handleCompleted may free the slot twice.
THEOREM PoolIsExact == RunnersAlone /\ Spec => []PoolExact
<1> DEFINE Inv == LastOnly /\ PoolExact
<1>1. Init => Inv
  <2>1. /\ Idle.pc = "idle" /\ Idle.cands = {}
        /\ NoRunnerRow.status = "ABSENT" /\ NoRunnerRow.pool = NoPool
    BY DEF Idle, NoRunnerRow, UnboundRunner
  <2>2. QED
    BY <2>1 DEF Init, TableInit, LastOnly, PoolExact, At, Before, Section
<1>2. ASSUME RunnersAlone, IInv, Inv, [Next]_vars PROVE Inv'
  <2>1. LastOnly'
    BY <1>2, LastOnlyStep DEF IInv
  <2>2. ASSUME UNCHANGED <<jobs, runners, inv, ec2>> PROVE PoolExact'
    BY <1>2, <2>2 DEF PoolExact
  <2>3. ASSUME NEW w \in Workers, RunnerStep(w) PROVE PoolExact'
    BY <1>2, <2>3, PoolExactStep DEF IInv
  <2>4. QED
    BY <1>2, <2>1, <2>2, <2>3, RunnerSteps DEF IInv
<1>3. ASSUME RunnersAlone
      PROVE  Spec => []PoolExact
  <2>1. IInv /\ Inv /\ [Next]_vars => Inv'
    BY <1>2, <1>3
  <2>2. Inv => PoolExact
    OBVIOUS
  <2> HIDE DEF Inv
  <2>3. QED
    BY <1>1, <2>1, <2>2, Inductive, PTL DEF Spec
<1>4. QED
  BY <1>3
-----------------------------------------------------------------------------
(***************************************************************************)
(* The retry budget.                                                       *)
(***************************************************************************)

\* What an invocation writes to the row of its job.
JobWrite(w) ==
  LET j == JobOf(w)
      old == jobs[j]
      new == jobs'[j]
  IN /\ j \in Jobs /\ SameJobsBut(j)
     /\ \/ /\ inv[w].pc = "create" /\ attempts' = attempts
           /\ CreateJob(j, inv[w].profile) /\ new = NewQueuedJob(inv[w].profile)
        \/ /\ inv[w].pc = "claim" /\ attempts' = [attempts EXCEPT ![j] = @ + 1]
           /\ old.status = "QUEUED" /\ new = [old EXCEPT !.status = "PROVISIONING"]
        \/ /\ inv[w].pc = "revert" /\ inv'[w] = Idle /\ attempts' = attempts
           /\ \/ new = [old EXCEPT !.status = "FAILED", !.retry = inv[w].retry + 1]
              \/ /\ old.status = "PROVISIONING" /\ inv[w].retry + 1 < MaxProvisionAttempts
                 /\ new = [old EXCEPT !.status = "QUEUED", !.retry = inv[w].retry + 1]
        \/ /\ inv[w].pc \in {"allocate", "bind"} /\ attempts' = attempts
           /\ old.status \in {"QUEUED", "PROVISIONING"}
           /\ \E r \in Runners, i \in SlotIdx :
                new = [old EXCEPT !.status = "ALLOCATED", !.runner = r, !.slot = i]
        \/ /\ inv[w].pc = "complete" /\ attempts' = attempts
           /\ new = [old EXCEPT !.status = "COMPLETED"]

NoWrite == jobs' = jobs /\ attempts' = attempts

LEMMA QueuedWrites ==
  ASSUME Typed, NEW w \in Workers, Queued(w)
  PROVE  NoWrite \/ JobWrite(w)
<1>1. ~At(w, "idle")
  BY DEF Queued, Create, Query, Allocate, RetryQuery, StopRetrying, Claim, At
<1>2. /\ JobOf(w) \in Jobs /\ TableTypeOK /\ inv[w] \in Invocation
      /\ At(w, "create") => inv[w].profile \in Profiles
  BY <1>1, JobOfType DEF Typed, TypeOK, TableTypeOK, Shape, Remembers, Before, At
<1>3. CASE Create(w)
  <2>1. CASE CreateJob(JobOf(w), inv[w].profile)
    <3>1. SameJobsBut(JobOf(w)) /\ jobs'[JobOf(w)] = NewQueuedJob(inv[w].profile)
      BY <1>2, <2>1 DEF CreateJob, SameJobsBut, TableTypeOK
    <3>2. QED
      BY <1>2, <1>3, <2>1, <3>1 DEF Create, JobWrite, At
  <2>2. CASE UNCHANGED table
    BY <1>3, <2>2 DEF Create, NoWrite, table
  <2>3. QED
    BY <1>3, <2>1, <2>2 DEF Create
<1>4. CASE Query(w) \/ RetryQuery(w) \/ StopRetrying(w)
  BY <1>4 DEF Query, RetryQuery, StopRetrying, NoWrite
<1>5. CASE Allocate(w)
  <2>1. PICK c \in inv[w].cands : AllocateIdleRunner(c, JobOf(w)) \/ UNCHANGED table
    BY <1>5 DEF Allocate
  <2>2. c \in Candidate
    BY <1>2 DEF Invocation
  <2>3. CASE AllocateIdleRunner(c, JobOf(w))
    <3>1. /\ SameJobsBut(JobOf(w)) /\ CanAllocate(c, JobOf(w))
          /\ jobs'[JobOf(w)] = [jobs[JobOf(w)] EXCEPT !.status = "ALLOCATED",
                                                      !.runner = c.runner, !.slot = c.slot]
      BY <1>2, <2>2, <2>3, AllocateEffect
    <3>2. c.runner \in Runners /\ c.slot \in SlotIdx
      BY <2>2 DEF Candidate
    <3>3. jobs[JobOf(w)].status = "QUEUED"
      BY <3>1 DEF CanAllocate
    <3>4. inv[w].pc = "allocate" /\ attempts' = attempts
      BY <1>5 DEF Allocate, At
    <3>5. QED
      <4>1. /\ JobOf(w) \in Jobs /\ jobs[JobOf(w)].status \in {"QUEUED", "PROVISIONING"}
            /\ \E r \in Runners, i \in SlotIdx :
                 jobs'[JobOf(w)] = [jobs[JobOf(w)] EXCEPT !.status = "ALLOCATED",
                                                          !.runner = r, !.slot = i]
        BY <1>2, <3>1, <3>2, <3>3
      <4>2. QED
        BY <3>1, <3>4, <4>1, Zenon DEF JobWrite
  <2>4. CASE UNCHANGED table
    BY <1>5, <2>4 DEF Allocate, NoWrite, table
  <2>5. QED
    BY <2>1, <2>3, <2>4
<1>6. CASE Claim(w)
  <2>1. CASE ClaimForProvisioning(JobOf(w)) /\ attempts' = [attempts EXCEPT ![JobOf(w)] = @ + 1]
    BY <1>2, <1>6, <2>1, ClaimEffect DEF Claim, JobWrite, At
  <2>2. CASE UNCHANGED <<table, attempts>>
    BY <2>2 DEF NoWrite, table
  <2>3. QED
    BY <1>6, <2>1, <2>2 DEF Claim
<1>7. QED
  BY <1>3, <1>4, <1>5, <1>6 DEF Queued

LEMMA ProvisionWrites ==
  ASSUME Typed, NEW w \in Workers, ProvisionRunner(w)
  PROVE  NoWrite \/ JobWrite(w)
<1>1. inv[w].pc \in Section /\ ~At(w, "idle")
  BY DEF ProvisionRunner, CreateRow, CreateRowFails, Launch, LaunchFails, FailRow, Revert,
         SetInstance, Bind, At, Section
<1>2. /\ JobOf(w) \in Jobs /\ TableTypeOK /\ inv[w] \in Invocation /\ jobs[JobOf(w)] \in JobRow
      /\ At(w, "bind") => inv[w].runner \in Runners /\ inv[w].profile \in Profiles
  BY <1>1, JobOfType DEF Typed, TypeOK, TableTypeOK, Shape, Remembers, Owning, At
<1>3. CASE \/ CreateRow(w) \/ CreateRowFails(w) \/ Launch(w) \/ LaunchFails(w) \/ FailRow(w)
           \/ SetInstance(w)
  BY <1>3 DEF CreateRow, CreateRowFails, Launch, LaunchFails, FailRow, SetInstance, NoWrite,
              CreateProvisioning, MarkRunnerFailed, SetInstanceID, table
<1>4. CASE Revert(w)
  <2>1. CASE UNCHANGED table
    BY <1>4, <2>1 DEF Revert, NoWrite, table
  <2>2. CASE RevertProvisioning(JobOf(w), inv[w].retry)
    <3> DEFINE n == inv[w].retry
               j == JobOf(w)
    <3>1. /\ j \in Jobs /\ n \in Nat /\ n + 1 \in Nat /\ jobs \in [Jobs -> JobRow]
          /\ MaxProvisionAttempts \in Nat /\ RevertProvisioning(j, n)
      BY <1>2, <2>2, AttemptsAssumption DEF Invocation, TableTypeOK
    <3>2. inv'[w] = Idle /\ inv[w].pc = "revert" /\ attempts' = attempts
      BY <1>4 DEF Revert, GiveBack, At, Typed, TypeOK
    <3> HIDE DEF n, j
    <3>3. CASE jobs' = [jobs EXCEPT ![j].status = "FAILED", ![j].retry = n + 1]
      <4>1. /\ SameJobsBut(j)
            /\ jobs'[j] = [jobs[j] EXCEPT !.status = "FAILED", !.retry = n + 1]
        BY <3>1, <3>3 DEF SameJobsBut
      <4>2. QED
        BY <3>1, <3>2, <4>1 DEF JobWrite, j, n
    <3>4. CASE /\ jobs[j].status = "PROVISIONING" /\ n + 1 < MaxProvisionAttempts
               /\ jobs' = [jobs EXCEPT ![j].status = "QUEUED", ![j].retry = n + 1]
      <4>1. /\ SameJobsBut(j)
            /\ jobs'[j] = [jobs[j] EXCEPT !.status = "QUEUED", !.retry = n + 1]
        BY <3>1, <3>4 DEF SameJobsBut
      <4>2. QED
        BY <3>1, <3>2, <3>4, <4>1 DEF JobWrite, j, n
    <3>5. CASE jobs' = jobs
      BY <3>2, <3>5 DEF NoWrite
    <3>6. ~(n + 1 >= MaxProvisionAttempts) => n + 1 < MaxProvisionAttempts
      BY <3>1
    <3>7. QED
      BY <3>1, <3>3, <3>4, <3>5, <3>6 DEF RevertProvisioning
  <2>3. QED
    BY <1>4, <2>1, <2>2 DEF Revert
<1>5. CASE Bind(w)
  <2>1. CASE BindToJob(inv[w].runner, JobOf(w), inv[w].profile)
    <3>1. /\ SameJobsBut(JobOf(w)) /\ jobs[JobOf(w)].status = "PROVISIONING"
          /\ jobs'[JobOf(w)] = [jobs[JobOf(w)] EXCEPT !.status = "ALLOCATED",
                                                      !.runner = inv[w].runner, !.slot = 0]
      BY <1>2, <1>5, <2>1, BindEffect DEF Bind
    <3>2. inv[w].pc = "bind" /\ attempts' = attempts /\ inv[w].runner \in Runners
      BY <1>2, <1>5 DEF Bind, At
    <3>3. QED
      BY <1>2, <3>1, <3>2, TableConstants DEF JobWrite
  <2>2. CASE UNCHANGED table
    BY <1>5, <2>2 DEF Bind, NoWrite, table
  <2>3. QED
    BY <1>5, <2>1, <2>2 DEF Bind
<1>6. QED
  BY <1>3, <1>4, <1>5 DEF ProvisionRunner

LEMMA JobWrites ==
  ASSUME Typed, [Next]_vars
  PROVE  NoWrite \/ \E w \in Workers : JobWrite(w)
<1>1. ASSUME NEW w \in Workers, Completed(w) PROVE NoWrite \/ JobWrite(w)
  <2>1. CASE Get(w) \/ Free(w)
    BY <2>1 DEF Get, Free, MarkIdle, NoWrite
  <2>2. CASE Complete(w)
    <3>1. JobOf(w) \in Jobs /\ TableTypeOK
      BY <2>2, JobOfType DEF Complete, At, Typed, TypeOK
    <3>2. QED
      BY <2>2, <3>1, CompleteEffect DEF Complete, JobWrite, At
  <2>3. QED
    BY <1>1, <2>1, <2>2 DEF Completed
<1>2. CASE UNCHANGED vars
  BY <1>2 DEF vars, NoWrite
<1>3. CASE \/ \E m \in Messages : Send(m)
           \/ \E w \in Workers, m \in Messages : Receive(w, m)
           \/ \E w \in Workers : Abandon(w) \/ Ack(w)
  BY <1>3 DEF Send, Receive, Abandon, Ack, NoWrite
<1>4. QED
  BY <1>1, <1>2, <1>3, QueuedWrites, ProvisionWrites DEF Next, Work, Quiescent

\* SQS keeps a message from everybody else while an invocation has it; provision_live
\* checks the budget under the same condition.
HeldByOne == "duplicate" \notin Faults

Single ==
  \A m \in Messages :
    /\ m \notin sent => m \notin queue /\ \A w \in Workers : ~Carries(w, m)
    /\ \A w \in Workers : Carries(w, m) =>
         m \notin queue /\ \A v \in Workers \ {w} : ~Carries(v, m)

\* The retry count an invocation read is still that of its job when it is used.
Fresh ==
  /\ \A w \in Workers : inv[w].pc \in {"idle", "create"} => inv[w].retry = 0
  /\ \A w \in Workers : inv[w].pc \in (Before \ {"create"}) \cup Section =>
       inv[w].retry = jobs[JobOf(w)].retry

Budget ==
  \A j \in Jobs :
    /\ attempts[j] <= MaxProvisionAttempts
    /\ jobs[j].status = "ABSENT" => attempts[j] = 0
    /\ jobs[j].status = "QUEUED" =>
         attempts[j] <= jobs[j].retry /\ jobs[j].retry < MaxProvisionAttempts
    /\ jobs[j].status = "PROVISIONING" =>
         attempts[j] <= jobs[j].retry + 1 /\ jobs[j].retry < MaxProvisionAttempts

LEMMA SingleStep ==
  ASSUME Typed, HeldByOne, Single, [Next]_vars
  PROVE  Single'
<1>1. CASE UNCHANGED vars
  BY <1>1 DEF vars, Single, Carries, At
<1>2. CASE \E m \in Messages : Send(m)
  <2>1. PICK m \in Messages : Send(m)
    BY <1>2
  <2>2. m \notin sent /\ sent' = sent \cup {m} /\ queue' = queue \cup {m} /\ inv' = inv
    BY <2>1 DEF Send
  <2>3. QED
    BY <2>1, <2>2 DEF Single, Carries, At
<1>3. ASSUME NEW w \in Workers, Received(w) PROVE Single'
  <2> DEFINE m == inv'[w].msg
  <2>1. /\ m \in queue /\ queue' = queue \ {m} /\ sent' = sent /\ SameInvBut(w)
        /\ inv'[w].pc # "idle" /\ At(w, "idle")
    BY <1>3 DEF Received, HeldByOne
  <2>2. /\ \A v \in Workers \ {w} : \A n : Carries(v, n)' <=> Carries(v, n)
        /\ \A n : Carries(w, n)' <=> n = m
    BY <2>1 DEF Carries, At, SameInvBut
  <2> HIDE DEF m
  <2>3. QED
    BY <2>1, <2>2 DEF Single
<1>4. ASSUME NEW w \in Workers, Turned(w) PROVE Single'
  <2> DEFINE m == inv[w].msg
  <2>1. sent' = sent /\ SameInvBut(w) /\ Carries(w, m) /\ \A n : Carries(w, n) => n = m
    BY <1>4 DEF Turned, Carries
  <2>2. \A v \in Workers \ {w} : \A n : Carries(v, n)' <=> Carries(v, n)
    BY <2>1 DEF Carries, At, SameInvBut
  <2>3. \/ (\A n : ~Carries(w, n)') /\ queue' \subseteq queue \cup {m}
        \/ (\A n : Carries(w, n)' <=> Carries(w, n)) /\ queue' = queue
    BY <1>4 DEF Turned, Carries, At, Idle
  <2> HIDE DEF m
  <2>4. QED
    BY <2>1, <2>2, <2>3 DEF Single
<1>5. QED
  BY <1>1, <1>2, <1>3, <1>4, Turns

\* One `queued' message, one invocation at work on its job.
LEMMA Alone ==
  ASSUME Typed, Single, NEW w \in Workers, NEW v \in Workers,
         inv[w].pc \in Before \cup Section, inv[v].pc \in Before \cup Section,
         JobOf(v) = JobOf(w)
  PROVE  v = w
<1>1. /\ inv[w].msg \in Messages /\ inv[w].msg.kind = "queued" /\ ~At(w, "idle")
      /\ inv[v].msg \in Messages /\ inv[v].msg.kind = "queued" /\ ~At(v, "idle")
  BY DEF Typed, Shape, Remembers, At, Before, Section
<1>2. inv[v].msg = inv[w].msg
  BY <1>1 DEF Messages, JobOf
<1>3. QED
  BY <1>1, <1>2 DEF Single, Carries

LEMMA FreshStep ==
  ASSUME Typed, Single, Fresh, [Next]_vars
  PROVE  Fresh'
<1> DEFINE Reader(v) == inv[v].pc \in (Before \ {"create"}) \cup Section
\* Nobody else changes the retry count of a job that is worked on.
<1>1. ASSUME NEW v \in Workers, Reader(v)
      PROVE  jobs'[JobOf(v)].retry = jobs[JobOf(v)].retry \/ inv'[v] = Idle
  <2>1. JobOf(v) \in Jobs /\ jobs[JobOf(v)] \in JobRow
    BY <1>1, JobOfType DEF Typed, TypeOK, TableTypeOK, At, Before, Section
  <2>2. ASSUME NEW w \in Workers, JobWrite(w), JobOf(w) = JobOf(v), w # v
        PROVE  jobs'[JobOf(v)].retry = jobs[JobOf(v)].retry
    <3>1. inv[w].pc = "complete"
      BY <1>1, <2>2, Alone DEF JobWrite, Before, Section
    <3>2. QED
      BY <2>1, <2>2, <3>1 DEF JobWrite, JobRow
  <2>3. ASSUME JobWrite(v)
        PROVE  jobs'[JobOf(v)].retry = jobs[JobOf(v)].retry \/ inv'[v] = Idle
    BY <1>1, <2>1, <2>3 DEF JobWrite, JobRow, Before, Section
  <2>4. ASSUME NEW w \in Workers, JobWrite(w), JobOf(w) # JobOf(v)
        PROVE  jobs'[JobOf(v)].retry = jobs[JobOf(v)].retry
    BY <2>1, <2>4 DEF JobWrite, SameJobsBut
  <2>5. NoWrite => jobs'[JobOf(v)].retry = jobs[JobOf(v)].retry
    BY DEF NoWrite
  <2>6. QED
    BY <2>2, <2>3, <2>4, <2>5, JobWrites
<1>2. ASSUME NEW v \in Workers, inv'[v] = inv[v] \/ Received(v) \/ Turned(v)
      PROVE  /\ inv'[v].pc \in {"idle", "create"} => inv'[v].retry = 0
             /\ Reader(v)' => inv'[v].retry = jobs'[inv'[v].msg.job].retry
  <2>1. Idle.pc = "idle" /\ Idle.retry = 0
    BY DEF Idle
  <2>2. CASE inv'[v] = Idle
    BY <2>1, <2>2 DEF Before, Section
  <2>3. CASE inv'[v] = inv[v] /\ inv'[v] # Idle
    BY <1>1, <2>3 DEF Fresh, JobOf
  <2>4. CASE Received(v)
    BY <2>4 DEF Received, Fresh, At, Before, Section
  <2>5. CASE Turned(v) /\ inv'[v] # Idle
    <3>1. /\ inv'[v].msg = inv[v].msg /\ inv'[v].pc \notin {"idle", "create"}
          /\ inv'[v].pc \in Before \cup Section =>
               /\ inv[v].pc \in Before \cup Section
               /\ \/ /\ inv'[v].retry = inv[v].retry
                     /\ inv[v].pc = "create" => CreateJob(JobOf(v), inv[v].profile)
                  \/ inv'[v].retry = jobs[JobOf(v)].retry /\ UNCHANGED table
      BY <2>5 DEF Turned
    <3>2. ASSUME Reader(v)' PROVE inv'[v].retry = jobs'[JobOf(v)].retry
      <4>1. JobOf(v) \in Jobs
        BY <3>1, <3>2, JobOfType DEF At, Before, Section
      <4>2. CASE inv'[v].retry = jobs[JobOf(v)].retry /\ UNCHANGED table
        BY <4>2 DEF table
      <4>3. CASE inv'[v].retry = inv[v].retry /\ CreateJob(JobOf(v), inv[v].profile)
                 /\ inv[v].pc = "create"
        <5>1. jobs'[JobOf(v)].retry = 0
          BY <4>1, <4>3 DEF CreateJob, NewQueuedJob, UnboundJob, Typed, TypeOK, TableTypeOK
        <5>2. QED
          BY <4>3, <5>1 DEF Fresh
      <4>4. CASE inv'[v].retry = inv[v].retry /\ inv[v].pc # "create"
        BY <1>1, <2>5, <3>1, <3>2, <4>4 DEF Fresh
      <4>5. QED
        BY <3>1, <3>2, <4>2, <4>3, <4>4
    <3>3. QED
      BY <3>1, <3>2 DEF JobOf
  <2>6. QED
    BY <1>2, <2>2, <2>3, <2>4, <2>5
<1>3. \A v \in Workers : inv'[v] = inv[v] \/ Received(v) \/ Turned(v)
  BY Turner
<1>4. QED
  BY <1>2, <1>3 DEF Fresh, JobOf

LEMMA BudgetStep ==
  ASSUME Typed, Fresh, Budget, [Next]_vars
  PROVE  Budget'
<1>1. CASE NoWrite
  BY <1>1 DEF NoWrite, Budget
<1>2. ASSUME NEW w \in Workers, JobWrite(w) PROVE Budget'
  <2>1. PICK j \in Jobs : j = JobOf(w)
    BY <1>2 DEF JobWrite
  <2> DEFINE Within(row, n) ==
               /\ n <= MaxProvisionAttempts
               /\ row.status = "ABSENT" => n = 0
               /\ row.status = "QUEUED" => n <= row.retry /\ row.retry < MaxProvisionAttempts
               /\ row.status = "PROVISIONING" =>
                    n <= row.retry + 1 /\ row.retry < MaxProvisionAttempts
  <2>2. /\ jobs[j] \in JobRow /\ attempts[j] \in Nat /\ attempts \in [Jobs -> Nat]
        /\ jobs[j].retry \in Nat /\ inv[w].retry \in Nat /\ Within(jobs[j], attempts[j])
        /\ MaxProvisionAttempts \in Nat \ {0}
    BY <2>1, AttemptsAssumption DEF Budget, Typed, TypeOK, TableTypeOK, JobRow, Invocation
  <2>3. SameJobsBut(j) /\ \A k \in Jobs \ {j} : attempts'[k] = attempts[k]
    BY <1>2, <2>1, <2>2 DEF JobWrite
  <2>4. Within(jobs'[j], attempts'[j])
    <3>1. CASE inv[w].pc = "create"
      <4>1. /\ attempts' = attempts /\ jobs[j].status = "ABSENT"
            /\ jobs'[j].status = "QUEUED" /\ jobs'[j].retry = 0
        BY <1>2, <2>1, <3>1 DEF JobWrite, CreateJob, NewQueuedJob, UnboundJob
      <4>2. QED
        BY <2>2, <4>1
    <3>2. CASE inv[w].pc = "claim"
      <4>1. /\ attempts'[j] = attempts[j] + 1 /\ jobs[j].status = "QUEUED"
            /\ jobs'[j].status = "PROVISIONING" /\ jobs'[j].retry = jobs[j].retry
        BY <1>2, <2>1, <2>2, <3>2 DEF JobWrite, JobRow
      <4>2. QED
        BY <2>2, <4>1
    <3>3. CASE inv[w].pc = "revert"
      <4>1. inv[w].retry = jobs[j].retry
        BY <2>1, <3>3 DEF Fresh, Section
      <4>2. /\ attempts' = attempts
            /\ \/ jobs'[j].status = "FAILED"
               \/ /\ jobs[j].status = "PROVISIONING" /\ jobs'[j].status = "QUEUED"
                  /\ jobs'[j].retry = jobs[j].retry + 1
                  /\ jobs'[j].retry < MaxProvisionAttempts
        BY <1>2, <2>1, <2>2, <3>3, <4>1 DEF JobWrite, JobRow
      <4>3. QED
        BY <2>2, <4>2
    <3>4. CASE inv[w].pc \in {"allocate", "bind", "complete"}
      <4>1. attempts' = attempts /\ jobs'[j].status \in {"ALLOCATED", "COMPLETED"}
        BY <1>2, <2>1, <2>2, <3>4 DEF JobWrite, JobRow
      <4>2. QED
        BY <2>2, <4>1
    <3>5. QED
      BY <1>2, <3>1, <3>2, <3>3, <3>4 DEF JobWrite
  <2>5. QED
    BY <2>3, <2>4 DEF Budget, SameJobsBut
<1>3. QED
  BY <1>1, <1>2, JobWrites

\* The code has no counter of launches but the retry count in the row, which an
\* invocation reads once and writes back one higher at the end of its launch: what keeps
\* the budget is that nobody else can have changed it meanwhile.
THEOREM BudgetKept == HeldByOne /\ Spec => []AttemptsBounded
<1> DEFINE Inv == Single /\ Fresh /\ Budget
<1>1. Init => Inv
  <2>1. Idle.pc = "idle" /\ Idle.retry = 0 /\ NoJobRow.status = "ABSENT"
    BY DEF Idle, NoJobRow, UnboundJob
  <2>2. QED
    BY <2>1, AttemptsAssumption
    DEF Init, TableInit, Single, Fresh, Budget, Carries, At, Before, Section
<1>2. ASSUME HeldByOne, IInv, Inv, [Next]_vars PROVE Inv'
  BY <1>2, SingleStep, FreshStep, BudgetStep DEF IInv
<1>3. Inv => AttemptsBounded
  BY DEF Budget, AttemptsBounded
<1>4. ASSUME HeldByOne
      PROVE  Spec => []AttemptsBounded
  <2>1. IInv /\ Inv /\ [Next]_vars => Inv'
    BY <1>2, <1>4
  <2> HIDE DEF Inv
  <2>2. QED
    BY <1>1, <1>3, <2>1, Inductive, PTL DEF Spec
<1>5. QED
  BY <1>4
-----------------------------------------------------------------------------
(***************************************************************************)
(* The profile of a runner and of its jobs.                                *)
(***************************************************************************)

\* The labels of a job name one profile, as provision_pool has it too: a job that matches
\* two may be launched for one and freed into the pool of the other.
OneMatch == \A j \in Jobs : \A p, q \in Matching[j] : p = q

\* A runner an invocation works on is of the profile the invocation works for, and both
\* are of the profile its job matches.
Belongs ==
  /\ \A w \in Workers : inv[w].pc \in Before \cup Section =>
       /\ inv[w].profile \in Matching[JobOf(w)]
       /\ \A c \in inv[w].cands : runners[c.runner].profile = inv[w].profile
  /\ \A w \in Workers :
       /\ At(w, "idle") => inv[w].cands = {}
       /\ inv[w].pc \in Owning => runners[inv[w].runner].profile = inv[w].profile
       /\ inv[w].pc \in {"complete", "free"} /\ inv[w].runner # NoRunner =>
            runners[inv[w].runner].profile = inv[w].profile
  /\ \A j \in Jobs :
       /\ jobs[j].status # "ABSENT" => jobs[j].profile \in Matching[j]
       /\ jobs[j].runner # NoRunner => /\ jobs[j].status # "ABSENT"
                                       /\ runners[jobs[j].runner].profile = jobs[j].profile
  /\ \A r \in Runners : runners[r].status = "ABSENT" => runners[r].profile = NoPool

LEMMA Matched ==
  ASSUME NEW j \in Jobs, NEW p \in Matching[j]
  PROVE  p \in Profiles /\ p # NoPool
BY MatchingAssumption, NullAssumption

LEMMA BelongsInit == Init => Belongs /\ PoolOfProfile
<1>1. /\ Idle.pc = "idle" /\ Idle.cands = {} /\ Idle.runner = NoRunner
      /\ NoJobRow.status = "ABSENT" /\ NoJobRow.runner = NoRunner
      /\ NoRunnerRow.pool = NoPool /\ NoRunnerRow.profile = NoPool
  BY DEF Idle, NoJobRow, NoRunnerRow, UnboundJob, UnboundRunner
<1>2. QED
  BY <1>1 DEF Init, TableInit, Belongs, PoolOfProfile, At, Before, Section, Owning

\* The profile of a row is that of its put.
LEMMA RowProfile ==
  ASSUME Typed, Belongs, [Next]_vars, NEW r \in Runners
  PROVE  /\ runners[r].profile # NoPool => runners'[r].profile = runners[r].profile
         /\ runners'[r].status = "ABSENT" => runners'[r].profile = NoPool
<1> USE RunnerFacts
<1>1. CASE UNCHANGED <<jobs, runners, inv, ec2>>
  BY <1>1 DEF Belongs
<1>2. ASSUME NEW w \in Workers, RunnerStep(w)
      PROVE  /\ runners[r].profile # NoPool => runners'[r].profile = runners[r].profile
             /\ runners'[r].status = "ABSENT" => runners'[r].profile = NoPool
  <2>1. CASE Elsewhere(w) \/ Starts(w)
    BY <2>1 DEF Elsewhere, Starts, Belongs
  <2>2. CASE Opens(w)
    <3>1. PICK q \in Runners :
            /\ runners[q].status = "ABSENT" /\ SameRunnersBut(q)
            /\ runners'[q] = NewProvisioningRunner(inv[w].profile)
      BY <2>2 DEF Opens
    <3>2. runners[q].profile = NoPool /\ runners'[q].status = "PROVISIONING"
      BY <2>2, <3>1, NewRow DEF Opens, Belongs
    <3>3. QED
      BY <3>1, <3>2 DEF SameRunnersBut, Belongs
  <2>3. CASE Names(w)
    BY <2>3 DEF Names, SameRunnersBut, RunnerRow, Belongs
  <2>4. CASE Drops(w)
    <3>1. PICK q \in Runners :
            SameRunnersBut(q) /\ runners'[q] = [runners[q] EXCEPT !.status = "FAILED", !.pool = NoPool]
      BY <2>4 DEF Drops
    <3>2. runners'[q].status = "FAILED" /\ runners'[q].profile = runners[q].profile
      BY <3>1 DEF RunnerRow
    <3>3. QED
      BY <3>1, <3>2 DEF SameRunnersBut, Belongs
  <2>5. CASE Binds(w)
    BY <2>5, BoundRow DEF SameRunnersBut, Belongs
  <2>6. CASE Shares(w)
    <3>1. PICK c \in Candidate : AllocateIdleRunner(c, JobOf(w)) /\ JobOf(w) \in Jobs
      BY <2>6 DEF Shares
    <3>2. SameRunnerStatus
      BY <3>1, AllocateEffect
    <3>3. QED
      BY <3>2 DEF SameRunnerStatus, Belongs
  <2>7. CASE Frees(w)
    <3>1. runners' = runners \/ SameRunnerStatus
      BY <2>7, MarkIdleEffect DEF Frees
    <3>2. QED
      BY <3>1 DEF SameRunnerStatus, Belongs
  <2>8. QED
    BY <1>2, <2>1, <2>2, <2>3, <2>4, <2>5, <2>6, <2>7 DEF RunnerStep
<1>3. QED
  BY <1>1, <1>2, RunnerSteps

\* So is the profile of a job.
LEMMA JobProfile ==
  ASSUME IInv, Belongs, [Next]_vars, NEW j \in Jobs
  PROVE  /\ jobs[j].status # "ABSENT" =>
              jobs'[j].status # "ABSENT" /\ jobs'[j].profile = jobs[j].profile
         /\ jobs'[j].status # "ABSENT" => jobs'[j].profile \in Matching[j]
<1>1. jobs[j] \in JobRow /\ (jobs[j].status # "ABSENT" => jobs[j].profile \in Matching[j])
  BY DEF IInv, Typed, TypeOK, TableTypeOK, Belongs
<1>2. ASSUME NEW w \in Workers, JobWrite(w), JobOf(w) = j
      PROVE  /\ jobs[j].status # "ABSENT" =>
                  jobs'[j].status # "ABSENT" /\ jobs'[j].profile = jobs[j].profile
             /\ jobs'[j].status # "ABSENT" => jobs'[j].profile \in Matching[j]
  <2>1. CASE inv[w].pc = "create"
    <3>1. /\ jobs[j].status = "ABSENT" /\ jobs'[j].profile = inv[w].profile
      BY <1>2, <2>1 DEF JobWrite, CreateJob, NewQueuedJob, UnboundJob
    <3>2. inv[w].profile \in Matching[j]
      BY <1>2, <2>1 DEF Belongs, Before
    <3>3. QED
      BY <3>1, <3>2
  <2>2. CASE inv[w].pc # "create"
    <3>1. jobs[j].status # "ABSENT"
      BY <1>2, <2>2 DEF JobWrite, IInv, JobInv, RowsThere, Known, Section
    <3>2. QED
      BY <1>1, <1>2, <2>2, <3>1 DEF JobWrite, JobRow
  <2>3. QED
    BY <2>1, <2>2
<1>3. ASSUME NEW w \in Workers, JobWrite(w), JobOf(w) # j PROVE jobs'[j] = jobs[j]
  BY <1>3 DEF JobWrite, SameJobsBut
<1>4. QED
  BY <1>1, <1>2, <1>3, JobWrites DEF NoWrite, IInv

LEMMA WorkBelongs ==
  ASSUME IInv, Belongs, PoolOfProfile, [Next]_vars, NEW v \in Workers,
         inv'[v].pc \in Before \cup Section
  PROVE  /\ inv'[v].profile \in Matching[inv'[v].msg.job]
         /\ \A c \in inv'[v].cands : runners'[c.runner].profile = inv'[v].profile
<1>1. Typed /\ inv[v] \in Invocation /\ Idle.pc = "idle"
  BY DEF IInv, Typed, TypeOK, Idle
<1>2. \A r \in Runners : runners[r].profile # NoPool => runners'[r].profile = runners[r].profile
  BY <1>1, RowProfile
<1>3. ASSUME inv[v].pc \in Before \cup Section
      PROVE  /\ inv[v].profile \in Matching[JobOf(v)] /\ inv[v].profile # NoPool
             /\ \A c \in inv[v].cands : runners'[c.runner].profile = inv[v].profile
  <2>1. JobOf(v) \in Jobs
    BY <1>1, <1>3, JobOfType DEF At, Before, Section
  <2>2. /\ inv[v].profile \in Matching[JobOf(v)]
        /\ \A c \in inv[v].cands : runners[c.runner].profile = inv[v].profile
    BY <1>3 DEF Belongs
  <2>3. inv[v].profile # NoPool
    BY <2>1, <2>2, Matched
  <2>4. \A c \in inv[v].cands : c.runner \in Runners
    BY <1>1 DEF Invocation, Candidate
  <2>5. QED
    BY <1>2, <2>2, <2>3, <2>4
<1>4. CASE inv'[v] = inv[v]
  BY <1>3, <1>4 DEF JobOf
<1>5. CASE Received(v)
  BY <1>5 DEF Received, Belongs, Before, Section
<1>6. CASE Turned(v) /\ inv'[v] # Idle
  <2>1. /\ inv'[v].msg = inv[v].msg /\ inv[v].pc \in Before \cup Section
        /\ inv'[v].profile = inv[v].profile
        /\ \/ inv'[v].cands \subseteq inv[v].cands
           \/ inv'[v].cands = IdleCandidates(inv[v].profile) /\ UNCHANGED table
    BY <1>6 DEF Turned
  <2>2. ASSUME UNCHANGED table, NEW c \in IdleCandidates(inv[v].profile)
        PROVE  runners'[c.runner].profile = inv[v].profile
    <3>1. c.runner \in Runners /\ runners[c.runner].pool = inv[v].profile
      BY DEF IdleCandidates, Candidate
    <3>2. runners[c.runner].profile = inv[v].profile
      BY <1>3, <2>1, <3>1 DEF PoolOfProfile
    <3>3. QED
      BY <2>2, <3>2 DEF table
  <2>3. QED
    BY <1>3, <2>1, <2>2 DEF JobOf
<1>7. QED
  BY <1>1, <1>4, <1>5, <1>6, Turner DEF Before, Section

\* The runner of a launch is of the profile that is launched.
LEMMA OwnBelongs ==
  ASSUME IInv, Belongs, [Next]_vars, NEW v \in Workers, inv'[v].pc \in Owning
  PROVE  runners'[inv'[v].runner].profile = inv'[v].profile
<1> USE RunnerFacts
<1>1. Typed /\ Idle.pc = "idle"
  BY DEF IInv, Idle
<1>2. ASSUME inv[v].pc \in Owning
      PROVE  runners'[inv[v].runner].profile = inv[v].profile
  <2>1. inv[v].profile \in Profiles /\ inv[v].profile # NoPool /\ inv[v].runner \in Runners
    BY <1>1, <1>2, NullAssumption DEF Typed, Shape, Remembers, Owning, Section
  <2>2. QED
    BY <1>1, <1>2, <2>1, RowProfile DEF Belongs
<1>3. inv'[v] # inv[v] => inv'[v].profile = inv[v].profile
  <2>1. ASSUME Turned(v), inv'[v] # Idle PROVE inv'[v].profile = inv[v].profile
    BY <2>1 DEF Turned, Owning, Section
  <2>2. ~Received(v)
    BY DEF Received, Owning
  <2>3. inv'[v] # Idle
    BY <1>1 DEF Owning
  <2>4. QED
    BY <1>1, <2>1, <2>2, <2>3, Turner
<1>4. CASE inv'[v] = inv[v]
  BY <1>2, <1>4
<1>5. ASSUME NEW w \in Workers, RunnerStep(w), inv'[v] # inv[v]
      PROVE  runners'[inv'[v].runner].profile = inv'[v].profile
  <2>1. w = v
    BY <1>5 DEF RunnerStep, SameInvBut
  <2>2. \/ /\ inv'[v].runner = inv[v].runner /\ inv[v].pc \in Owning
        \/ Opens(v) /\ inv'[v].pc = "launch"
    BY <1>5, <2>1 DEF RunnerStep, Elsewhere, Opens, Starts, Names, Drops, Binds, Shares, Frees,
                     Owning, Section
  <2>3. CASE inv'[v].runner = inv[v].runner /\ inv[v].pc \in Owning
    BY <1>2, <1>3, <1>5, <2>3
  <2>4. CASE Opens(v) /\ inv'[v].pc = "launch"
    BY <1>3, <1>5, <2>4, NewRow DEF Opens
  <2>5. QED
    BY <2>2, <2>3, <2>4
<1>6. QED
  BY <1>1, <1>4, <1>5, RunnerSteps

\* A job is given a runner of its own profile.
LEMMA JobBelongs ==
  ASSUME IInv, OneMatch, Belongs, [Next]_vars, NEW j \in Jobs, jobs'[j].runner # NoRunner
  PROVE  runners'[jobs'[j].runner].profile = jobs'[j].profile
<1> USE RunnerFacts
<1>1. /\ Typed /\ Unbound /\ jobs[j] \in JobRow /\ jobs'[j] \in JobRow
  BY TypedStep DEF IInv, JobInv, Typed, TypeOK, TableTypeOK
<1>2. CASE jobs[j].runner # NoRunner
  <2>1. /\ jobs[j].status # "ABSENT" /\ jobs[j].runner \in Runners
        /\ runners[jobs[j].runner].profile = jobs[j].profile /\ jobs[j].profile \in Matching[j]
    BY <1>1, <1>2 DEF Belongs, JobRow
  <2>2. jobs[j].profile # NoPool
    BY <2>1, Matched
  <2>3. jobs'[j].runner = jobs[j].runner /\ jobs'[j].profile = jobs[j].profile
    BY <1>1, <1>2, <2>1, JobKept, JobProfile
  <2>4. QED
    BY <1>1, <2>1, <2>2, <2>3, RowProfile
<1>3. CASE jobs[j].runner = NoRunner
  <2>1. jobs'[j].status = "ALLOCATED" /\ jobs'[j] # jobs[j]
    BY <1>1, <1>3, JobKept DEF JobBecomes, JobRow
  <2>2. PICK w \in Workers : RunnerStep(w)
    BY <1>1, <2>1, RunnerSteps
  <2>3. /\ JobOf(w) = j /\ jobs[j].status \in {"QUEUED", "PROVISIONING"}
        /\ Binds(w) \/ Shares(w)
    BY <1>1, <2>1, <2>2, SeatTaken
  <2>4. \A p \in Matching[j] : p = jobs[j].profile /\ p # NoPool
    BY <2>3, Matched DEF OneMatch, Belongs
  <2>5. inv[w].pc \in {"bind", "allocate"} /\ inv[w].profile = jobs[j].profile
        /\ jobs[j].profile # NoPool
    BY <2>3, <2>4 DEF Belongs, Binds, Shares, Before, Section
  <2>6. jobs'[j].profile = jobs[j].profile
    BY <2>3, JobProfile
  <2>7. CASE Binds(w)
    <3>1. inv[w].runner \in Runners /\ runners[inv[w].runner].profile = jobs[j].profile
      BY <2>5, <2>7 DEF Binds, Belongs, Owning
    <3>2. jobs'[j].runner = inv[w].runner
      BY <1>1, <2>3, <2>7, BoundRow
    <3>3. QED
      BY <1>1, <2>5, <2>6, <3>1, <3>2, RowProfile
  <2>8. CASE Shares(w)
    <3>1. PICK c \in inv[w].cands : c \in Candidate /\ AllocateIdleRunner(c, j)
      BY <2>3, <2>8 DEF Shares
    <3>2. c.runner \in Runners /\ runners[c.runner].profile = jobs[j].profile
      BY <2>5, <2>8, <3>1 DEF Shares, Belongs, Before, Candidate
    <3>3. jobs'[j] = [jobs[j] EXCEPT !.status = "ALLOCATED", !.runner = c.runner,
                                     !.slot = c.slot]
      BY <1>1, <3>1, AllocateEffect
    <3>4. jobs'[j].runner = c.runner
      BY <1>1, <3>3 DEF JobRow
    <3>5. QED
      BY <1>1, <2>5, <2>6, <3>2, <3>4, RowProfile
  <2>9. QED
    BY <2>3, <2>7, <2>8
<1>4. QED
  BY <1>2, <1>3

\* handleCompleted has the runner and the profile from the row of the job.
LEMMA CompletedBelongs ==
  ASSUME IInv, Belongs, [Next]_vars, NEW v \in Workers, inv'[v].pc \in {"complete", "free"},
         inv'[v].runner # NoRunner
  PROVE  runners'[inv'[v].runner].profile = inv'[v].profile
<1>1. Typed /\ inv[v] \in Invocation /\ Idle.pc = "idle"
  BY DEF IInv, Typed, TypeOK, Idle
<1>2. ASSUME inv[v].pc \in {"complete", "free"}, inv[v].runner # NoRunner
      PROVE  runners'[inv[v].runner].profile = inv[v].profile
  <2>1. inv[v].profile # NoPool /\ inv[v].runner \in Runners
    BY <1>1, <1>2, NullAssumption DEF Typed, Shape, Remembers, Invocation
  <2>2. QED
    BY <1>1, <1>2, <2>1, RowProfile DEF Belongs
<1>3. CASE inv'[v] = inv[v]
  BY <1>2, <1>3
<1>4. CASE Turned(v) /\ inv'[v].pc = "complete"
  <2>1. /\ inv'[v].profile = jobs[JobOf(v)].profile /\ inv'[v].runner = jobs[JobOf(v)].runner
        /\ runners' = runners /\ ~At(v, "idle")
    BY <1>1, <1>4 DEF Turned, table
  <2>2. QED
    BY <1>1, <2>1, JobOfType DEF Belongs
<1>5. CASE Turned(v) /\ inv'[v].pc = "free"
  BY <1>1, <1>2, <1>5 DEF Turned
<1>6. ~Received(v)
  BY DEF Received
<1>7. QED
  BY <1>1, <1>3, <1>4, <1>5, <1>6, Turner

LEMMA BelongsStep ==
  ASSUME IInv, OneMatch, Belongs, PoolOfProfile, [Next]_vars
  PROVE  Belongs'
<1>1. ASSUME NEW v \in Workers, inv'[v].pc = "idle" PROVE inv'[v].cands = {}
  <2>1. Received(v) => inv'[v].pc # "idle"
    BY DEF Received
  <2>2. Turned(v) /\ inv'[v] # Idle => inv'[v].pc # "idle"
    BY DEF Turned
  <2>3. Idle.cands = {}
    BY DEF Idle
  <2>4. QED
    BY <1>1, <2>1, <2>2, <2>3, Turner DEF IInv, Belongs, At
<1>2. ASSUME NEW j \in Jobs
      PROVE  /\ jobs'[j].status # "ABSENT" => jobs'[j].profile \in Matching[j]
             /\ jobs'[j].runner # NoRunner => jobs'[j].status # "ABSENT"
  <2>1. jobs'[j].status \in Unstarted => jobs'[j].runner = NoRunner
    BY JobKept DEF IInv, JobInv
  <2>2. QED
    BY <2>1, JobProfile DEF Unstarted
<1>3. QED
  BY <1>1, <1>2, WorkBelongs, OwnBelongs, JobBelongs, CompletedBelongs, RowProfile
  DEF IInv, Belongs, At, JobOf

LEMMA PoolProfileStep ==
  ASSUME Typed, Belongs, PoolOfProfile, NEW w \in Workers, RunnerStep(w)
  PROVE  PoolOfProfile'
<1> USE RunnerFacts
<1>1. CASE Elsewhere(w) \/ Starts(w)
  BY <1>1 DEF Elsewhere, Starts, PoolOfProfile
<1>2. CASE Opens(w)
  BY <1>2, NewRow DEF Opens, SameRunnersBut, PoolOfProfile
<1>3. CASE Names(w)
  BY <1>3 DEF Names, SameRunnersBut, RunnerRow, PoolOfProfile
<1>4. CASE Drops(w)
  <2>1. PICK r \in Runners :
          SameRunnersBut(r) /\ runners'[r] = [runners[r] EXCEPT !.status = "FAILED", !.pool = NoPool]
    BY <1>4 DEF Drops
  <2>2. runners'[r].pool = NoPool
    BY <2>1 DEF RunnerRow
  <2>3. QED
    BY <2>1, <2>2 DEF SameRunnersBut, PoolOfProfile
<1>5. CASE Binds(w)
  <2>1. inv[w].runner \in Runners /\ runners[inv[w].runner].profile = inv[w].profile
    BY <1>5 DEF Binds, Belongs, Owning
  <2>2. QED
    BY <1>5, <2>1, BoundRow DEF SameRunnersBut, PoolOfProfile
<1>6. CASE Shares(w)
  <2>1. PICK c \in Candidate : AllocateIdleRunner(c, JobOf(w)) /\ JobOf(w) \in Jobs
    BY <1>6 DEF Shares
  <2>2. /\ SameRunnersBut(c.runner) /\ SameRunnerStatus
        /\ runners'[c.runner].pool = IF c.last THEN NoPool ELSE runners[c.runner].pool
    BY <2>1, AllocateEffect
  <2>3. QED
    BY <2>2 DEF SameRunnersBut, SameRunnerStatus, PoolOfProfile
<1>7. CASE Frees(w)
  <2>1. PICK r \in Runners, i \in SlotIdx, p \in Profiles :
          r = inv[w].runner /\ i = inv[w].slot /\ p = inv[w].profile
    BY <1>7 DEF Frees
  <2>2. MarkIdle(r, i, p) /\ runners[r].profile = p
    BY <1>7, <2>1 DEF Frees, Belongs
  <2>3. runners' = runners \/ (SameRunnersBut(r) /\ SameRunnerStatus /\ runners'[r].pool = p)
    BY <2>2, MarkIdleEffect
  <2>4. QED
    BY <2>2, <2>3 DEF SameRunnersBut, SameRunnerStatus, PoolOfProfile
<1>8. QED
  BY <1>1, <1>2, <1>3, <1>4, <1>5, <1>6, <1>7 DEF RunnerStep

\* A runner is only ever offered to jobs of the profile it was launched for, although
\* `completed' takes the pool from the row of the job and `queued' from the labels.
THEOREM PoolIsOfProfile == OneMatch /\ Spec => []PoolOfProfile
<1> DEFINE Inv == Belongs /\ PoolOfProfile
<1>1. Init => Inv
  BY BelongsInit
<1>2. ASSUME OneMatch, IInv, Inv, [Next]_vars PROVE Inv'
  <2>1. Belongs'
    BY <1>2, BelongsStep
  <2>2. ASSUME UNCHANGED <<jobs, runners, inv, ec2>> PROVE PoolOfProfile'
    BY <1>2, <2>2 DEF PoolOfProfile
  <2>3. QED
    BY <1>2, <2>1, <2>2, PoolProfileStep, RunnerSteps DEF IInv
<1>3. Inv => PoolOfProfile
  OBVIOUS
<1>4. ASSUME OneMatch
      PROVE  Spec => []PoolOfProfile
  <2>1. IInv /\ Inv /\ [Next]_vars => Inv'
    BY <1>2, <1>4
  <2> HIDE DEF Inv
  <2>2. QED
    BY <1>1, <1>3, <2>1, Inductive, PTL DEF Spec
<1>5. QED
  BY <1>4
=============================================================================
