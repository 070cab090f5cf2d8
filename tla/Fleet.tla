------------------------------- MODULE Fleet -------------------------------
(***************************************************************************)
(* The whole fleet: the provision Lambda with the cleanup Lambda           *)
(* (cmd/cleanup, internal/cleanup) and the ready Lambda (cmd/ready,        *)
(* internal/ready), over the same table.                                   *)
(*                                                                         *)
(* A sweep takes a snapshot of the table and works through its rows one    *)
(* by one; every task it does concerns a single row and its snapshot.  So  *)
(* a cleanup invocation is modelled as one task: it copies a row, and uses *)
(* the copy however much later.  A second reaper stands for a Spot         *)
(* interruption, a retried invocation, or the later tasks of one sweep.    *)
(*                                                                         *)
(* Time is left out: a task may be taken up as soon as what it waits for   *)
(* is there.  Only what ten minutes rule out is kept: nothing is stale     *)
(* while an invocation of the provision Lambda, which lives one minute,    *)
(* is still at it.                                                         *)
(***************************************************************************)
EXTENDS Provision

CONSTANTS
  Reapers,     \* cleanup tasks at a time
  SweepFaults  \* what may go wrong, see SweepFault

\* abandon: a call of a task fails, or the Lambda dies; spot: EC2 takes an instance back
SweepFault == {"abandon", "spot"}

ASSUME SweepFaultsAssumption == SweepFaults \subseteq SweepFault

VARIABLES
  github,  \* the runner process of each slot, as GitHub knows it
  taken,   \* the jobs GitHub has given to a runner process
  task     \* the tasks of the cleanup Lambda

sweepVars == <<github, taken, task>>
githubVars == <<github, taken>>
fleetVars == <<vars, sweepVars>>
provisionVars == <<queueVars, inv, attempts>>

\* A runner process has not registered yet, is registered, or was removed for good.
Process == {"unborn", "idle", "busy", "gone"}

TaskKinds == {"none", "resume", "expire", "stuck", "staleRow", "staleJob", "untracked",
              "spot"}
TaskSteps == {"none", "fresh", "ask", "transition", "fail", "state", "track",
              "deregister", "terminate", "record", "get", "revert", "revertClaim"}

Task == [kind   : TaskKinds,
         pc     : TaskSteps,
         runner : Runners \cup {NoRunner},
         row    : RunnerRow,         \* the snapshot
         worker : BOOLEAN,           \* the process check found a Runner.Worker
         next   : 0 .. RunnerCount,  \* the next slot to look at
         busy   : BOOLEAN,           \* GitHub called a slot busy
         bound  : SUBSET Jobs,       \* jobs to revert
         job    : Jobs \cup {NoJob},
         retry  : Nat]

NoTask == [kind |-> "none", pc |-> "none", runner |-> NoRunner, row |-> NoRunnerRow,
           worker |-> FALSE, next |-> 0, busy |-> FALSE, bound |-> {}, job |-> NoJob,
           retry |-> 0]

InTurn(c) == task[c].next
Doing(c, step) == task[c].pc = step
Then(c, step) == task' = [task EXCEPT ![c].pc = step]
Done(c) == task' = [task EXCEPT ![c] = NoTask]

FleetInit ==
  /\ Init
  /\ github = [r \in Runners |-> [i \in SlotIdx |-> "unborn"]]
  /\ taken = {}
  /\ task = [c \in Reapers |-> NoTask]

FleetTypeOK ==
  /\ TypeOK
  /\ github \in [Runners -> [SlotIdx -> Process]]
  /\ taken \subseteq Jobs
  /\ task \in [Reapers -> Task]

-----------------------------------------------------------------------------
(***************************************************************************)
(* The instances, GitHub, EC2, and the callback of a slot.                 *)
(***************************************************************************)

Becomes(r, i, from, to) ==
  /\ github[r][i] = from
  /\ github' = [github EXCEPT ![r][i] = to]
  /\ UNCHANGED <<vars, task>>

\* The script of RenderUserData registers the slots in turn, and ends when one fails.
Boot(r, i) ==
  /\ ec2[r]
  /\ \A k \in SlotIdx : k < i => github[r][k] # "unborn"
  /\ Becomes(r, i, "unborn", "idle")
  /\ UNCHANGED taken

\* GitHub gives a job to any runner that has its labels, once.
PickUp(r, i) ==
  /\ ec2[r]
  /\ \E j \in Jobs \ taken :
       /\ [job |-> j, kind |-> "queued"] \in sent
       /\ [job |-> j, kind |-> "completed"] \notin sent
       /\ taken' = taken \cup {j}
  /\ Becomes(r, i, "idle", "busy")

Finish(r, i) == Becomes(r, i, "busy", "idle") /\ UNCHANGED taken

Reclaim(r) ==
  /\ "spot" \in SweepFaults
  /\ ec2[r]
  /\ ec2' = [ec2 EXCEPT ![r] = FALSE]
  /\ UNCHANGED <<table, provisionVars, sweepVars>>

\* The callback of the ready Lambda, at any time after the registration.
Ready(r, i) ==
  /\ github[r][i] # "unborn"
  /\ runners[r].slots[i].starting
  /\ MarkSlotReady(r, i)
  /\ UNCHANGED <<provisionVars, ec2, sweepVars>>

-----------------------------------------------------------------------------
(***************************************************************************)
(* GitHub's answers.                                                       *)
(***************************************************************************)

\* FindRunnerByName and its busy flag; a runner that is not found is not busy.
BusyOnGitHub(r, i) == github[r][i] = "busy"

\* RemoveRunner of a slot that was found: 422 if it has taken a job since, and a runner
\* that is gone already (404) is no error.
RemoveRunner(r, i) == github' = [github EXCEPT ![r][i] = IF @ = "idle" THEN "gone" ELSE @]

-----------------------------------------------------------------------------
(***************************************************************************)
(* What a sweep takes up.                                                  *)
(***************************************************************************)

\* An invocation of the provision Lambda is at work on the runner, or on the job.
Launching(r) == \E w \in Workers : InSection(w) /\ inv[w].runner = r
Claimed(j) == \E w \in Workers : InSection(w) /\ JobOf(w) = j

\* checkRunnerProcesses: an instance may give no answer.
Worker(r) == {FALSE, ec2[r] /\ \E i \in SlotIdx : github[r][i] = "busy"}

Begin(c, t) ==
  /\ Doing(c, "none")
  /\ task' = [task EXCEPT ![c] = t]
  /\ UNCHANGED <<vars, githubVars>>

OnRow(kind, step, r) ==
  [NoTask EXCEPT !.kind = kind, !.pc = step, !.runner = r, !.row = runners[r]]

\* A termination that an earlier sweep began.
Resume(c, r) ==
  /\ runners[r].status = "TERMINATING"
  /\ \E b \in Worker(r) :
       Begin(c, [OnRow("resume", "deregister", r) EXCEPT !.worker = b])

\* Mutant: an instance is not taken up while a slot is BUSY, whatever its age.
ExpireIdle(c, r) ==
  /\ runners[r].status = "ACTIVE"
  /\ IdleSlots(runners[r]) = SlotIdx
  /\ \E b \in Worker(r) : Begin(c, [OnRow("expire", "fresh", r) EXCEPT !.worker = b])

\* eligibleForTermination: every slot idle for too long, or the instance too old.
Expire(c, r) ==
  /\ runners[r].status = "ACTIVE"
  /\ \E b \in Worker(r) : Begin(c, [OnRow("expire", "fresh", r) EXCEPT !.worker = b])

\* stuckStartingJobIDs: the slots of an instance start their clocks together.
Starting(row) == {i \in SlotIdx : row.slots[i].starting}

\* Mutant: the jobs are reverted and the runner is left as it is.
StuckRevertOnly(c, r) ==
  /\ runners[r].status = "ACTIVE"
  /\ Starting(runners[r]) # {}
  /\ LET bound == {runners[r].slots[i].job : i \in Starting(runners[r])} \ {NoJob}
     IN bound # {} /\ Begin(c, [OnRow("stuck", "get", r) EXCEPT !.bound = bound])

Stuck(c, r) ==
  /\ runners[r].status = "ACTIVE"
  /\ Starting(runners[r]) # {}
  /\ Begin(c, [OnRow("stuck", "transition", r) EXCEPT
                 !.bound = {runners[r].slots[i].job : i \in Starting(runners[r])} \ {NoJob}])

StaleRow(c, r) ==
  /\ runners[r].status = "PROVISIONING"
  /\ ~Launching(r)
  /\ Begin(c, OnRow("staleRow", IF runners[r].instance THEN "state" ELSE "fail", r))

StaleJob(c, j) ==
  /\ jobs[j].status = "PROVISIONING"
  /\ ~Claimed(j)
  /\ Begin(c, [NoTask EXCEPT !.kind = "staleJob", !.pc = "revertClaim",
                             !.job = j, !.retry = jobs[j].retry])

\* ListManagedInstances; the row is read later.
Untracked(c, r) ==
  /\ ec2[r]
  /\ ~Launching(r)
  /\ Begin(c, [NoTask EXCEPT !.kind = "untracked", !.pc = "track", !.runner = r])

\* HandleSpotInterruption of an instance whose ID is on record.
Spot(c, r) ==
  /\ "spot" \in SweepFaults
  /\ ec2[r]
  /\ runners[r].instance
  /\ Begin(c, OnRow("spot", "transition", r))

-----------------------------------------------------------------------------
(***************************************************************************)
(* terminateExpiredRunner, up to the transition.                           *)
(***************************************************************************)

\* hasFreshBusySlot reads the jobs of the snapshot's busy slots.  One of them, if
\* still allocated here, may be fresh; in ten minutes it no longer is.
HasBusySlot(c) ==
  \E i \in SlotIdx :
    LET slot == task[c].row.slots[i]
    IN /\ slot.status = "BUSY"
       /\ slot.job # NoJob
       /\ jobs[slot.job].status = "ALLOCATED"
       /\ jobs[slot.job].runner = task[c].runner

Defer(c) ==
  /\ \/ Doing(c, "fresh") /\ (HasBusySlot(c) \/ task[c].worker)
     \/ /\ Doing(c, "ask")
        /\ InTurn(c) \in SlotIdx
        /\ BusyOnGitHub(task[c].runner, InTurn(c))
  /\ Done(c)
  /\ UNCHANGED <<vars, githubVars>>

NotFresh(c) ==
  /\ Doing(c, "fresh")
  /\ ~task[c].worker
  /\ Then(c, "ask")
  /\ UNCHANGED <<vars, githubVars>>

\* GitHub says of each slot in turn whether it is busy.
Ask(c) ==
  /\ Doing(c, "ask")
  /\ \/ /\ InTurn(c) \in SlotIdx
        /\ ~BusyOnGitHub(task[c].runner, InTurn(c))
        /\ task' = [task EXCEPT ![c].next = @ + 1]
     \/ InTurn(c) = RunnerCount /\ Then(c, "transition")
  /\ UNCHANGED <<vars, githubVars>>

-----------------------------------------------------------------------------
(***************************************************************************)
(* terminateRunner and finishTermination.                                  *)
(***************************************************************************)

\* terminateRunner returned, done or not: the jobs of a dead boot are reverted.
Returned(c) ==
  task' = [task EXCEPT ![c] = IF @.bound = {} THEN NoTask ELSE [@ EXCEPT !.pc = "get"]]

Observed(c) == IF task[c].kind = "expire" THEN {task[c].row.slots} ELSE {}

Transition(c) ==
  LET r == task[c].runner
  IN /\ Doing(c, "transition")
     /\ \/ /\ TransitionToTerminating(r, Observed(c))
           /\ task' = [task EXCEPT ![c].pc = "deregister", ![c].next = 0]
        \/ /\ ~CanTerminate(r, Observed(c))
           /\ Returned(c)
           /\ UNCHANGED table
     /\ UNCHANGED <<provisionVars, ec2, githubVars>>

\* Mutant: a busy slot does not hold off what follows.
DeregisterAll(c) ==
  LET r == task[c].runner
      i == InTurn(c)
  IN /\ Doing(c, "deregister")
     /\ \/ /\ i \in SlotIdx
           /\ RemoveRunner(r, i)
           /\ task' = [task EXCEPT ![c].next = i + 1]
        \/ i = RunnerCount /\ Then(c, "terminate") /\ UNCHANGED github
     /\ UNCHANGED <<vars, taken>>

\* Each slot in turn is removed from GitHub, unless it is busy or not there (yet).
Deregister(c) ==
  LET r == task[c].runner
      i == InTurn(c)
  IN /\ Doing(c, "deregister")
     /\ \/ /\ i \in SlotIdx
           /\ RemoveRunner(r, i)
           /\ task' = [task EXCEPT ![c].next = i + 1,
                                   ![c].busy = @ \/ BusyOnGitHub(r, i)]
        \/ /\ i = RunnerCount
           /\ ~task[c].busy /\ ~task[c].worker
           /\ Then(c, "terminate")
           /\ UNCHANGED github
        \/ /\ i = RunnerCount
           /\ task[c].busy \/ task[c].worker
           /\ Returned(c)
           /\ UNCHANGED github
     /\ UNCHANGED <<vars, taken>>

\* Mutant: an error of TerminateInstance is only logged.
TerminateLogged(c) ==
  /\ Doing(c, "terminate")
  /\ \E up \in BOOLEAN : ec2' = [ec2 EXCEPT ![task[c].runner] = @ /\ up]
  /\ IF task[c].kind = "untracked" THEN Done(c) ELSE Then(c, "record")
  /\ UNCHANGED <<table, provisionVars, githubVars>>

Terminate(c) ==
  /\ Doing(c, "terminate")
  /\ ec2' = [ec2 EXCEPT ![task[c].runner] = FALSE]
  /\ IF task[c].kind = "untracked" THEN Done(c) ELSE Then(c, "record")
  /\ UNCHANGED <<table, provisionVars, githubVars>>

Record(c) ==
  /\ Doing(c, "record")
  /\ MarkTerminated(task[c].runner, task[c].row.slots)
  /\ Returned(c)
  /\ UNCHANGED <<provisionVars, ec2, githubVars>>

-----------------------------------------------------------------------------
(***************************************************************************)
(* The other tasks.                                                        *)
(***************************************************************************)

\* reconcileStuckStarting reads a job again ...
ReadJob(c) ==
  /\ Doing(c, "get")
  /\ \E j \in task[c].bound :
       task' = [task EXCEPT ![c].pc = "revert", ![c].job = j, ![c].retry = jobs[j].retry]
  /\ UNCHANGED <<vars, githubVars>>

\* ... and reverts it.
RevertJob(c) ==
  LET j == task[c].job
      bound == task[c].bound \ {j}
  IN /\ Doing(c, "revert")
     /\ RevertAllocation(j, task[c].retry)
     /\ task' = [task EXCEPT ![c] = IF bound = {} THEN NoTask
                                    ELSE [@ EXCEPT !.pc = "get", !.bound = bound]]
     /\ UNCHANGED <<provisionVars, ec2, githubVars>>

\* Mutant: the revert for jobs that were given a runner.
RevertClaimAsAllocation(c) ==
  /\ Doing(c, "revertClaim")
  /\ RevertAllocation(task[c].job, task[c].retry)
  /\ Done(c)
  /\ UNCHANGED <<provisionVars, ec2, githubVars>>

RevertClaim(c) ==
  /\ Doing(c, "revertClaim")
  /\ RevertProvisioning(task[c].job, task[c].retry)
  /\ Done(c)
  /\ UNCHANGED <<provisionVars, ec2, githubVars>>

\* InstanceState of a launch nobody finished.
State(c) ==
  /\ Doing(c, "state")
  /\ Then(c, IF ec2[task[c].runner] THEN "transition" ELSE "fail")
  /\ UNCHANGED <<vars, githubVars>>

Fail(c) ==
  /\ Doing(c, "fail")
  /\ MarkRunnerFailed(task[c].runner)
  /\ Done(c)
  /\ UNCHANGED <<provisionVars, ec2, githubVars>>

\* Mutant: only a launch in progress tracks its instance.
TracksLaunch(row) == row.instance /\ row.status = "PROVISIONING"

\* Mutant: a failed row tracks the instance that bears its ID.
TracksUnlessTerminated(row) == row.status # "TERMINATED"

Tracks(row) ==
  row.instance /\ row.status \in {"PROVISIONING", "ACTIVE", "TERMINATING"}

Track(c) ==
  LET row == runners[task[c].runner]
  IN /\ Doing(c, "track")
     /\ task' = [task EXCEPT ![c] = IF Tracks(row) THEN NoTask
                                    ELSE [@ EXCEPT !.pc = "deregister"]]
     /\ UNCHANGED <<vars, githubVars>>

Quit(c) ==
  /\ "abandon" \in SweepFaults
  /\ ~Doing(c, "none")
  /\ Done(c)
  /\ UNCHANGED <<vars, githubVars>>

-----------------------------------------------------------------------------
TakeUp(c) ==
  \/ \E r \in Runners : \/ Resume(c, r) \/ Expire(c, r) \/ Stuck(c, r) \/ StaleRow(c, r)
                        \/ Untracked(c, r) \/ Spot(c, r)
  \/ \E j \in Jobs : StaleJob(c, j)

Sweep(c) ==
  \/ Defer(c) \/ NotFresh(c) \/ Ask(c)
  \/ Transition(c) \/ Deregister(c) \/ Terminate(c) \/ Record(c)
  \/ ReadJob(c) \/ RevertJob(c) \/ RevertClaim(c) \/ State(c) \/ Fail(c) \/ Track(c)

Outside ==
  \/ \E r \in Runners, i \in SlotIdx : Boot(r, i) \/ PickUp(r, i) \/ Finish(r, i)
                                         \/ Ready(r, i)
  \/ \E r \in Runners : Reclaim(r)

FleetNext ==
  \/ Next /\ UNCHANGED sweepVars
  \/ Outside
  \/ \E c \in Reapers : TakeUp(c) \/ Sweep(c) \/ Quit(c)

FleetSpec == FleetInit /\ [][FleetNext]_fleetVars

(***************************************************************************)
(* The scheduler runs a sweep every three minutes; it goes through all     *)
(* rows, and in time whatever is left alone becomes stale.  GitHub ends a  *)
(* job in the end (timeout-minutes).                                       *)
(***************************************************************************)
FleetFairness ==
  /\ Fairness
  /\ \A c \in Reapers :
       /\ WF_fleetVars(Sweep(c))
       /\ SF_fleetVars(NotFresh(c))
       /\ \A r \in Runners : /\ SF_fleetVars(Resume(c, r) \/ Expire(c, r) \/ StaleRow(c, r))
                             /\ SF_fleetVars(Untracked(c, r))
       /\ \A j \in Jobs : SF_fleetVars(StaleJob(c, j))
  /\ \A r \in Runners, i \in SlotIdx : WF_fleetVars(Finish(r, i))

FleetFairSpec == FleetSpec /\ FleetFairness

-----------------------------------------------------------------------------
(***************************************************************************)
(* Safety.                                                                 *)
(***************************************************************************)

\* A dying or dead instance is never on offer: a `completed' message that is handled
\* late must not put it back in the pool.
PoolActive == \A r \in Runners : runners[r].pool # NoPool => runners[r].status = "ACTIVE"

\* TERMINATED is written last, so an instance that runs always has a row that a later
\* sweep takes up again.
TerminatedIsGone == \A r \in Runners : runners[r].status = "TERMINATED" => ~ec2[r]

\* A slot that was up and running when the sweep read its row: its callback came.
Confirmed(slot) == ~slot.starting /\ slot # PlaceholderSlot

\* No sweep ends the instance under a job GitHub runs on it (terminateExpiredRunner,
\* finishTermination), whatever GitHub assigns while the sweep is at work.
RunningSpared ==
  \A c \in Reapers : Doing(c, "terminate") =>
    \A i \in SlotIdx :
      Confirmed(task[c].row.slots[i]) => github[task[c].runner][i] # "busy"

\* The sweep for lost instances leaves alone what jobs are given: between its look at
\* the row and its call to EC2 the row cannot have become ACTIVE.
UntrackedIsDead ==
  \A c \in Reapers :
    task[c].kind = "untracked" /\ task[c].pc \in {"deregister", "terminate"} =>
      runners[task[c].runner].status # "ACTIVE"

(***************************************************************************)
(* What a step may never do.                                               *)
(***************************************************************************)

\* The sweep c ends the service of an expired runner.
Expires(c) ==
  /\ task[c].kind = "expire" /\ Doing(c, "transition")
  /\ task'[c].pc = "deregister"

BoundTo(r) == {j \in Jobs : jobs[j].status = "ALLOCATED" /\ jobs[j].runner = r}

\* An instance that was idle when the sweep read its row is not taken from a job that
\* was given one of its slots since.
IdleExpiryHarmless ==
  [][\A c \in Reapers :
       Expires(c) /\ IdleSlots(task[c].row) = SlotIdx => BoundTo(task[c].runner) = {}]_fleetVars

\* "so a job that claimed a slot ... makes this a safe no-op instead of tearing the
\* instance down under a freshly allocated job" (runner.go:648-652).
FreshJobKept ==
  [][\A c \in Reapers :
       Expires(c) => \A j \in BoundTo(task[c].runner) :
                       \E i \in SlotIdx : task[c].row.slots[i].job = j]_fleetVars

\* A job is taken from its runner only when the runner is given up too; otherwise its
\* slot would stay BUSY with nobody to free it.
RequeuedFromDead ==
  [][\A j \in Jobs :
       jobs[j].status = "ALLOCATED" /\ jobs'[j].status \in {"QUEUED", "FAILED"} =>
         runners[jobs[j].runner].status # "ACTIVE"]_fleetVars

(***************************************************************************)
(* Liveness.                                                               *)
(***************************************************************************)

\* No instance runs for ever, wherever the invocation that launched it died.
InstanceReaped == \A r \in Runners : ec2[r] ~> ~ec2[r]

\* `completed' can miss the slot it is to free: handleCompleted reads the job before
\* BindToJob and marks it after, or dies before MarkIdle.  The slot of a job that is over
\* is not BUSY for ever all the same (runner.go:224-228): in the end it is freed, or taken
\* back with its instance for its age.
SlotTakenBack ==
  \A j \in Jobs, r \in Runners, i \in SlotIdx :
    Over(j) /\ Holds(r, i, j) ~> ~Holds(r, i, j)

\* A job whose runner never came up is "reverted to QUEUED so it gets a fresh runner
\* instead of waiting forever" (service.go:236-237).
RequeuedServed ==
  \A j \in Jobs :
    jobs[j].status = "QUEUED" ~> jobs[j].status # "QUEUED" \/ j \in taken

-----------------------------------------------------------------------------
(***************************************************************************)
(* The Lambdas implement Life.                                             *)
(***************************************************************************)
LifePhase(row) ==
  CASE row.status = "ABSENT" -> "new"
    [] row.status = "PROVISIONING" -> "launching"
    [] row.status = "ACTIVE" -> "serving"
    [] row.status = "TERMINATING" -> "draining"
    [] row.status \in {"TERMINATED", "FAILED"} -> "dead"

L == INSTANCE Life WITH Instances <- Runners,
                        Reclaimable <- "spot" \in SweepFaults,
                        phase <- [r \in Runners |-> LifePhase(runners[r])],
                        up <- ec2,
                        tenants <- [r \in Runners |-> BoundTo(r)]

\* Whatever invocations and sweeps overlap, fail or die, an instance goes through its
\* life once, is given jobs only while it serves, and is not turned off by us meanwhile.
Lives == L!Spec
=============================================================================
