------------------------------- MODULE Table -------------------------------
(***************************************************************************)
(* The one DynamoDB table of the platform (internal/store): the job rows   *)
(* and the runner rows, and the conditional and transactional writes to    *)
(* them.  Every component reaches the rows through these operations only,  *)
(* so a write and its condition are one atomic action.                     *)
(*                                                                         *)
(* Left out of a row: names, labels, timestamps and TTLs; GSI2, which      *)
(* follows the status, and GSI3, which follows `instance'.                 *)
(***************************************************************************)
EXTENDS Integers, FiniteSets

CONSTANTS
  Jobs,                  \* GitHub workflow_job IDs
  Runners,               \* the runner IDs NewRunnerID can hand out
  Profiles,              \* config.Profiles, one allocation pool each
  RunnerCount,           \* config.Profile.RunnerCount: slots of an instance
  MaxProvisionAttempts,  \* maxProvisionAttempts
  NoJob, NoRunner, NoPool

ASSUME RunnerCountAssumption == RunnerCount \in Nat \ {0}
ASSUME AttemptsAssumption == MaxProvisionAttempts \in Nat \ {0}
ASSUME NullAssumption ==
  NoJob \notin Jobs /\ NoRunner \notin Runners /\ NoPool \notin Profiles

VARIABLES
  jobs,     \* the Job row of each job ID
  runners   \* the Runner row of each runner ID

table == <<jobs, runners>>

SlotIdx == 0 .. RunnerCount - 1

JobStatus == {"QUEUED", "PROVISIONING", "ALLOCATED", "COMPLETED", "FAILED"}
RunnerStatus == {"PROVISIONING", "ACTIVE", "TERMINATING", "TERMINATED", "FAILED"}

\* "ABSENT" stands for an item the table does not hold.
JobRow == [status  : JobStatus \cup {"ABSENT"},
           profile : Profiles \cup {NoPool},
           runner  : Runners \cup {NoRunner},
           slot    : SlotIdx,
           retry   : Nat]

Slot == [status : {"BUSY", "IDLE"}, job : Jobs \cup {NoJob}, starting : BOOLEAN]

RunnerRow == [status   : RunnerStatus \cup {"ABSENT"},
              profile  : Profiles \cup {NoPool},
              instance : BOOLEAN,                    \* instance_id is recorded
              pool     : Profiles \cup {NoPool},     \* gsi1pk
              slots    : [SlotIdx -> Slot]]

UnboundJob(status, p) ==
  [status |-> status, profile |-> p, runner |-> NoRunner, slot |-> 0, retry |-> 0]

NewQueuedJob(p) == UnboundJob("QUEUED", p)

\* A slot before BindToJob: BUSY as a placeholder, so that nothing claims it.
PlaceholderSlot == [status |-> "BUSY", job |-> NoJob, starting |-> FALSE]

UnboundRunner(status, p) ==
  [status |-> status, profile |-> p, instance |-> FALSE, pool |-> NoPool,
   slots |-> [i \in SlotIdx |-> PlaceholderSlot]]

NewProvisioningRunner(p) == UnboundRunner("PROVISIONING", p)

NoJobRow == UnboundJob("ABSENT", NoPool)
NoRunnerRow == UnboundRunner("ABSENT", NoPool)

TableInit ==
  /\ jobs = [j \in Jobs |-> NoJobRow]
  /\ runners = [r \in Runners |-> NoRunnerRow]

TableTypeOK ==
  /\ jobs \in [Jobs -> JobRow]
  /\ runners \in [Runners -> RunnerRow]

-----------------------------------------------------------------------------
(***************************************************************************)
(* Job rows.                                                               *)
(***************************************************************************)

\* The put of CreateJobIfNotExists.
CreateJob(j, p) ==
  /\ jobs[j].status = "ABSENT"
  /\ jobs' = [jobs EXCEPT ![j] = NewQueuedJob(p)]
  /\ UNCHANGED runners

\* Mutant: the claim has no condition.
ClaimAnyway(j) ==
  /\ jobs' = [jobs EXCEPT ![j].status = "PROVISIONING"]
  /\ UNCHANGED runners

\* The provisioning lock: QUEUED -> PROVISIONING.
ClaimForProvisioning(j) ==
  /\ jobs[j].status = "QUEUED"
  /\ jobs' = [jobs EXCEPT ![j].status = "PROVISIONING"]
  /\ UNCHANGED runners

\* Mutant: the claim is given back whatever became of the job.
RevertAnyway(j, retry) ==
  /\ jobs' = [jobs EXCEPT ![j].status = "QUEUED", ![j].retry = retry + 1]
  /\ UNCHANGED runners

\* Mutant: the budget is off by one.
RevertOnceMore(j, retry) ==
  /\ jobs' = [jobs EXCEPT ![j].retry = retry + 1,
                          ![j].status = IF retry + 1 > MaxProvisionAttempts THEN "FAILED"
                                        ELSE IF @ = "PROVISIONING" THEN "QUEUED" ELSE @]
  /\ UNCHANGED runners

\* The caller passes the retry count of the row it once read.  At the end of the
\* budget the write has no condition.
RevertProvisioning(j, retry) ==
  /\ IF retry + 1 >= MaxProvisionAttempts
       THEN jobs' = [jobs EXCEPT ![j].status = "FAILED", ![j].retry = retry + 1]
       ELSE IF jobs[j].status = "PROVISIONING"
              THEN jobs' = [jobs EXCEPT ![j].status = "QUEUED", ![j].retry = retry + 1]
              ELSE UNCHANGED jobs
  /\ UNCHANGED runners

\* For a job whose runner never came up: like RevertProvisioning, but the job also
\* forgets the runner, and the condition is ALLOCATED.
RevertAllocation(j, retry) ==
  /\ LET given(status) == [jobs EXCEPT ![j].status = status, ![j].retry = retry + 1,
                                       ![j].runner = NoRunner, ![j].slot = 0]
     IN jobs' = IF retry + 1 >= MaxProvisionAttempts THEN given("FAILED")
                ELSE IF jobs[j].status = "ALLOCATED" THEN given("QUEUED")
                ELSE jobs
  /\ UNCHANGED runners

\* No condition on the status.
MarkCompleted(j) ==
  /\ jobs' = [jobs EXCEPT ![j].status = "COMPLETED"]
  /\ UNCHANGED runners

-----------------------------------------------------------------------------
(***************************************************************************)
(* Runner rows.                                                            *)
(***************************************************************************)

CreateProvisioning(r, p) ==
  /\ runners[r].status = "ABSENT"
  /\ runners' = [runners EXCEPT ![r] = NewProvisioningRunner(p)]
  /\ UNCHANGED jobs

SetInstanceID(r) ==
  /\ runners' = [runners EXCEPT ![r].instance = TRUE]
  /\ UNCHANGED jobs

\* No condition on the status.
MarkRunnerFailed(r) ==
  /\ runners' = [runners EXCEPT ![r].status = "FAILED", ![r].pool = NoPool]
  /\ UNCHANGED jobs

CanBind(r, j) ==
  runners[r].status = "PROVISIONING" /\ jobs[j].status = "PROVISIONING"

Promoted(slots, j) ==
  [i \in SlotIdx |->
     IF i = 0 THEN [status |-> "BUSY", job |-> j, starting |-> TRUE]
              ELSE [slots[i] EXCEPT !.status = "IDLE", !.starting = TRUE]]

\* Mutant: slot indexes start at 1 in the job row.
BindPastTheEnd(r, j, p) ==
  /\ CanBind(r, j)
  /\ runners' = [runners EXCEPT ![r].status = "ACTIVE", ![r].slots = Promoted(@, j)]
  /\ jobs' = [jobs EXCEPT
       ![j].status = "ALLOCATED", ![j].runner = r, ![j].slot = RunnerCount]

\* One transaction: the runner becomes ACTIVE with slot 0 busy for the job, its
\* other slots go to the pool at once, and the job is ALLOCATED.
BindToJob(r, j, p) ==
  /\ CanBind(r, j)
  /\ runners' = [runners EXCEPT
       ![r].status = "ACTIVE",
       ![r].pool = IF RunnerCount > 1 THEN p ELSE @,
       ![r].slots = Promoted(@, j)]
  /\ jobs' = [jobs EXCEPT ![j].status = "ALLOCATED", ![j].runner = r, ![j].slot = 0]

IdleSlots(row) == {i \in SlotIdx : row.slots[i].status = "IDLE"}

\* What AllocateIdleRunner keeps of a queried item: the first idle slot, and
\* whether it is the only one.  An item with no idle slot is skipped.
Candidate == [runner : Runners, slot : SlotIdx, last : BOOLEAN]

\* Mutant: the query is not confined to the pool of the profile.
CandidatesOfAny(p) ==
  {c \in Candidate :
     LET idle == IdleSlots(runners[c.runner])
     IN runners[c.runner].pool # NoPool /\ c.slot \in idle /\ (c.last <=> idle = {c.slot})}

IdleCandidates(p) ==
  {c \in Candidate :
     LET idle == IdleSlots(runners[c.runner])
     IN /\ runners[c.runner].pool = p
        /\ c.slot \in idle
        /\ \A i \in idle : c.slot <= i
        /\ c.last <=> idle = {c.slot}}

\* AllocateIdleRunner and MarkIdle write one slot, and the pool entry with it.
WriteSlot(r, i, status, job, pool) ==
  runners' = [runners EXCEPT ![r].slots[i].status = status, ![r].slots[i].job = job,
                             ![r].pool = pool]

\* Mutant: the transaction forgets the job's condition.
CanAllocateAnyJob(c, j) ==
  runners[c.runner].status = "ACTIVE" /\ runners[c.runner].slots[c.slot].status = "IDLE"

\* Mutant: the transaction forgets the runner's condition.
CanAllocateAnyRunner(c, j) ==
  runners[c.runner].slots[c.slot].status = "IDLE" /\ jobs[j].status = "QUEUED"

CanAllocate(c, j) ==
  /\ runners[c.runner].status = "ACTIVE"
  /\ runners[c.runner].slots[c.slot].status = "IDLE"
  /\ jobs[j].status = "QUEUED"

\* Mutant: the runner stays in the pool.
AllocateAndKeep(c, j) ==
  /\ CanAllocate(c, j)
  /\ WriteSlot(c.runner, c.slot, "BUSY", j, runners[c.runner].pool)
  /\ jobs' = [jobs EXCEPT
       ![j].status = "ALLOCATED", ![j].runner = c.runner, ![j].slot = c.slot]

\* One transaction.  Whether the pool entry goes is decided by the snapshot.
AllocateIdleRunner(c, j) ==
  /\ CanAllocate(c, j)
  /\ WriteSlot(c.runner, c.slot, "BUSY", j,
               IF c.last THEN NoPool ELSE runners[c.runner].pool)
  /\ jobs' = [jobs EXCEPT
       ![j].status = "ALLOCATED", ![j].runner = c.runner, ![j].slot = c.slot]

\* Mutant: a dying instance is put back in the pool.
MarkIdleAnyRunner(r, i, p) ==
  /\ IF runners[r].slots[i].status = "BUSY"
       THEN WriteSlot(r, i, "IDLE", NoJob, p)
       ELSE UNCHANGED runners
  /\ UNCHANGED jobs

\* The condition does not ask whose job the slot is busy with; a failed
\* condition is swallowed.
MarkIdle(r, i, p) ==
  /\ IF runners[r].status = "ACTIVE" /\ runners[r].slots[i].status = "BUSY"
       THEN WriteSlot(r, i, "IDLE", NoJob, p)
       ELSE UNCHANGED runners
  /\ UNCHANGED jobs

\* The callback of a slot's runner process; a condition that fails is swallowed.
MarkSlotReady(r, i) ==
  /\ runners' = [runners EXCEPT ![r].slots[i].starting = FALSE]
  /\ UNCHANGED jobs

\* Mutant: the slots are not compared.
CanTerminateAnySlots(r, observed) ==
  runners[r].status \in {"PROVISIONING", "ACTIVE"}

\* Mutant: any instance may be terminated, a terminated one too.
CanTerminateAgain(r, observed) ==
  \A slots \in observed : \A i \in SlotIdx :
    runners[r].slots[i].status = slots[i].status

\* `observed' is the caller's snapshot of the slots, whose statuses must still be
\* the same, or {} when the instance has to go whatever its slots do.
CanTerminate(r, observed) ==
  /\ runners[r].status \in {"PROVISIONING", "ACTIVE"}
  /\ \A slots \in observed : \A i \in SlotIdx :
       runners[r].slots[i].status = slots[i].status

TransitionToTerminating(r, observed) ==
  /\ CanTerminate(r, observed)
  /\ runners' = [runners EXCEPT ![r].status = "TERMINATING", ![r].pool = NoPool]
  /\ UNCHANGED jobs

\* No condition on the status; the caller's copy of the slots is written back whole.
MarkTerminated(r, slots) ==
  /\ runners' = [runners EXCEPT ![r].status = "TERMINATED", ![r].slots = slots]
  /\ UNCHANGED jobs
=============================================================================
