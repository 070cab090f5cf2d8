---------------------------- MODULE TableProofs ----------------------------
(***************************************************************************)
(* What each write of Table does to the rows, point by point: the lemmas   *)
(* the proofs about the components that use the table rest on.             *)
(***************************************************************************)
EXTENDS Table, TLAPS

LEMMA TableConstants ==
  /\ RunnerCount \in Nat \ {0} /\ MaxProvisionAttempts \in Nat
  /\ 0 \in SlotIdx /\ SlotIdx \subseteq Nat
  /\ NoJob \notin Jobs /\ NoRunner \notin Runners /\ NoPool \notin Profiles
BY RunnerCountAssumption, AttemptsAssumption, NullAssumption, SMT DEF SlotIdx

LEMMA NewRows ==
  ASSUME NEW p \in Profiles \cup {NoPool}
  PROVE  /\ NewQueuedJob(p) \in JobRow /\ NoJobRow \in JobRow
         /\ NewProvisioningRunner(p) \in RunnerRow /\ NoRunnerRow \in RunnerRow
BY TableConstants DEF NoJobRow, NoRunnerRow, JobRow, RunnerRow, NewQueuedJob, UnboundJob,
   NewProvisioningRunner, UnboundRunner, PlaceholderSlot, Slot, JobStatus, RunnerStatus

LEMMA TableInitTypes == ASSUME TableInit PROVE TableTypeOK
<1>1. NoJobRow \in JobRow /\ NoRunnerRow \in RunnerRow
  BY NewRows
<1>2. QED
  BY <1>1 DEF TableInit, TableTypeOK

\* A write changes the row it is made to.
SameJobsBut(j) == \A k \in Jobs \ {j} : jobs'[k] = jobs[k]
SameRunnersBut(r) == \A q \in Runners \ {r} : runners'[q] = runners[q]

LEMMA CreateJobEffect ==
  ASSUME TableTypeOK, NEW j \in Jobs, NEW p \in Profiles, CreateJob(j, p)
  PROVE  /\ TableTypeOK' /\ runners' = runners /\ SameJobsBut(j)
         /\ jobs[j].status = "ABSENT"
         /\ jobs'[j].status = "QUEUED" /\ jobs'[j].runner = NoRunner
         /\ jobs'[j].profile = p
<1>1. NewQueuedJob(p) \in JobRow
  BY NewRows
<1>2. QED
  BY <1>1 DEF TableTypeOK, CreateJob, SameJobsBut, NewQueuedJob, UnboundJob

LEMMA ClaimEffect ==
  ASSUME TableTypeOK, NEW j \in Jobs, ClaimForProvisioning(j)
  PROVE  /\ TableTypeOK' /\ runners' = runners /\ SameJobsBut(j)
         /\ jobs[j].status = "QUEUED"
         /\ jobs'[j] = [jobs[j] EXCEPT !.status = "PROVISIONING"]
BY DEF TableTypeOK, ClaimForProvisioning, SameJobsBut, JobRow, JobStatus

LEMMA CompleteEffect ==
  ASSUME TableTypeOK, NEW j \in Jobs, MarkCompleted(j)
  PROVE  /\ TableTypeOK' /\ runners' = runners /\ SameJobsBut(j)
         /\ jobs'[j] = [jobs[j] EXCEPT !.status = "COMPLETED"]
BY DEF TableTypeOK, MarkCompleted, SameJobsBut, JobRow, JobStatus

LEMMA RevertEffect ==
  ASSUME TableTypeOK, NEW j \in Jobs, NEW n \in Nat, RevertProvisioning(j, n)
  PROVE  /\ TableTypeOK' /\ runners' = runners /\ SameJobsBut(j)
         /\ \/ jobs'[j] = [jobs[j] EXCEPT !.status = "FAILED", !.retry = n + 1]
            \/ /\ jobs[j].status = "PROVISIONING"
               /\ jobs'[j] = [jobs[j] EXCEPT !.status = "QUEUED", !.retry = n + 1]
            \/ jobs' = jobs
<1>1. n + 1 \in Nat
  OBVIOUS
<1>2. CASE jobs' = [jobs EXCEPT ![j].status = "FAILED", ![j].retry = n + 1]
  BY <1>1, <1>2 DEF TableTypeOK, RevertProvisioning, SameJobsBut, JobRow, JobStatus
<1>3. CASE /\ jobs[j].status = "PROVISIONING"
           /\ jobs' = [jobs EXCEPT ![j].status = "QUEUED", ![j].retry = n + 1]
  BY <1>1, <1>3 DEF TableTypeOK, RevertProvisioning, SameJobsBut, JobRow, JobStatus
<1>4. CASE jobs' = jobs
  BY <1>4 DEF TableTypeOK, RevertProvisioning, SameJobsBut
<1>5. QED
  BY <1>2, <1>3, <1>4 DEF RevertProvisioning

LEMMA CreateRowEffect ==
  ASSUME TableTypeOK, NEW r \in Runners, NEW p \in Profiles, CreateProvisioning(r, p)
  PROVE  /\ TableTypeOK' /\ jobs' = jobs /\ SameRunnersBut(r)
         /\ runners[r].status = "ABSENT"
         /\ runners'[r] = NewProvisioningRunner(p)
<1>1. NewProvisioningRunner(p) \in RunnerRow
  BY NewRows
<1>2. QED
  BY <1>1 DEF TableTypeOK, CreateProvisioning, SameRunnersBut

LEMMA SetInstanceEffect ==
  ASSUME TableTypeOK, NEW r \in Runners, SetInstanceID(r)
  PROVE  /\ TableTypeOK' /\ jobs' = jobs /\ SameRunnersBut(r)
         /\ runners'[r] = [runners[r] EXCEPT !.instance = TRUE]
<1> DEFINE row == [runners[r] EXCEPT !.instance = TRUE]
<1>1. runners \in [Runners -> RunnerRow]
  BY DEF TableTypeOK
<1>2. row \in RunnerRow
  BY <1>1 DEF RunnerRow
<1>3. runners' = [runners EXCEPT ![r] = row] /\ jobs' = jobs
  BY DEF SetInstanceID
<1> HIDE DEF row
<1>4. runners' \in [Runners -> RunnerRow] /\ SameRunnersBut(r) /\ runners'[r] = row
  BY <1>1, <1>2, <1>3 DEF SameRunnersBut
<1>5. QED
  BY <1>3, <1>4 DEF TableTypeOK, row

\* A write of a status that takes the row out of the pool.
LEMMA StatusWrite ==
  ASSUME TableTypeOK, NEW r \in Runners, NEW st \in RunnerStatus,
         runners' = [runners EXCEPT ![r].status = st, ![r].pool = NoPool]
  PROVE  /\ runners' \in [Runners -> RunnerRow] /\ SameRunnersBut(r)
         /\ runners'[r] = [runners[r] EXCEPT !.status = st, !.pool = NoPool]
<1> DEFINE row == [runners[r] EXCEPT !.status = st, !.pool = NoPool]
<1>1. runners \in [Runners -> RunnerRow]
  BY DEF TableTypeOK
<1>2. row \in RunnerRow
  BY <1>1 DEF RunnerRow
<1>3. runners' = [runners EXCEPT ![r] = row]
  BY <1>1 DEF RunnerRow
<1> HIDE DEF row
<1>4. runners' \in [Runners -> RunnerRow] /\ SameRunnersBut(r) /\ runners'[r] = row
  BY <1>1, <1>2, <1>3 DEF SameRunnersBut
<1>5. QED
  BY <1>4 DEF row

LEMMA FailedEffect ==
  ASSUME TableTypeOK, NEW r \in Runners, MarkRunnerFailed(r)
  PROVE  /\ TableTypeOK' /\ jobs' = jobs /\ SameRunnersBut(r)
         /\ runners'[r] = [runners[r] EXCEPT !.status = "FAILED", !.pool = NoPool]
<1>1. runners' = [runners EXCEPT ![r].status = "FAILED", ![r].pool = NoPool] /\ jobs' = jobs
  BY DEF MarkRunnerFailed
<1>2. "FAILED" \in RunnerStatus
  BY DEF RunnerStatus
<1>3. QED
  BY <1>1, <1>2, StatusWrite DEF TableTypeOK

\* The row of a runner that was bound to job j.
Bound(r, j, p) ==
  /\ runners[r].status = "PROVISIONING" /\ runners'[r].status = "ACTIVE"
  /\ runners'[r].instance = runners[r].instance /\ runners'[r].profile = runners[r].profile
  /\ runners'[r].pool = IF RunnerCount > 1 THEN p ELSE runners[r].pool
  /\ \A i \in SlotIdx : runners'[r].slots[i].starting
  /\ runners'[r].slots[0].status = "BUSY" /\ runners'[r].slots[0].job = j
  /\ \A i \in SlotIdx \ {0} : /\ runners'[r].slots[i].status = "IDLE"
                              /\ runners'[r].slots[i].job = runners[r].slots[i].job

LEMMA BindEffect ==
  ASSUME TableTypeOK, NEW r \in Runners, NEW j \in Jobs, NEW p \in Profiles,
         BindToJob(r, j, p)
  PROVE  /\ TableTypeOK' /\ SameJobsBut(j) /\ SameRunnersBut(r) /\ Bound(r, j, p)
         /\ jobs[j].status = "PROVISIONING"
         /\ jobs'[j] = [jobs[j] EXCEPT !.status = "ALLOCATED", !.runner = r, !.slot = 0]
<1> DEFINE bound == Promoted(runners[r].slots, j)
           pool == IF RunnerCount > 1 THEN p ELSE runners[r].pool
<1>1. runners[r] \in RunnerRow /\ jobs[j] \in JobRow
  BY DEF TableTypeOK
<1>2. runners[r].slots \in [SlotIdx -> Slot] /\ pool \in Profiles \cup {NoPool}
  BY <1>1 DEF RunnerRow
<1>3. bound \in [SlotIdx -> Slot]
  BY <1>2 DEF Slot, Promoted
<1>4. runners' = [runners EXCEPT ![r].status = "ACTIVE", ![r].pool = pool, ![r].slots = bound]
  BY DEF BindToJob
<1>5. /\ \A i \in SlotIdx : bound[i].starting
      /\ bound[0].status = "BUSY" /\ bound[0].job = j
      /\ \A i \in SlotIdx \ {0} : /\ bound[i].status = "IDLE"
                                  /\ bound[i].job = runners[r].slots[i].job
  BY <1>2, TableConstants DEF Slot, Promoted
<1> HIDE DEF bound, pool
<1>6. /\ runners' \in [Runners -> RunnerRow] /\ SameRunnersBut(r)
      /\ runners'[r].status = "ACTIVE" /\ runners'[r].instance = runners[r].instance
      /\ runners'[r].profile = runners[r].profile
      /\ runners'[r].pool = pool /\ runners'[r].slots = bound
  BY <1>1, <1>2, <1>3, <1>4 DEF TableTypeOK, RunnerRow, RunnerStatus, SameRunnersBut
<1>7. /\ jobs' \in [Jobs -> JobRow] /\ SameJobsBut(j)
      /\ jobs'[j] = [jobs[j] EXCEPT !.status = "ALLOCATED", !.runner = r, !.slot = 0]
  BY <1>1, TableConstants DEF BindToJob, TableTypeOK, JobRow, JobStatus, SameJobsBut
<1>8. QED
  <2>1. runners[r].status = "PROVISIONING" /\ jobs[j].status = "PROVISIONING"
    BY DEF BindToJob, CanBind
  <2>2. runners'[r].pool = IF RunnerCount > 1 THEN p ELSE runners[r].pool
    BY <1>6 DEF pool
  <2>3. QED
    BY <1>5, <1>6, <1>7, <2>1, <2>2 DEF TableTypeOK, Bound

\* AllocateIdleRunner and MarkIdle change one slot, and not whether it has started.
SameSlotsBut(r, i) ==
  \A q \in Runners, k \in SlotIdx :
    <<q, k>> # <<r, i>> => runners'[q].slots[k] = runners[q].slots[k]
SameRunnerStatus ==
  \A r \in Runners : /\ runners'[r].status = runners[r].status
                     /\ runners'[r].profile = runners[r].profile
                     /\ runners'[r].instance = runners[r].instance
SameStarting ==
  \A r \in Runners, i \in SlotIdx :
    runners'[r].slots[i].starting = runners[r].slots[i].starting

LEMMA SlotWrite ==
  ASSUME TableTypeOK, NEW r \in Runners, NEW i \in SlotIdx, NEW st \in {"BUSY", "IDLE"},
         NEW j \in Jobs \cup {NoJob}, NEW p \in Profiles \cup {NoPool},
         WriteSlot(r, i, st, j, p)
  PROVE  /\ runners' \in [Runners -> RunnerRow]
         /\ SameRunnersBut(r) /\ SameSlotsBut(r, i) /\ SameRunnerStatus /\ SameStarting
         /\ runners'[r].slots[i].status = st /\ runners'[r].slots[i].job = j
         /\ runners'[r].pool = p
<1> DEFINE old == runners[r].slots[i]
           slot == [old EXCEPT !.status = st, !.job = j]
           slots == [runners[r].slots EXCEPT ![i] = slot]
           row == [runners[r] EXCEPT !.slots = slots, !.pool = p]
<1>1. runners[r] \in RunnerRow
  BY DEF TableTypeOK
<1>2. runners[r].slots \in [SlotIdx -> Slot]
  BY <1>1 DEF RunnerRow
<1>3. old \in Slot
  BY <1>2
<1> HIDE DEF old
<1>4. slot \in Slot /\ slot.status = st /\ slot.job = j /\ slot.starting = old.starting
  BY <1>3 DEF Slot
\* WriteSlot updates a field at a time, as the code does; so does the proof.
<1>5. runners' = [runners EXCEPT ![r] = row]
  <2> DEFINE marked == [old EXCEPT !.status = st]
             one == [runners EXCEPT ![r].slots[i].status = st]
             two == [one EXCEPT ![r].slots[i].job = j]
             all == [two EXCEPT ![r].pool = p]
  <2>1. /\ one \in [Runners -> {runners[q] : q \in Runners} \cup {one[r]}]
        /\ \A q \in Runners \ {r} : one[q] = runners[q]
    BY DEF TableTypeOK
  <2>2. one[r] = [runners[r] EXCEPT !.slots[i] = marked]
    BY DEF TableTypeOK, old
  <2>3. slot = [marked EXCEPT !.job = j]
    OBVIOUS
  <2>4. runners' = all
    BY DEF WriteSlot
  <2> HIDE DEF marked, slot
  <2>5. one[r].slots = [runners[r].slots EXCEPT ![i] = marked]
    BY <1>1, <2>2 DEF RunnerRow
  <2> HIDE DEF one
  <2>6. two[r] = [one[r] EXCEPT !.slots = [one[r].slots EXCEPT ![i] = slot]]
    BY <1>2, <2>1, <2>3, <2>5
  <2>7. two = [q \in Runners |-> two[q]] /\ \A q \in Runners \ {r} : two[q] = runners[q]
    BY <2>1
  <2>8. two[r] = [runners[r] EXCEPT !.slots = slots]
    BY <1>1, <1>2, <2>2, <2>5, <2>6 DEF RunnerRow
  <2> HIDE DEF two, slots
  <2>9. all[r] = row
    <3>1. all[r] = [two[r] EXCEPT !.pool = p]
      BY <2>7
    <3> HIDE DEF all
    <3>2. QED
      BY <2>8, <3>1
  <2>10. all = [q \in Runners |-> all[q]] /\ \A q \in Runners \ {r} : all[q] = runners[q]
    BY <2>7
  <2> HIDE DEF all, row
  <2>11. QED
    BY <2>4, <2>9, <2>10 DEF TableTypeOK
<1> HIDE DEF slot
<1>6. slots \in [SlotIdx -> Slot] /\ slots[i] = slot
      /\ \A k \in SlotIdx \ {i} : slots[k] = runners[r].slots[k]
  BY <1>2, <1>4
<1> HIDE DEF slots
<1>7. row \in RunnerRow /\ row.status = runners[r].status /\ row.profile = runners[r].profile
      /\ row.instance = runners[r].instance /\ row.pool = p /\ row.slots = slots
  BY <1>1, <1>6 DEF RunnerRow
<1> HIDE DEF row
<1>8. runners' \in [Runners -> RunnerRow] /\ SameRunnersBut(r) /\ runners'[r] = row
  BY <1>5, <1>7 DEF TableTypeOK, SameRunnersBut
<1>9. SameSlotsBut(r, i) /\ SameRunnerStatus
  BY <1>6, <1>7, <1>8 DEF SameSlotsBut, SameRunnerStatus, SameRunnersBut
<1>10. SameStarting
  BY <1>4, <1>6, <1>7, <1>8 DEF SameStarting, SameRunnersBut, old
<1>11. QED
  BY <1>4, <1>6, <1>7, <1>8, <1>9, <1>10

LEMMA AllocateEffect ==
  ASSUME TableTypeOK, NEW c \in Candidate, NEW j \in Jobs, AllocateIdleRunner(c, j)
  PROVE  /\ TableTypeOK' /\ SameJobsBut(j) /\ SameRunnersBut(c.runner)
         /\ SameSlotsBut(c.runner, c.slot) /\ SameRunnerStatus /\ SameStarting
         /\ CanAllocate(c, j)
         /\ jobs'[j] = [jobs[j] EXCEPT !.status = "ALLOCATED",
                                       !.runner = c.runner, !.slot = c.slot]
         /\ runners'[c.runner].slots[c.slot].status = "BUSY"
         /\ runners'[c.runner].slots[c.slot].job = j
         /\ runners'[c.runner].pool = IF c.last THEN NoPool ELSE runners[c.runner].pool
<1>1. c.runner \in Runners /\ c.slot \in SlotIdx
  BY DEF Candidate
<1>2. runners[c.runner].pool \in Profiles \cup {NoPool} /\ jobs[j] \in JobRow
  BY <1>1 DEF TableTypeOK, RunnerRow
<1> DEFINE pool == IF c.last THEN NoPool ELSE runners[c.runner].pool
<1>3. pool \in Profiles \cup {NoPool}
  BY <1>2
<1>4. WriteSlot(c.runner, c.slot, "BUSY", j, pool)
  BY DEF AllocateIdleRunner
<1> HIDE DEF pool
<1>5. /\ runners' \in [Runners -> RunnerRow]
      /\ SameRunnersBut(c.runner) /\ SameSlotsBut(c.runner, c.slot) /\ SameRunnerStatus /\ SameStarting
      /\ runners'[c.runner].slots[c.slot].status = "BUSY"
      /\ runners'[c.runner].slots[c.slot].job = j /\ runners'[c.runner].pool = pool
  BY <1>1, <1>3, <1>4, SlotWrite
<1>6. /\ jobs' \in [Jobs -> JobRow] /\ SameJobsBut(j)
      /\ jobs'[j] = [jobs[j] EXCEPT !.status = "ALLOCATED",
                                    !.runner = c.runner, !.slot = c.slot]
  BY <1>1, <1>2 DEF AllocateIdleRunner, TableTypeOK, JobRow, JobStatus, SameJobsBut
<1>7. CanAllocate(c, j)
  BY DEF AllocateIdleRunner
<1>8. QED
  BY <1>5, <1>6, <1>7 DEF TableTypeOK, pool

LEMMA MarkIdleEffect ==
  ASSUME TableTypeOK, NEW r \in Runners, NEW i \in SlotIdx,
         NEW p \in Profiles \cup {NoPool}, MarkIdle(r, i, p)
  PROVE  /\ TableTypeOK' /\ jobs' = jobs /\ SameRunnersBut(r)
         /\ SameSlotsBut(r, i) /\ SameRunnerStatus /\ SameStarting
         /\ \/ /\ runners[r].status = "ACTIVE" /\ runners[r].slots[i].status = "BUSY"
               /\ runners'[r].slots[i].status = "IDLE" /\ runners'[r].slots[i].job = NoJob
               /\ runners'[r].pool = p
            \/ /\ ~(runners[r].status = "ACTIVE" /\ runners[r].slots[i].status = "BUSY")
               /\ runners' = runners
<1>1. CASE runners[r].status = "ACTIVE" /\ runners[r].slots[i].status = "BUSY"
  <2>1. WriteSlot(r, i, "IDLE", NoJob, p)
    BY <1>1 DEF MarkIdle
  <2>2. /\ runners' \in [Runners -> RunnerRow]
        /\ SameRunnersBut(r) /\ SameSlotsBut(r, i) /\ SameRunnerStatus /\ SameStarting
        /\ runners'[r].slots[i].status = "IDLE" /\ runners'[r].slots[i].job = NoJob
        /\ runners'[r].pool = p
    BY <2>1, SlotWrite
  <2>3. jobs' = jobs
    BY DEF MarkIdle
  <2>4. QED
    BY <1>1, <2>2, <2>3 DEF TableTypeOK
<1>2. CASE ~(runners[r].status = "ACTIVE" /\ runners[r].slots[i].status = "BUSY")
  BY <1>2 DEF MarkIdle, TableTypeOK, SameRunnersBut, SameSlotsBut, SameRunnerStatus,
     SameStarting
<1>3. QED
  BY <1>1, <1>2

LEMMA RevertAllocationEffect ==
  ASSUME TableTypeOK, NEW j \in Jobs, NEW n \in Nat, RevertAllocation(j, n)
  PROVE  /\ TableTypeOK' /\ runners' = runners /\ SameJobsBut(j)
         /\ \/ /\ jobs'[j].status = "FAILED"
               /\ jobs'[j].runner = NoRunner /\ jobs'[j].profile = jobs[j].profile
            \/ /\ jobs[j].status = "ALLOCATED" /\ jobs'[j].status = "QUEUED"
               /\ jobs'[j].runner = NoRunner /\ jobs'[j].profile = jobs[j].profile
            \/ jobs' = jobs
<1> DEFINE row(status) == [jobs[j] EXCEPT !.status = status, !.retry = n + 1,
                                          !.runner = NoRunner, !.slot = 0]
<1>1. jobs[j] \in JobRow /\ n + 1 \in Nat
  BY DEF TableTypeOK
<1>2. \/ jobs' = [jobs EXCEPT ![j] = row("FAILED")]
      \/ jobs[j].status = "ALLOCATED" /\ jobs' = [jobs EXCEPT ![j] = row("QUEUED")]
      \/ jobs' = jobs
  BY <1>1 DEF RevertAllocation, TableTypeOK
<1>3. ASSUME NEW status \in {"FAILED", "QUEUED"}
      PROVE  /\ row(status) \in JobRow /\ row(status).status = status
             /\ row(status).runner = NoRunner /\ row(status).profile = jobs[j].profile
  BY <1>1, TableConstants DEF JobRow, JobStatus
<1> HIDE DEF row
<1>4. runners' = runners
  BY DEF RevertAllocation
<1>5. QED
  BY <1>2, <1>3, <1>4 DEF TableTypeOK, SameJobsBut

LEMMA SlotReadyEffect ==
  ASSUME TableTypeOK, NEW r \in Runners, NEW i \in SlotIdx, MarkSlotReady(r, i)
  PROVE  /\ TableTypeOK' /\ jobs' = jobs /\ SameRunnersBut(r)
         /\ runners'[r] = [runners[r] EXCEPT !.slots = runners'[r].slots]
         /\ \A k \in SlotIdx \ {i} : runners'[r].slots[k] = runners[r].slots[k]
         /\ runners'[r].slots[i] = [runners[r].slots[i] EXCEPT !.starting = FALSE]
<1> DEFINE slot == [runners[r].slots[i] EXCEPT !.starting = FALSE]
           slots == [runners[r].slots EXCEPT ![i] = slot]
<1>1. runners[r] \in RunnerRow
  BY DEF TableTypeOK
<1>2. runners[r].slots \in [SlotIdx -> Slot]
  BY <1>1 DEF RunnerRow
<1>3. runners[r].slots[i] \in Slot
  BY <1>2
<1>4. slot \in Slot
  BY <1>3 DEF Slot
<1>5. runners' = [runners EXCEPT ![r] = [runners[r] EXCEPT !.slots = slots]]
  BY <1>1, <1>2 DEF MarkSlotReady, TableTypeOK, RunnerRow
<1> HIDE DEF slot
<1>6. slots \in [SlotIdx -> Slot] /\ slots[i] = slot
      /\ \A k \in SlotIdx \ {i} : slots[k] = runners[r].slots[k]
  BY <1>2, <1>4
<1> HIDE DEF slots
<1>7. [runners[r] EXCEPT !.slots = slots] \in RunnerRow
  BY <1>1, <1>6 DEF RunnerRow
<1>8. /\ runners' \in [Runners -> RunnerRow] /\ SameRunnersBut(r)
      /\ runners'[r] = [runners[r] EXCEPT !.slots = slots] /\ runners'[r].slots = slots
  BY <1>1, <1>5, <1>7 DEF TableTypeOK, SameRunnersBut, RunnerRow
<1>9. jobs' = jobs
  BY DEF MarkSlotReady
<1>10. QED
  BY <1>6, <1>8, <1>9 DEF TableTypeOK, slot

LEMMA TerminatingEffect ==
  ASSUME TableTypeOK, NEW r \in Runners, NEW observed, TransitionToTerminating(r, observed)
  PROVE  /\ TableTypeOK' /\ jobs' = jobs /\ SameRunnersBut(r)
         /\ CanTerminate(r, observed)
         /\ runners'[r] = [runners[r] EXCEPT !.status = "TERMINATING", !.pool = NoPool]
<1>1. runners' = [runners EXCEPT ![r].status = "TERMINATING", ![r].pool = NoPool]
      /\ jobs' = jobs
  BY DEF TransitionToTerminating
<1>2. "TERMINATING" \in RunnerStatus
  BY DEF RunnerStatus
<1>3. QED
  BY <1>1, <1>2, StatusWrite DEF TableTypeOK, TransitionToTerminating

LEMMA TerminatedEffect ==
  ASSUME TableTypeOK, NEW r \in Runners, NEW slots \in [SlotIdx -> Slot],
         MarkTerminated(r, slots)
  PROVE  /\ TableTypeOK' /\ jobs' = jobs /\ SameRunnersBut(r)
         /\ runners'[r] = [runners[r] EXCEPT !.status = "TERMINATED", !.slots = slots]
<1> DEFINE row == [runners[r] EXCEPT !.status = "TERMINATED", !.slots = slots]
<1>1. row \in RunnerRow
  BY DEF TableTypeOK, RunnerRow, RunnerStatus
<1>2. runners' = [runners EXCEPT ![r] = row] /\ jobs' = jobs
  BY DEF MarkTerminated, TableTypeOK
<1> HIDE DEF row
<1>3. QED
  BY <1>1, <1>2 DEF TableTypeOK, SameRunnersBut, row
=============================================================================
