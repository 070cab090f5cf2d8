---------------------------- MODULE FleetProofs ----------------------------
(***************************************************************************)
(* What is proved of the whole fleet, for every number of invocations and, *)
(* but for the last section, of cleanup tasks at a time, and every         *)
(* combination of faults.                                                  *)
(***************************************************************************)
EXTENDS Fleet, RunnerProofs

\* The steps of a task that concern a runner.
OnRunner == {"fresh", "ask", "transition", "fail", "state", "track", "deregister",
             "terminate", "record"}

\* What a task remembers at each step.
Recalls(t) ==
  /\ t.pc \in OnRunner => t.runner \in Runners
  /\ t.pc \in {"revert", "revertClaim"} => t.job \in Jobs
  /\ t.pc \in {"state", "fail"} => t.kind = "staleRow"
  /\ t.pc = "track" => t.kind = "untracked" /\ t.next = 0
  /\ t.kind = "untracked" => t.pc \in {"track", "deregister", "terminate"}
  /\ t.bound # {} => t.kind = "stuck"

\* Every job that a slot, a snapshot or a task names has a row.
There(j) == j = NoJob \/ jobs[j].status # "ABSENT"
JobsThere ==
  /\ \A r \in Runners, i \in SlotIdx : There(runners[r].slots[i].job)
  /\ \A c \in Reapers :
       /\ \A i \in SlotIdx : There(task[c].row.slots[i].job)
       /\ \A j \in task[c].bound : There(j)
       /\ task[c].pc \in {"revert", "revertClaim"} => There(task[c].job)

FleetTyped ==
  /\ Typed /\ RowsThere
  /\ github \in [Runners -> [SlotIdx -> Process]]
  /\ taken \subseteq Jobs
  /\ task \in [Reapers -> Task]
  /\ \A c \in Reapers : Recalls(task[c])
  /\ JobsThere

SameTaskBut(c) == \A d \in Reapers \ {c} : task'[d] = task[d]

\* A task goes on with what it remembers.
GoesOn(c) ==
  /\ task'[c].kind = task[c].kind /\ task'[c].runner = task[c].runner
  /\ task'[c].row = task[c].row /\ task'[c].bound = task[c].bound

LEMMA FleetFacts ==
  ASSUME FleetTyped
  PROVE  /\ TableTypeOK /\ task \in [Reapers -> Task] /\ inv \in [Workers -> Invocation]
         /\ ec2 \in [Runners -> BOOLEAN]
         /\ \A r \in Runners : runners[r] \in RunnerRow /\ runners[r].slots \in [SlotIdx -> Slot]
         /\ \A j \in Jobs : jobs[j] \in JobRow
         /\ \A c \in Reapers : Recalls(task[c]) /\ task[c].retry \in Nat
BY DEF FleetTyped, Typed, TypeOK, TableTypeOK, RunnerRow, Task

LEMMA NoTaskFacts ==
  /\ NoTask \in Task /\ NoTask.pc = "none" /\ NoTask.kind = "none" /\ NoTask.bound = {}
  /\ NoTask.row = NoRunnerRow /\ NoTask.next = 0 /\ NoTask.job = NoJob
  /\ \A i \in SlotIdx : NoTask.row.slots[i] = PlaceholderSlot
<1>1. NoRunnerRow \in RunnerRow
  BY NewRows
<1>2. 0 \in 0 .. RunnerCount
  BY TableConstants
<1>3. \A i \in SlotIdx : NoRunnerRow.slots[i] = PlaceholderSlot
  BY DEF NoRunnerRow, UnboundRunner
<1> HIDE DEF NoRunnerRow
<1>4. QED
  BY <1>1, <1>2, <1>3 DEF NoTask, Task, TaskKinds, TaskSteps

LEMMA OnRowFacts ==
  ASSUME TableTypeOK, NEW r \in Runners, NEW kind \in TaskKinds, NEW step \in TaskSteps
  PROVE  LET t == OnRow(kind, step, r)
         IN /\ t \in Task /\ t.pc = step /\ t.kind = kind /\ t.runner = r
            /\ t.row = runners[r] /\ t.bound = {} /\ t.next = 0 /\ t.job = NoJob
<1>1. runners[r] \in RunnerRow
  BY DEF TableTypeOK
<1>2. QED
  BY <1>1, NoTaskFacts DEF OnRow, Task

LEMMA TaskSet ==
  ASSUME task \in [Reapers -> Task], NEW c \in Reapers, NEW x \in Task,
         task' = [task EXCEPT ![c] = x]
  PROVE  task' \in [Reapers -> Task] /\ SameTaskBut(c) /\ task'[c] = x
BY DEF SameTaskBut

LEMMA TaskThen ==
  ASSUME task \in [Reapers -> Task], NEW c \in Reapers, NEW s \in TaskSteps, Then(c, s)
  PROVE  /\ task' \in [Reapers -> Task] /\ SameTaskBut(c) /\ GoesOn(c)
         /\ task'[c].pc = s /\ task'[c].next = task[c].next /\ task'[c].busy = task[c].busy
         /\ task'[c].worker = task[c].worker
BY DEF Then, Task, SameTaskBut, GoesOn

LEMMA TaskDone ==
  ASSUME task \in [Reapers -> Task], NEW c \in Reapers, Done(c)
  PROVE  task' \in [Reapers -> Task] /\ SameTaskBut(c) /\ task'[c] = NoTask
BY NoTaskFacts, TaskSet DEF Done

\* terminateRunner returns, and the jobs of a dead boot remain to be reverted.
LEMMA TaskReturned ==
  ASSUME task \in [Reapers -> Task], NEW c \in Reapers, Returned(c)
  PROVE  /\ task' \in [Reapers -> Task] /\ SameTaskBut(c)
         /\ \/ task'[c] = NoTask
            \/ task'[c].pc = "get" /\ GoesOn(c) /\ task[c].bound # {}
<1>1. CASE task[c].bound = {}
  <2>1. Done(c)
    BY <1>1 DEF Returned, Done
  <2>2. QED
    BY <2>1, TaskDone
<1>2. CASE task[c].bound # {}
  <2>1. Then(c, "get") /\ "get" \in TaskSteps
    BY <1>2 DEF Returned, Then, TaskSteps
  <2>2. QED
    BY <1>2, <2>1, TaskThen
<1>3. QED
  BY <1>1, <1>2

\* A job that a slot is given has a row.
LEMMA SlotJobsThere ==
  ASSUME Typed, [Next]_vars, \A r \in Runners, i \in SlotIdx : There(runners[r].slots[i].job),
         \A j \in Jobs : jobs[j].status # "ABSENT" => jobs'[j].status # "ABSENT"
  PROVE  \A r \in Runners, i \in SlotIdx : There(runners[r].slots[i].job)'
<1>1. \A r \in Runners, i \in SlotIdx : runners[r].slots[i].job \in Jobs \cup {NoJob}
  BY DEF Typed, TypeOK, TableTypeOK, RunnerRow, Slot
<1>2. ASSUME NEW r \in Runners, NEW i \in SlotIdx,
             \/ runners'[r].slots[i].job = runners[r].slots[i].job
             \/ runners'[r].slots[i].job = NoJob
             \/ /\ runners'[r].slots[i].job \in Jobs
                /\ jobs'[runners'[r].slots[i].job].status # "ABSENT"
      PROVE  There(runners[r].slots[i].job)'
  BY <1>1, <1>2 DEF There
<1>3. CASE UNCHANGED <<jobs, runners, inv, ec2>>
  BY <1>2, <1>3
<1>4. ASSUME NEW w \in Workers, RunnerStep(w)
      PROVE  \A r \in Runners, i \in SlotIdx : There(runners[r].slots[i].job)'
  <2>1. CASE Elsewhere(w) \/ Starts(w)
    BY <1>2, <2>1 DEF Elsewhere, Starts
  <2>2. CASE Opens(w)
    <3>1. PlaceholderSlot.job = NoJob
      BY DEF PlaceholderSlot
    <3>2. QED
      BY <1>2, <2>2, <3>1, NewRow DEF Opens, SameRunnersBut
  <2>3. CASE Names(w) \/ Drops(w)
    <3>1. PICK q \in Runners :
            /\ SameRunnersBut(q) /\ jobs' = jobs
            /\ \/ runners'[q] = [runners[q] EXCEPT !.instance = TRUE]
               \/ runners'[q] = [runners[q] EXCEPT !.status = "FAILED", !.pool = NoPool]
      BY <2>3, RunnerFacts DEF Names, Drops
    <3>2. runners'[q].slots = runners[q].slots
      BY <3>1, RunnerFacts DEF RunnerRow
    <3>3. QED
      BY <1>2, <3>1, <3>2 DEF SameRunnersBut
  <2>4. CASE Binds(w)
    <3> DEFINE r == inv[w].runner
    <3>1. /\ SameRunnersBut(r) /\ Bound(r, JobOf(w), inv[w].profile)
          /\ jobs'[JobOf(w)].status = "ALLOCATED"
      BY <2>4, BoundRow
    <3>2. r \in Runners /\ JobOf(w) \in Jobs
      BY <2>4 DEF Binds
    <3>3. \A i \in SlotIdx : \/ runners'[r].slots[i].job = runners[r].slots[i].job
                             \/ runners'[r].slots[i].job = JobOf(w)
      BY <3>1 DEF Bound
    <3> HIDE DEF r
    <3>4. QED
      BY <1>2, <3>1, <3>2, <3>3 DEF SameRunnersBut
  <2>5. CASE Shares(w)
    <3>1. PICK c \in Candidate : AllocateIdleRunner(c, JobOf(w)) /\ JobOf(w) \in Jobs
      BY <2>5 DEF Shares
    <3>2. /\ SameSlotsBut(c.runner, c.slot) /\ jobs[JobOf(w)].status = "QUEUED"
          /\ runners'[c.runner].slots[c.slot].job = JobOf(w)
      <4>1. /\ SameSlotsBut(c.runner, c.slot) /\ CanAllocate(c, JobOf(w))
            /\ runners'[c.runner].slots[c.slot].job = JobOf(w)
        BY <3>1, AllocateEffect, RunnerFacts
      <4>2. QED
        BY <4>1 DEF CanAllocate
    <3>3. QED
      BY <1>2, <3>1, <3>2 DEF SameSlotsBut
  <2>6. CASE Frees(w)
    <3>1. /\ SameSlotsBut(inv[w].runner, inv[w].slot)
          /\ \/ runners'[inv[w].runner].slots[inv[w].slot].job = NoJob
             \/ runners' = runners
      BY <2>6, MarkIdleEffect, RunnerFacts DEF Frees
    <3>2. QED
      BY <1>2, <3>1 DEF SameSlotsBut
  <2>7. QED
    BY <1>4, <2>1, <2>2, <2>3, <2>4, <2>5, <2>6 DEF RunnerStep
<1>5. QED
  BY <1>3, <1>4, RunnerSteps

LEMMA NextTyped ==
  ASSUME FleetTyped, [Next]_vars, UNCHANGED sweepVars
  PROVE  FleetTyped'
<1>1. /\ Typed' /\ RowsThere'
      /\ \A j \in Jobs : jobs[j].status # "ABSENT" => jobs'[j].status # "ABSENT"
  BY TypedStep, RowsThereStep DEF FleetTyped
<1>2. JobsThere'
  <2>1. \A r \in Runners, i \in SlotIdx : There(runners[r].slots[i].job)'
    BY <1>1, SlotJobsThere DEF FleetTyped, JobsThere
  <2>2. \A j \in Jobs \cup {NoJob} : There(j) => There(j)'
    BY <1>1 DEF There
  <2>3. \A c \in Reapers : /\ \A i \in SlotIdx : task[c].row.slots[i].job \in Jobs \cup {NoJob}
                           /\ task[c].bound \in SUBSET Jobs
                           /\ task[c].job \in Jobs \cup {NoJob}
    BY DEF FleetTyped, Task, RunnerRow, Slot
  <2>4. QED
    BY <2>1, <2>2, <2>3 DEF FleetTyped, JobsThere, sweepVars
<1>3. QED
  BY <1>1, <1>2 DEF FleetTyped, sweepVars, Recalls

-----------------------------------------------------------------------------
(***************************************************************************)
(* The steps of a task.                                                    *)
(***************************************************************************)

\* What a sweep takes up, and what it has seen.
TakesRow(t) ==
  LET r == t.runner
      row == runners[r]
  IN /\ r \in Runners /\ t.row = row /\ t.next = 0
     /\ t.kind # "stuck" => t.bound = {}
     /\ \/ t.kind = "resume" /\ t.pc = "deregister" /\ row.status = "TERMINATING"
        \/ t.kind = "expire" /\ t.pc = "fresh" /\ row.status = "ACTIVE"
        \/ /\ t.kind = "stuck" /\ t.pc = "transition" /\ row.status = "ACTIVE"
           /\ \A j \in t.bound : j \in Jobs /\ \E i \in SlotIdx : j = row.slots[i].job
        \/ /\ t.kind = "staleRow" /\ row.status = "PROVISIONING" /\ ~Launching(r)
           /\ t.pc = IF row.instance THEN "state" ELSE "fail"
        \/ t.kind = "spot" /\ t.pc = "transition" /\ row.instance /\ ec2[r]
TakesInstance(t) ==
  /\ t.runner \in Runners /\ t.row = NoRunnerRow /\ t.next = 0 /\ t.bound = {}
  /\ t.kind = "untracked" /\ t.pc = "track" /\ ec2[t.runner] /\ ~Launching(t.runner)
TakesJob(t) ==
  /\ t.kind = "staleJob" /\ t.pc = "revertClaim" /\ t.row = NoRunnerRow /\ t.bound = {}
  /\ t.job \in Jobs /\ jobs[t.job].status = "PROVISIONING" /\ ~Claimed(t.job)
Takes(c) ==
  /\ task' \in [Reapers -> Task] /\ SameTaskBut(c) /\ task[c].pc = "none"
  /\ TakesRow(task'[c]) \/ TakesInstance(task'[c]) \/ TakesJob(task'[c])

\* A task that thinks on, or is over.
Thinks(c) ==
  LET t == task[c]
      s == task'[c]
      r == t.runner
  IN /\ UNCHANGED <<vars, githubVars>>
     /\ \/ s = NoTask
        \/ /\ GoesOn(c)
           /\ \/ t.pc = "fresh" /\ s.pc = "ask"
              \/ t.pc = "ask" /\ s.pc \in {"ask", "transition"}
              \/ /\ t.pc = "transition" /\ ~CanTerminate(r, Observed(c))
                 /\ s.pc = "get" /\ t.bound # {}
              \/ t.pc = "deregister" /\ s.pc = "get" /\ t.bound # {}
              \/ t.pc = "get" /\ s.pc = "revert" /\ s.job \in t.bound
              \/ t.pc = "state" /\ s.pc = IF ec2[r] THEN "transition" ELSE "fail"
              \/ /\ t.pc = "track" /\ ~Tracks(runners[r]) /\ s.pc = "deregister"
                 /\ s.next = t.next
              \/ /\ t.pc = "deregister" /\ t.next = RunnerCount /\ ~t.busy
                 /\ s.pc = "terminate"

\* The writes of a task.
Drains(c) ==
  LET t == task[c]
  IN /\ t.pc = "transition" /\ UNCHANGED <<provisionVars, ec2, githubVars>>
     /\ TransitionToTerminating(t.runner, Observed(c))
     /\ GoesOn(c) /\ task'[c].pc = "deregister" /\ task'[c].next = 0
Removes(c) ==
  LET t == task[c]
  IN /\ t.pc = "deregister" /\ UNCHANGED <<vars, taken>>
     /\ t.next \in SlotIdx /\ RemoveRunner(t.runner, t.next)
     /\ GoesOn(c) /\ task'[c].pc = "deregister" /\ task'[c].next = t.next + 1
     /\ task'[c].busy = (t.busy \/ BusyOnGitHub(t.runner, t.next))
Terminates(c) ==
  LET t == task[c]
  IN /\ t.pc = "terminate" /\ UNCHANGED <<table, provisionVars, githubVars>>
     /\ ec2' = [ec2 EXCEPT ![t.runner] = FALSE]
     /\ \/ task'[c] = NoTask
        \/ t.kind # "untracked" /\ GoesOn(c) /\ task'[c].pc = "record"
Records(c) ==
  LET t == task[c]
  IN /\ t.pc = "record" /\ UNCHANGED <<provisionVars, ec2, githubVars>>
     /\ MarkTerminated(t.runner, t.row.slots)
     /\ \/ task'[c] = NoTask
        \/ task'[c].pc = "get" /\ GoesOn(c) /\ t.bound # {}
Reverts(c) ==
  LET t == task[c]
      s == task'[c]
  IN /\ UNCHANGED <<provisionVars, ec2, githubVars>>
     /\ \/ t.pc = "revert" /\ RevertAllocation(t.job, t.retry)
        \/ t.pc = "revertClaim" /\ RevertProvisioning(t.job, t.retry)
     /\ \/ s = NoTask
        \/ /\ t.pc = "revert" /\ s.pc = "get"
           /\ s.kind = t.kind /\ s.runner = t.runner /\ s.row = t.row
           /\ s.bound = t.bound \ {t.job}
Fails(c) ==
  /\ task[c].pc = "fail" /\ UNCHANGED <<provisionVars, ec2, githubVars>>
  /\ MarkRunnerFailed(task[c].runner) /\ task'[c] = NoTask

TaskStep(c) ==
  /\ task' \in [Reapers -> Task] /\ SameTaskBut(c) /\ task[c].pc # "none"
  /\ \/ Thinks(c) \/ Drains(c) \/ Removes(c) \/ Terminates(c) \/ Records(c)
     \/ Reverts(c) \/ Fails(c)

LEMMA TakeUpTakes ==
  ASSUME FleetTyped, NEW c \in Reapers, TakeUp(c)
  PROVE  Takes(c) /\ UNCHANGED <<vars, githubVars>>
<1> USE FleetFacts
<1>1. ASSUME NEW t \in Task, Begin(c, t), TakesRow(t) \/ TakesInstance(t) \/ TakesJob(t)
      PROVE  Takes(c) /\ UNCHANGED <<vars, githubVars>>
  BY <1>1, TaskSet DEF Begin, Doing, Takes
<1>2. ASSUME NEW r \in Runners, Resume(c, r)
      PROVE  Takes(c) /\ UNCHANGED <<vars, githubVars>>
  <2> DEFINE u == OnRow("resume", "deregister", r)
  <2>1. /\ u \in Task /\ u.pc = "deregister" /\ u.kind = "resume" /\ u.runner = r
        /\ u.row = runners[r] /\ u.bound = {} /\ u.next = 0
    BY OnRowFacts DEF TaskKinds, TaskSteps
  <2>2. PICK b \in Worker(r) : Begin(c, [u EXCEPT !.worker = b])
    BY <1>2 DEF Resume
  <2>3. b \in BOOLEAN
    BY DEF Worker
  <2> HIDE DEF u
  <2> DEFINE t == [u EXCEPT !.worker = b]
  <2>4. /\ t \in Task /\ t.pc = "deregister" /\ t.kind = "resume" /\ t.runner = r
        /\ t.row = runners[r] /\ t.bound = {} /\ t.next = 0
    BY <2>1, <2>3 DEF Task
  <2> HIDE DEF t
  <2>5. TakesRow(t)
    BY <1>2, <2>4 DEF Resume, TakesRow
  <2>6. QED
    BY <1>1, <2>2, <2>4, <2>5 DEF t
<1>3. ASSUME NEW r \in Runners, Expire(c, r)
      PROVE  Takes(c) /\ UNCHANGED <<vars, githubVars>>
  <2> DEFINE u == OnRow("expire", "fresh", r)
  <2>1. /\ u \in Task /\ u.pc = "fresh" /\ u.kind = "expire" /\ u.runner = r
        /\ u.row = runners[r] /\ u.bound = {} /\ u.next = 0
    BY OnRowFacts DEF TaskKinds, TaskSteps
  <2>2. PICK b \in Worker(r) : Begin(c, [u EXCEPT !.worker = b])
    BY <1>3 DEF Expire
  <2>3. b \in BOOLEAN
    BY DEF Worker
  <2> HIDE DEF u
  <2> DEFINE t == [u EXCEPT !.worker = b]
  <2>4. /\ t \in Task /\ t.pc = "fresh" /\ t.kind = "expire" /\ t.runner = r
        /\ t.row = runners[r] /\ t.bound = {} /\ t.next = 0
    BY <2>1, <2>3 DEF Task
  <2> HIDE DEF t
  <2>5. TakesRow(t)
    BY <1>3, <2>4 DEF Expire, TakesRow
  <2>6. QED
    BY <1>1, <2>2, <2>4, <2>5 DEF t
<1>4. ASSUME NEW r \in Runners, Stuck(c, r)
      PROVE  Takes(c) /\ UNCHANGED <<vars, githubVars>>
  <2> DEFINE u == OnRow("stuck", "transition", r)
             bound == {runners[r].slots[i].job : i \in Starting(runners[r])} \ {NoJob}
             t == [u EXCEPT !.bound = bound]
  <2>1. /\ u \in Task /\ u.pc = "transition" /\ u.kind = "stuck" /\ u.runner = r
        /\ u.row = runners[r] /\ u.next = 0
    BY OnRowFacts DEF TaskKinds, TaskSteps
  <2>2. \A j \in bound : j \in Jobs /\ \E i \in SlotIdx : j = runners[r].slots[i].job
    BY DEF Starting, Slot
  <2>3. Begin(c, t) /\ runners[r].status = "ACTIVE"
    BY <1>4 DEF Stuck
  <2> HIDE DEF u, bound
  <2>4. /\ t \in Task /\ t.pc = "transition" /\ t.kind = "stuck" /\ t.runner = r
        /\ t.row = runners[r] /\ t.bound = bound /\ t.next = 0
    BY <2>1, <2>2 DEF Task
  <2> HIDE DEF t
  <2>5. TakesRow(t)
    BY <2>2, <2>3, <2>4 DEF TakesRow
  <2>6. QED
    BY <1>1, <2>3, <2>4, <2>5
<1>5. ASSUME NEW r \in Runners, StaleRow(c, r)
      PROVE  Takes(c) /\ UNCHANGED <<vars, githubVars>>
  <2> DEFINE step == IF runners[r].instance THEN "state" ELSE "fail"
             t == OnRow("staleRow", step, r)
  <2>1. /\ t \in Task /\ t.pc = step /\ t.kind = "staleRow" /\ t.runner = r
        /\ t.row = runners[r] /\ t.bound = {} /\ t.next = 0
    BY OnRowFacts DEF TaskKinds, TaskSteps
  <2>2. Begin(c, t) /\ runners[r].status = "PROVISIONING" /\ ~Launching(r)
    BY <1>5 DEF StaleRow
  <2> HIDE DEF t
  <2>3. TakesRow(t)
    BY <2>1, <2>2 DEF TakesRow
  <2>4. QED
    BY <1>1, <2>1, <2>2, <2>3
<1>6. ASSUME NEW r \in Runners, Spot(c, r)
      PROVE  Takes(c) /\ UNCHANGED <<vars, githubVars>>
  <2> DEFINE t == OnRow("spot", "transition", r)
  <2>1. /\ t \in Task /\ t.pc = "transition" /\ t.kind = "spot" /\ t.runner = r
        /\ t.row = runners[r] /\ t.bound = {} /\ t.next = 0
    BY OnRowFacts DEF TaskKinds, TaskSteps
  <2>2. Begin(c, t) /\ ec2[r] /\ runners[r].instance
    BY <1>6 DEF Spot
  <2> HIDE DEF t
  <2>3. TakesRow(t)
    BY <2>1, <2>2 DEF TakesRow
  <2>4. QED
    BY <1>1, <2>1, <2>2, <2>3
<1>7. ASSUME NEW r \in Runners, Untracked(c, r)
      PROVE  Takes(c) /\ UNCHANGED <<vars, githubVars>>
  <2> DEFINE t == [NoTask EXCEPT !.kind = "untracked", !.pc = "track", !.runner = r]
  <2>1. /\ t \in Task /\ t.kind = "untracked" /\ t.pc = "track" /\ t.runner = r
        /\ t.row = NoRunnerRow /\ t.bound = {} /\ t.next = 0
    BY NoTaskFacts DEF Task, TaskKinds, TaskSteps
  <2>2. Begin(c, t) /\ ec2[r] /\ ~Launching(r)
    BY <1>7 DEF Untracked
  <2> HIDE DEF t
  <2>3. TakesInstance(t)
    BY <2>1, <2>2 DEF TakesInstance
  <2>4. QED
    BY <1>1, <2>1, <2>2, <2>3
<1>8. ASSUME NEW j \in Jobs, StaleJob(c, j)
      PROVE  Takes(c) /\ UNCHANGED <<vars, githubVars>>
  <2> DEFINE t == [NoTask EXCEPT !.kind = "staleJob", !.pc = "revertClaim",
                                 !.job = j, !.retry = jobs[j].retry]
  <2>1. jobs[j].retry \in Nat
    BY DEF JobRow
  <2>2. /\ t \in Task /\ t.kind = "staleJob" /\ t.pc = "revertClaim" /\ t.job = j
        /\ t.row = NoRunnerRow /\ t.bound = {}
    BY <2>1, NoTaskFacts DEF Task, TaskKinds, TaskSteps
  <2>3. Begin(c, t) /\ jobs[j].status = "PROVISIONING" /\ ~Claimed(j)
    BY <1>8 DEF StaleJob
  <2> HIDE DEF t
  <2>4. TakesJob(t)
    BY <2>2, <2>3 DEF TakesJob
  <2>5. QED
    BY <1>1, <2>2, <2>3, <2>4
<1>9. QED
  BY <1>2, <1>3, <1>4, <1>5, <1>6, <1>7, <1>8 DEF TakeUp

LEMMA SweepSteps ==
  ASSUME FleetTyped, NEW c \in Reapers, Sweep(c) \/ Quit(c)
  PROVE  TaskStep(c)
<1> USE FleetFacts
<1>0. task[c].pc # "none"
  BY DEF Sweep, Quit, Defer, NotFresh, Ask, Transition, Deregister, Terminate, Record,
         ReadJob, RevertJob, RevertClaim, State, Fail, Track, Doing
<1>1. CASE Defer(c) \/ Quit(c)
  <2>1. Done(c) /\ UNCHANGED <<vars, githubVars>>
    BY <1>1 DEF Defer, Quit
  <2>2. QED
    BY <1>0, <2>1, TaskDone DEF TaskStep, Thinks
<1>2. ASSUME NEW s \in TaskSteps, Then(c, s)
      PROVE  /\ task' \in [Reapers -> Task] /\ SameTaskBut(c) /\ GoesOn(c)
             /\ task'[c].pc = s /\ task'[c].next = task[c].next
  BY <1>2, TaskThen
<1>3. CASE NotFresh(c)
  <2>1. "ask" \in TaskSteps
    BY DEF TaskSteps
  <2>2. QED
    BY <1>0, <1>2, <1>3, <2>1 DEF NotFresh, Doing, TaskStep, Thinks
<1>4. CASE Ask(c)
  <2>1. CASE Then(c, "transition")
    <3>1. "transition" \in TaskSteps
      BY DEF TaskSteps
    <3>2. QED
      BY <1>0, <1>2, <1>4, <2>1, <3>1 DEF Ask, Doing, TaskStep, Thinks
  <2>2. CASE InTurn(c) \in SlotIdx /\ task' = [task EXCEPT ![c].next = @ + 1]
    <3>1. InTurn(c) + 1 \in 0 .. RunnerCount
      BY <2>2, TableConstants DEF SlotIdx
    <3>2. /\ task' \in [Reapers -> Task] /\ SameTaskBut(c) /\ GoesOn(c)
          /\ task'[c].pc = task[c].pc
      BY <2>2, <3>1 DEF InTurn, Task, SameTaskBut, GoesOn
    <3>3. QED
      BY <1>0, <1>4, <3>2 DEF Ask, Doing, TaskStep, Thinks
  <2>3. QED
    BY <1>4, <2>1, <2>2 DEF Ask
<1>5. CASE Transition(c)
  <2>1. CASE /\ TransitionToTerminating(task[c].runner, Observed(c))
             /\ task' = [task EXCEPT ![c].pc = "deregister", ![c].next = 0]
    <3>1. 0 \in 0 .. RunnerCount /\ "deregister" \in TaskSteps
      BY TableConstants DEF TaskSteps
    <3>2. /\ task' \in [Reapers -> Task] /\ SameTaskBut(c) /\ GoesOn(c)
          /\ task'[c].pc = "deregister" /\ task'[c].next = 0
      <4> DEFINE x == [task[c] EXCEPT !.pc = "deregister", !.next = 0]
      <4>1. task' = [task EXCEPT ![c] = x]
        BY <2>1
      <4>2. /\ x \in Task /\ x.pc = "deregister" /\ x.next = 0 /\ x.kind = task[c].kind
            /\ x.runner = task[c].runner /\ x.row = task[c].row /\ x.bound = task[c].bound
        <5>1. task[c] \in Task
          OBVIOUS
        <5>2. x \in Task
          BY <3>1, <5>1 DEF Task
        <5>3. QED
          BY <5>1, <5>2 DEF Task
      <4> HIDE DEF x
      <4>3. QED
        BY <4>1, <4>2, TaskSet DEF GoesOn
    <3>3. QED
      BY <1>0, <1>5, <2>1, <3>2 DEF Transition, Doing, TaskStep, Drains
  <2>2. CASE ~CanTerminate(task[c].runner, Observed(c)) /\ Returned(c) /\ UNCHANGED table
    <3>1. UNCHANGED <<vars, githubVars>>
      BY <1>5, <2>2 DEF Transition, vars, provisionVars, queueVars, table, githubVars
    <3>2. QED
      BY <1>0, <1>5, <2>2, <3>1, TaskReturned DEF Transition, Doing, TaskStep, Thinks
  <2>3. QED
    BY <1>5, <2>1, <2>2 DEF Transition
<1>6. CASE Deregister(c)
  <2> DEFINE i == InTurn(c)
  <2>1. CASE /\ i \in SlotIdx /\ RemoveRunner(task[c].runner, i)
             /\ task' = [task EXCEPT ![c].next = i + 1,
                                     ![c].busy = @ \/ BusyOnGitHub(task[c].runner, i)]
    <3>1. i + 1 \in 0 .. RunnerCount
      BY <2>1, TableConstants DEF SlotIdx
    <3>2. task[c].busy \in BOOLEAN /\ BusyOnGitHub(task[c].runner, i) \in BOOLEAN
      BY DEF Task, BusyOnGitHub
    <3> DEFINE b == task[c].busy \/ BusyOnGitHub(task[c].runner, i)
    <3>3. b \in BOOLEAN /\ task' = [task EXCEPT ![c].next = i + 1, ![c].busy = b]
      BY <2>1, <3>2
    <3> HIDE DEF b, i
    <3>4. /\ task' \in [Reapers -> Task] /\ SameTaskBut(c) /\ GoesOn(c)
          /\ task'[c].pc = task[c].pc /\ task'[c].next = i + 1 /\ task'[c].busy = b
      <4> DEFINE x == [task[c] EXCEPT !.next = i + 1, !.busy = b]
      <4>1. task' = [task EXCEPT ![c] = x]
        BY <3>3
      <4>2. /\ x \in Task /\ x.next = i + 1 /\ x.busy = b /\ x.kind = task[c].kind
            /\ x.pc = task[c].pc
            /\ x.runner = task[c].runner /\ x.row = task[c].row /\ x.bound = task[c].bound
        <5>1. task[c] \in Task
          OBVIOUS
        <5>2. x \in Task
          BY <3>1, <3>3, <5>1 DEF Task
        <5>3. QED
          BY <5>1, <5>2 DEF Task
      <4> HIDE DEF x
      <4>3. QED
        BY <4>1, <4>2, TaskSet DEF GoesOn
    <3>5. QED
      BY <1>0, <1>6, <2>1, <3>4 DEF Deregister, Doing, TaskStep, Removes, InTurn, i, b
  <2>2. CASE i = RunnerCount /\ ~task[c].busy /\ Then(c, "terminate") /\ UNCHANGED github
    <3>1. "terminate" \in TaskSteps
      BY DEF TaskSteps
    <3>2. QED
      BY <1>0, <1>2, <1>6, <2>2, <3>1
      DEF Deregister, Doing, TaskStep, Thinks, InTurn, githubVars
  <2>3. CASE Returned(c) /\ UNCHANGED github
    BY <1>0, <1>6, <2>3, TaskReturned DEF Deregister, Doing, TaskStep, Thinks, githubVars
  <2>4. QED
    BY <1>6, <2>1, <2>2, <2>3 DEF Deregister
<1>7. CASE Terminate(c)
  <2>1. CASE task[c].kind = "untracked" /\ Done(c)
    BY <1>0, <1>7, <2>1, TaskDone DEF Terminate, Doing, TaskStep, Terminates
  <2>2. CASE task[c].kind # "untracked" /\ Then(c, "record")
    <3>1. "record" \in TaskSteps
      BY DEF TaskSteps
    <3>2. QED
      BY <1>0, <1>2, <1>7, <2>2, <3>1 DEF Terminate, Doing, TaskStep, Terminates
  <2>3. QED
    BY <1>7, <2>1, <2>2 DEF Terminate
<1>8. CASE Record(c)
  BY <1>0, <1>8, TaskReturned DEF Record, Doing, TaskStep, Records
<1>9. CASE ReadJob(c)
  <2>1. PICK j \in task[c].bound :
          task' = [task EXCEPT ![c].pc = "revert", ![c].job = j, ![c].retry = jobs[j].retry]
    BY <1>9 DEF ReadJob
  <2>2. j \in Jobs /\ "revert" \in TaskSteps
    BY DEF Task, TaskSteps
  <2>3. jobs[j].retry \in Nat
    BY <2>2 DEF JobRow
  <2>4. /\ task' \in [Reapers -> Task] /\ SameTaskBut(c) /\ GoesOn(c)
        /\ task'[c].pc = "revert" /\ task'[c].job = j
    <3> DEFINE n == jobs[j].retry
               x == [task[c] EXCEPT !.pc = "revert", !.job = j, !.retry = n]
    <3>1. task' = [task EXCEPT ![c] = x]
      BY <2>1
    <3> HIDE DEF n
    <3>2. /\ x \in Task /\ x.pc = "revert" /\ x.job = j /\ x.kind = task[c].kind
          /\ x.runner = task[c].runner /\ x.row = task[c].row /\ x.bound = task[c].bound
      <4>1. task[c] \in Task /\ n \in Nat
        BY <2>3 DEF n
      <4>2. x \in Task
        BY <2>2, <4>1 DEF Task
      <4>3. QED
        BY <4>1, <4>2 DEF Task
    <3> HIDE DEF x
    <3>3. QED
      BY <3>1, <3>2, TaskSet DEF GoesOn
  <2>5. QED
    BY <1>0, <1>9, <2>4 DEF ReadJob, Doing, TaskStep, Thinks
<1>10. CASE RevertJob(c)
  <2> DEFINE bound == task[c].bound \ {task[c].job}
  <2>1. CASE bound = {} /\ Done(c)
    BY <1>0, <1>10, <2>1, TaskDone DEF RevertJob, Doing, TaskStep, Reverts
  <2>2. CASE task' = [task EXCEPT ![c] = [@ EXCEPT !.pc = "get", !.bound = bound]]
    <3>1. bound \in SUBSET Jobs /\ bound = task[c].bound \ {task[c].job} /\ "get" \in TaskSteps
      BY DEF Task, TaskSteps
    <3> HIDE DEF bound
    <3>2. /\ task' \in [Reapers -> Task] /\ SameTaskBut(c)
          /\ task'[c].pc = "get" /\ task'[c].kind = task[c].kind
          /\ task'[c].runner = task[c].runner
          /\ task'[c].row = task[c].row /\ task'[c].bound = bound
      <4> DEFINE x == [task[c] EXCEPT !.pc = "get", !.bound = bound]
      <4>1. task' = [task EXCEPT ![c] = x]
        BY <2>2
      <4>2. /\ x \in Task /\ x.pc = "get" /\ x.kind = task[c].kind
            /\ x.runner = task[c].runner /\ x.row = task[c].row /\ x.bound = bound
        <5>1. task[c] \in Task
          OBVIOUS
        <5>2. x \in Task
          BY <3>1, <5>1 DEF Task
        <5>3. QED
          BY <5>1, <5>2 DEF Task
      <4> HIDE DEF x
      <4>3. QED
        BY <4>1, <4>2, TaskSet
    <3>3. QED
      BY <1>0, <1>10, <3>1, <3>2 DEF RevertJob, Doing, TaskStep, Reverts
  <2>3. QED
    BY <1>10, <2>1, <2>2 DEF RevertJob, Done
<1>11. CASE RevertClaim(c)
  BY <1>0, <1>11, TaskDone DEF RevertClaim, Doing, TaskStep, Reverts
<1>12. CASE State(c)
  <2> DEFINE s == IF ec2[task[c].runner] THEN "transition" ELSE "fail"
  <2>1. s \in TaskSteps /\ Then(c, s)
    BY <1>12 DEF State, TaskSteps
  <2>2. QED
    BY <1>0, <1>2, <1>12, <2>1 DEF State, Doing, TaskStep, Thinks
<1>13. CASE Fail(c)
  BY <1>0, <1>13, TaskDone DEF Fail, Doing, TaskStep, Fails
<1>14. CASE Track(c)
  <2>1. CASE Tracks(runners[task[c].runner]) /\ Done(c)
    BY <1>0, <1>14, <2>1, TaskDone DEF Track, TaskStep, Thinks
  <2>2. CASE ~Tracks(runners[task[c].runner]) /\ Then(c, "deregister")
    <3>1. "deregister" \in TaskSteps
      BY DEF TaskSteps
    <3>2. QED
      BY <1>0, <1>2, <1>14, <2>2, <3>1 DEF Track, Doing, TaskStep, Thinks
  <2>3. QED
    BY <1>14, <2>1, <2>2 DEF Track, Done, Then
<1>15. QED
  BY <1>1, <1>3, <1>4, <1>5, <1>6, <1>7, <1>8, <1>9, <1>10, <1>11, <1>12, <1>13, <1>14
  DEF Sweep

-----------------------------------------------------------------------------
(***************************************************************************)
(* Types.                                                                  *)
(***************************************************************************)

\* The sweep and what is outside leave the invocations and the queue alone.
LEMMA SweepTyped ==
  ASSUME FleetTyped, UNCHANGED provisionVars, TableTypeOK', ec2' \in [Runners -> BOOLEAN],
         \A j \in Jobs : jobs[j].status # "ABSENT" =>
           jobs'[j].status # "ABSENT" /\ jobs'[j].profile \in Profiles,
         \A j \in Jobs : jobs'[j].status # "ABSENT" => jobs[j].status # "ABSENT"
  PROVE  Typed' /\ RowsThere'
<1>1. UNCHANGED <<queue, sent, deliveries, inv, attempts>>
  BY DEF provisionVars, queueVars
<1>2. Typed'
  BY <1>1 DEF FleetTyped, Typed, TypeOK, Shape
<1>3. RowsThere'
  <2>1. \A w \in Workers : inv[w].pc \in Known => JobOf(w) \in Jobs
    BY JobOfType DEF FleetTyped, At, Known, Section
  <2>2. QED
    BY <1>1, <2>1 DEF FleetTyped, RowsThere, JobOf
<1>4. QED
  BY <1>2, <1>3

\* What one task has to show for the types to be kept.
ThereAll(t) ==
  /\ \A i \in SlotIdx : There(t.row.slots[i].job)
  /\ \A j \in t.bound : There(j)
  /\ t.pc \in {"revert", "revertClaim"} => There(t.job)

LEMMA FleetTypedKept ==
  ASSUME FleetTyped, Typed', RowsThere', github' \in [Runners -> [SlotIdx -> Process]],
         taken' \subseteq Jobs, task' \in [Reapers -> Task],
         \A j \in Jobs : jobs[j].status # "ABSENT" => jobs'[j].status # "ABSENT",
         \A r \in Runners, i \in SlotIdx : There(runners'[r].slots[i].job),
         \A c \in Reapers :
           task'[c] = task[c] \/ (Recalls(task'[c]) /\ ThereAll(task'[c]))
  PROVE  FleetTyped'
<1>1. \A j \in Jobs \cup {NoJob} : There(j) => There(j)'
  BY DEF There
<1>2. \A r \in Runners, i \in SlotIdx : runners'[r].slots[i].job \in Jobs \cup {NoJob}
  BY DEF Typed, TypeOK, TableTypeOK, RunnerRow, Slot
<1>3. \A c \in Reapers : /\ \A i \in SlotIdx : task'[c].row.slots[i].job \in Jobs \cup {NoJob}
                         /\ task'[c].bound \in SUBSET Jobs
                         /\ task'[c].job \in Jobs \cup {NoJob}
  BY DEF Task, RunnerRow, Slot
<1>4. \A c \in Reapers : Recalls(task'[c]) /\ ThereAll(task'[c])
  BY DEF FleetTyped, JobsThere, ThereAll
<1>5. JobsThere'
  BY <1>1, <1>2, <1>3, <1>4 DEF JobsThere, ThereAll
<1>6. QED
  BY <1>4, <1>5 DEF FleetTyped, Recalls

LEMMA NoTaskKept == Recalls(NoTask) /\ ThereAll(NoTask)
<1>1. PlaceholderSlot.job = NoJob
  BY DEF PlaceholderSlot
<1>2. QED
  BY <1>1, NoTaskFacts DEF Recalls, ThereAll, There, OnRunner

LEMMA TakesTyped ==
  ASSUME FleetTyped, NEW c \in Reapers, Takes(c), UNCHANGED <<vars, githubVars>>
  PROVE  FleetTyped'
<1> DEFINE t == task'[c]
<1>1. t \in Task /\ (TakesRow(t) \/ TakesInstance(t) \/ TakesJob(t)) /\ SameTaskBut(c)
  BY DEF Takes
<1>2. UNCHANGED <<jobs, runners, inv, ec2, github, taken>>
  BY DEF vars, githubVars
<1>3. Typed' /\ RowsThere'
  BY <1>2 DEF vars, FleetTyped, Typed, TypeOK, TableTypeOK, Shape, RowsThere, JobOf
<1>4. \A r \in Runners, i \in SlotIdx : There(runners[r].slots[i].job)
  BY DEF FleetTyped, JobsThere
<1>5. Recalls(t) /\ ThereAll(t)
  <2> HIDE DEF t
  <2>1. CASE TakesRow(t)
    <3>1. Recalls(t)
      BY <2>1 DEF TakesRow, Recalls
    <3>2. \A i \in SlotIdx : There(t.row.slots[i].job)
      BY <1>4, <2>1 DEF TakesRow
    <3>3. t.pc \notin {"revert", "revertClaim"}
      BY <2>1 DEF TakesRow
    <3>4. \A j \in t.bound : There(j)
      BY <1>4, <2>1 DEF TakesRow
    <3>5. QED
      BY <3>1, <3>2, <3>3, <3>4 DEF ThereAll
  <2>2. CASE TakesInstance(t)
    BY <2>2, NoTaskFacts, NoTaskKept DEF TakesInstance, Recalls, ThereAll
  <2>3. CASE TakesJob(t)
    BY <2>3, NoTaskFacts, NoTaskKept DEF TakesJob, Recalls, ThereAll, There, OnRunner
  <2>4. QED
    BY <1>1, <2>1, <2>2, <2>3
<1>6. task' \in [Reapers -> Task]
  BY DEF Takes
<1>7. QED
  BY <1>1, <1>2, <1>3, <1>4, <1>5, <1>6, FleetTypedKept DEF FleetTyped, SameTaskBut

LEMMA TaskTyped ==
  ASSUME FleetTyped, NEW c \in Reapers, TaskStep(c)
  PROVE  FleetTyped'
<1> DEFINE t == task[c]
           s == task'[c]
<1> USE FleetFacts
<1>1. /\ task' \in [Reapers -> Task] /\ SameTaskBut(c) /\ t.pc # "none"
      /\ t \in Task /\ s \in Task /\ Recalls(t) /\ ThereAll(t)
  BY DEF TaskStep, FleetTyped, JobsThere, ThereAll
<1>2. /\ \A r \in Runners, i \in SlotIdx : There(runners[r].slots[i].job)
      /\ github \in [Runners -> [SlotIdx -> Process]] /\ taken \subseteq Jobs
      /\ \A j \in Jobs : jobs[j].status # "ABSENT" => jobs[j].profile \in Profiles
  BY DEF FleetTyped, JobsThere, Typed, Shape
<1>3. ASSUME Typed', RowsThere', jobs' = jobs, taken' = taken,
             github' \in [Runners -> [SlotIdx -> Process]],
             \A r \in Runners, i \in SlotIdx : There(runners'[r].slots[i].job),
             s = NoTask \/ (Recalls(s) /\ ThereAll(s))
      PROVE  FleetTyped'
  BY <1>1, <1>2, <1>3, NoTaskKept, FleetTypedKept DEF SameTaskBut
\* A task that goes on with its bound jobs to the next of them.
<1>4. ASSUME GoesOn(c), s.pc \in OnRunner \cup {"get", "none"},
             s.pc \in OnRunner => t.pc \in OnRunner,
             s.pc \in {"state", "fail"} => t.kind = "staleRow",
             s.pc # "track", t.kind = "untracked" => s.pc \in {"deregister", "terminate"}
      PROVE  Recalls(s) /\ ThereAll(s)
  BY <1>1, <1>4 DEF GoesOn, Recalls, ThereAll, OnRunner
<1>5. CASE Thinks(c)
  <2>1. UNCHANGED <<jobs, runners, inv, ec2, github, taken>>
    BY <1>5 DEF Thinks, vars, githubVars
  <2>2. Typed' /\ RowsThere'
    BY <1>5, <2>1 DEF Thinks, vars, FleetTyped, Typed, TypeOK, TableTypeOK, Shape, RowsThere, JobOf
  <2>3. s = NoTask \/ (Recalls(s) /\ ThereAll(s))
    <3>1. CASE t.pc = "get" /\ s.pc = "revert" /\ s.job \in t.bound /\ GoesOn(c)
      <4>1. s.job \in Jobs /\ There(s.job)
        BY <1>1, <3>1 DEF ThereAll, Task
      <4>2. QED
        BY <1>1, <3>1, <4>1 DEF GoesOn, Recalls, ThereAll, OnRunner
    <3>2. CASE s.pc = "get" /\ t.bound # {} /\ GoesOn(c)
      BY <1>1, <1>4, <3>2 DEF Recalls, OnRunner
    <3>3. CASE /\ t.pc \in OnRunner /\ s.pc \in OnRunner /\ GoesOn(c)
               /\ s.pc = "fail" => t.pc = "state"
               /\ s.pc \notin {"state", "track"}
               /\ s.pc \in {"deregister", "terminate"} \/ t.pc \notin {"track", "deregister", "terminate"}
      BY <1>1, <1>4, <3>3 DEF Recalls
    <3>4. QED
      BY <1>5, <3>1, <3>2, <3>3 DEF Thinks, OnRunner
  <2>4. QED
    BY <1>2, <1>3, <2>1, <2>2, <2>3
<1>6. CASE Drains(c)
  <2>1. t.runner \in Runners
    BY <1>1, <1>6 DEF Drains, Recalls, OnRunner
  <2>2. /\ TableTypeOK' /\ jobs' = jobs /\ SameRunnersBut(t.runner)
        /\ runners'[t.runner] = [runners[t.runner] EXCEPT !.status = "TERMINATING", !.pool = NoPool]
    BY <1>6, <2>1, TerminatingEffect DEF Drains
  <2>3. \A r \in Runners : runners'[r].slots = runners[r].slots
    <3>1. runners[t.runner] \in RunnerRow
      BY <2>1, FleetFacts DEF TableTypeOK
    <3>2. runners'[t.runner].slots = runners[t.runner].slots
      BY <2>2, <3>1 DEF RunnerRow
    <3>3. QED
      BY <2>2, <3>2 DEF SameRunnersBut
  <2>4. Recalls(s) /\ ThereAll(s)
    BY <1>1, <1>4, <1>6 DEF Drains, OnRunner, Recalls
  <2>5. Typed' /\ RowsThere'
    BY <1>2, <1>6, <2>2, SweepTyped DEF Drains
  <2>6. QED
    BY <1>2, <1>3, <1>6, <2>2, <2>3, <2>4, <2>5 DEF Drains, githubVars
<1>7. CASE Removes(c)
  <2>1. UNCHANGED <<jobs, runners, inv, ec2, taken>>
    BY <1>7 DEF Removes, vars
  <2>2. Typed' /\ RowsThere'
    BY <1>7, <2>1 DEF Removes, vars, FleetTyped, Typed, TypeOK, TableTypeOK, Shape, RowsThere, JobOf
  <2>3. github' \in [Runners -> [SlotIdx -> Process]]
    BY <1>2, <1>7 DEF Removes, RemoveRunner, Process
  <2>4. Recalls(s) /\ ThereAll(s)
    BY <1>1, <1>4, <1>7 DEF Removes, OnRunner, Recalls
  <2>5. QED
    BY <1>2, <1>3, <2>1, <2>2, <2>3, <2>4
<1>8. CASE Terminates(c)
  <2>1. ec2' \in [Runners -> BOOLEAN] /\ jobs' = jobs /\ runners' = runners /\ TableTypeOK'
    BY <1>8 DEF Terminates, table, TableTypeOK
  <2>2. Typed' /\ RowsThere'
    BY <1>2, <1>8, <2>1, SweepTyped DEF Terminates
  <2>3. s = NoTask \/ (Recalls(s) /\ ThereAll(s))
    BY <1>1, <1>4, <1>8 DEF Terminates, OnRunner
  <2>4. QED
    BY <1>2, <1>3, <1>8, <2>1, <2>2, <2>3 DEF Terminates, githubVars
<1>9. CASE Records(c)
  <2>1. t.runner \in Runners /\ t.row.slots \in [SlotIdx -> Slot]
    BY <1>1, <1>9 DEF Records, Recalls, OnRunner, Task, RunnerRow
  <2>2. /\ TableTypeOK' /\ jobs' = jobs /\ SameRunnersBut(t.runner)
        /\ runners'[t.runner] = [runners[t.runner] EXCEPT !.status = "TERMINATED",
                                                          !.slots = t.row.slots]
    BY <1>9, <2>1, TerminatedEffect DEF Records
  <2>3. runners'[t.runner].slots = t.row.slots
    BY <2>1, <2>2 DEF RunnerRow
  <2>4. \A r \in Runners, i \in SlotIdx : There(runners'[r].slots[i].job)
    BY <1>1, <1>2, <2>2, <2>3 DEF SameRunnersBut, ThereAll
  <2>5. s = NoTask \/ (Recalls(s) /\ ThereAll(s))
    BY <1>1, <1>4, <1>9 DEF Records, Recalls, OnRunner
  <2>6. Typed' /\ RowsThere'
    BY <1>2, <1>9, <2>2, SweepTyped DEF Records
  <2>7. QED
    BY <1>2, <1>3, <1>9, <2>2, <2>4, <2>5, <2>6 DEF Records, githubVars
<1>10. CASE Reverts(c)
  <2>1. t.job \in Jobs /\ jobs[t.job].status # "ABSENT" /\ t.retry \in Nat
    BY <1>1, <1>10, NullAssumption DEF Reverts, Recalls, ThereAll, There
  <2>2. /\ TableTypeOK' /\ runners' = runners /\ SameJobsBut(t.job)
        /\ jobs'[t.job].status # "ABSENT" /\ jobs'[t.job].profile = jobs[t.job].profile
    <3>1. CASE RevertAllocation(t.job, t.retry)
      BY <2>1, <3>1, RevertAllocationEffect
    <3>2. CASE RevertProvisioning(t.job, t.retry)
      <4> DEFINE j == t.job
                 n == t.retry
      <4>1. /\ TableTypeOK' /\ runners' = runners /\ SameJobsBut(j)
            /\ \/ jobs'[j] = [jobs[j] EXCEPT !.status = "FAILED", !.retry = n + 1]
               \/ jobs'[j] = [jobs[j] EXCEPT !.status = "QUEUED", !.retry = n + 1]
               \/ jobs' = jobs
        BY <2>1, <3>2, RevertEffect
      <4>2. jobs[j] \in JobRow /\ jobs[j].status # "ABSENT"
        BY <2>1
      <4> HIDE DEF n, j
      <4>3. jobs'[j].status # "ABSENT" /\ jobs'[j].profile = jobs[j].profile
        BY <4>1, <4>2 DEF JobRow
      <4>4. QED
        BY <4>1, <4>3 DEF j
    <3>3. QED
      BY <1>10, <3>1, <3>2 DEF Reverts
  <2>3. \A j \in Jobs : /\ jobs'[j].status # "ABSENT" <=> jobs[j].status # "ABSENT"
                        /\ jobs'[j].profile = jobs[j].profile
    BY <2>1, <2>2 DEF SameJobsBut
  <2>4. Typed' /\ RowsThere'
    BY <1>2, <1>10, <2>2, <2>3, SweepTyped DEF Reverts, FleetTyped, Typed, TypeOK
  <2>5. s = NoTask \/ (Recalls(s) /\ ThereAll(s))
    BY <1>1, <1>10 DEF Reverts, Recalls, ThereAll, OnRunner
  <2>6. UNCHANGED <<github, taken>>
    BY <1>10 DEF Reverts, githubVars
  <2>7. \A d \in Reapers : task'[d] = task[d] \/ (Recalls(task'[d]) /\ ThereAll(task'[d]))
    BY <1>1, <2>5, NoTaskKept DEF SameTaskBut
  <2>8. QED
    BY <1>1, <1>2, <2>2, <2>3, <2>4, <2>6, <2>7, FleetTypedKept
<1>11. CASE Fails(c)
  <2>1. t.runner \in Runners
    BY <1>1, <1>11 DEF Fails, Recalls, OnRunner
  <2>2. /\ TableTypeOK' /\ jobs' = jobs /\ SameRunnersBut(t.runner)
        /\ runners'[t.runner] = [runners[t.runner] EXCEPT !.status = "FAILED", !.pool = NoPool]
    BY <1>11, <2>1, FailedEffect DEF Fails
  <2>3. \A r \in Runners : runners'[r].slots = runners[r].slots
    <3>1. runners[t.runner] \in RunnerRow
      BY <2>1, FleetFacts DEF TableTypeOK
    <3>2. runners'[t.runner].slots = runners[t.runner].slots
      BY <2>2, <3>1 DEF RunnerRow
    <3>3. QED
      BY <2>2, <3>2 DEF SameRunnersBut
  <2>4. Typed' /\ RowsThere'
    BY <1>2, <1>11, <2>2, SweepTyped DEF Fails
  <2>5. QED
    BY <1>2, <1>3, <1>11, <2>2, <2>3, <2>4 DEF Fails, githubVars
<1>12. QED
  BY <1>5, <1>6, <1>7, <1>8, <1>9, <1>10, <1>11 DEF TaskStep

\* What is outside the Lambdas changes no job, and leaves every task as it is.
LEMMA OutsideTyped ==
  ASSUME FleetTyped, Outside
  PROVE  FleetTyped' /\ jobs' = jobs /\ task' = task
<1> USE FleetFacts
<1>1. /\ github \in [Runners -> [SlotIdx -> Process]] /\ taken \subseteq Jobs
      /\ \A r \in Runners, i \in SlotIdx : There(runners[r].slots[i].job)
      /\ \A j \in Jobs : jobs[j].status # "ABSENT" => jobs[j].profile \in Profiles
  BY DEF FleetTyped, JobsThere, Typed, Shape
<1>2. ASSUME NEW r \in Runners, NEW i \in SlotIdx, Boot(r, i) \/ PickUp(r, i) \/ Finish(r, i)
      PROVE  FleetTyped' /\ jobs' = jobs /\ task' = task
  <2>1. /\ UNCHANGED <<vars, task>> /\ taken' \subseteq Jobs
        /\ \E to \in Process : github' = [github EXCEPT ![r][i] = to]
    BY <1>1, <1>2 DEF Boot, PickUp, Finish, Becomes, Process
  <2>2. UNCHANGED <<jobs, runners, inv, ec2>>
    BY <2>1 DEF vars
  <2>3. Typed' /\ RowsThere'
    BY <2>1, <2>2 DEF vars, FleetTyped, Typed, TypeOK, TableTypeOK, Shape, RowsThere, JobOf
  <2>4. github' \in [Runners -> [SlotIdx -> Process]]
    BY <1>1, <2>1
  <2>5. QED
    BY <1>1, <2>1, <2>2, <2>3, <2>4, FleetTypedKept
<1>3. ASSUME NEW r \in Runners, NEW i \in SlotIdx, Ready(r, i)
      PROVE  FleetTyped' /\ jobs' = jobs /\ task' = task
  <2>1. /\ TableTypeOK' /\ jobs' = jobs /\ SameRunnersBut(r)
        /\ \A k \in SlotIdx \ {i} : runners'[r].slots[k] = runners[r].slots[k]
        /\ runners'[r].slots[i] = [runners[r].slots[i] EXCEPT !.starting = FALSE]
    BY <1>3, SlotReadyEffect DEF Ready
  <2>2. runners'[r].slots[i].job = runners[r].slots[i].job
    BY <2>1 DEF Slot
  <2>3. \A q \in Runners, k \in SlotIdx : There(runners'[q].slots[k].job)
    BY <1>1, <2>1, <2>2 DEF SameRunnersBut
  <2>4. Typed' /\ RowsThere' /\ UNCHANGED sweepVars
    BY <1>1, <1>3, <2>1, SweepTyped DEF Ready
  <2>5. QED
    BY <1>1, <2>1, <2>3, <2>4, FleetTypedKept DEF sweepVars
<1>4. ASSUME NEW r \in Runners, Reclaim(r)
      PROVE  FleetTyped' /\ jobs' = jobs /\ task' = task
  <2>1. /\ jobs' = jobs /\ runners' = runners /\ UNCHANGED sweepVars
        /\ ec2' \in [Runners -> BOOLEAN] /\ TableTypeOK'
    BY <1>4 DEF Reclaim, table, TableTypeOK
  <2>2. Typed' /\ RowsThere'
    BY <1>1, <1>4, <2>1, SweepTyped DEF Reclaim
  <2>3. QED
    BY <1>1, <2>1, <2>2, FleetTypedKept DEF sweepVars
<1>5. QED
  BY <1>2, <1>3, <1>4 DEF Outside

LEMMA FleetTypedInit == FleetInit => FleetTyped
<1>1. ASSUME FleetInit PROVE FleetTyped
  <2>1. /\ Typed /\ \A w \in Workers : inv[w] = Idle
        /\ \A r \in Runners : runners[r] = NoRunnerRow
        /\ github \in [Runners -> [SlotIdx -> Process]] /\ taken \subseteq Jobs
        /\ \A c \in Reapers : task[c] = NoTask
    BY <1>1, TypedInit DEF FleetInit, Init, TableInit, Process
  <2>2. RowsThere
    BY <2>1 DEF RowsThere, Idle, Known, Section
  <2>3. \A i \in SlotIdx : There(NoRunnerRow.slots[i].job)
    BY NoTaskFacts, NoTaskKept DEF ThereAll
  <2>4. task \in [Reapers -> Task]
    BY <1>1, NoTaskFacts DEF FleetInit
  <2>5. QED
    BY <2>1, <2>2, <2>3, <2>4, NoTaskKept DEF FleetTyped, JobsThere, ThereAll
<1>2. QED
  BY <1>1

\* A step of the fleet: an invocation, what is outside, or one task.
LEMMA FleetSteps ==
  ASSUME FleetTyped, [FleetNext]_fleetVars
  PROVE  \/ [Next]_vars /\ UNCHANGED sweepVars
         \/ Outside
         \/ \E c \in Reapers : Takes(c) /\ UNCHANGED <<vars, githubVars>>
         \/ \E c \in Reapers : TaskStep(c)
BY TakeUpTakes, SweepSteps DEF FleetNext, fleetVars

LEMMA FleetTypedStep == FleetTyped /\ [FleetNext]_fleetVars => FleetTyped'
BY FleetSteps, NextTyped, OutsideTyped, TakesTyped, TaskTyped

\* Whatever runs at the same time and whatever fails, every variable and every row, and
\* what every invocation and every cleanup task remembers, stays what it is declared to be.
THEOREM FleetTypeCorrect == FleetSpec => []FleetTypeOK
<1>1. FleetTyped => FleetTypeOK
  BY DEF FleetTyped, FleetTypeOK, Typed
<1>2. QED
  BY <1>1, FleetTypedInit, FleetTypedStep, PTL DEF FleetSpec

-----------------------------------------------------------------------------
(***************************************************************************)
(* What a row goes through.                                                *)
(***************************************************************************)

Dying == {"TERMINATING", "TERMINATED", "FAILED"}

\* What a task may rely on, from the look it took at its row to its last call.
Fits(t) ==
  LET r == t.runner
  IN /\ runners[r].status # "ABSENT"
     /\ t.kind \in {"untracked", "staleRow"} => ~Launching(r)
     /\ t.kind = "staleRow" => runners[r].status # "ACTIVE"
     /\ t.pc \in {"fresh", "ask", "transition", "state"} => runners[r].instance
     /\ t.pc = "fail" => ~(runners[r].instance /\ ec2[r])
     /\ t.pc \in {"deregister", "terminate", "record"} =>
          IF t.kind = "untracked" THEN runners[r].status # "ACTIVE"
                                  ELSE runners[r].status \in Dying
     /\ t.pc = "record" => ~ec2[r]
TasksFit == \A c \in Reapers : task[c].pc \in OnRunner => Fits(task[c])

RowInv ==
  /\ PoolActive
  /\ TerminatedIsGone
  /\ \A r \in Runners : runners[r].status = "TERMINATING" => runners[r].instance

Powered == "spot" \in SweepFaults \/ StaysUp

\* A job has a slot only of a runner that opened.
Tenanted ==
  \A j \in Jobs : jobs[j].status = "ALLOCATED" /\ jobs[j].runner \in Runners =>
    runners[jobs[j].runner].status \notin {"ABSENT", "PROVISIONING"}

LifeInv == LaunchInv /\ Powered /\ RowInv /\ Tenanted
FleetInv == FleetTyped /\ LifeInv /\ TasksFit

\* What an invocation may do to a row.
ProvidedRow(r) ==
  LET old == runners[r]
      new == runners'[r]
  IN /\ old.status # "ABSENT" => new.status # "ABSENT"
     /\ old.status \in Dying \cup {"ACTIVE"} => new.status = old.status
     /\ new.status \in {old.status, "PROVISIONING", "ACTIVE", "FAILED"}
     /\ old.status # "ABSENT" /\ old.instance => new.instance
     /\ old.status # "ABSENT" /\ ~Launching(r) =>
          /\ ~Launching(r)'
          /\ new.status = old.status /\ new.instance = old.instance
     /\ ec2'[r] # ec2[r] => /\ Launching(r)
                            /\ old.status = "PROVISIONING" /\ new.status = "PROVISIONING"
     /\ new.pool # NoPool => old.pool # NoPool \/ new.status = "ACTIVE"

LEMMA ProvidedRows ==
  ASSUME Typed, LaunchInv, PoolActive, NEW w \in Workers, RunnerStep(w), NEW r \in Runners
  PROVE  ProvidedRow(r)
<1> USE RunnerFacts DEF LaunchInv
<1>1. runners[r].status # "ABSENT" => runners'[r].status # "ABSENT"
  BY RowsStay
<1>2. ASSUME runners[r].status # "ABSENT", ~Launching(r) PROVE ~Launching(r)'
  <2>1. ASSUME NEW v \in Workers, InSection(v)', inv'[v].runner = r PROVE FALSE
    <3>1. v # w => inv'[v] = inv[v]
      BY DEF RunnerStep, SameInvBut
    <3>2. QED
      BY <1>2, <2>1, <3>1, RunnerTaken DEF Launching, InSection
  <2>2. QED
    BY <2>1 DEF Launching
<1>3. ASSUME inv[w].pc \in Section, inv[w].runner = r PROVE Launching(r)
  BY <1>3 DEF Launching, InSection
<1> DEFINE Rest ==
      /\ runners[r].status \in Dying \cup {"ACTIVE"} => runners'[r].status = runners[r].status
      /\ runners'[r].status \in {runners[r].status, "PROVISIONING", "ACTIVE", "FAILED"}
      /\ runners[r].status # "ABSENT" /\ runners[r].instance => runners'[r].instance
      /\ runners[r].status # "ABSENT" /\ ~Launching(r) =>
           /\ runners'[r].status = runners[r].status
           /\ runners'[r].instance = runners[r].instance
      /\ ec2'[r] # ec2[r] => /\ Launching(r) /\ runners[r].status = "PROVISIONING"
                             /\ runners'[r].status = "PROVISIONING"
      /\ runners'[r].pool # NoPool => runners[r].pool # NoPool \/ runners'[r].status = "ACTIVE"
<1>4. SUFFICES Rest
  BY <1>1, <1>2 DEF ProvidedRow
<1>5. CASE Elsewhere(w)
  BY <1>5 DEF Elsewhere, Dying
<1>6. CASE Opens(w)
  <2>1. PICK q \in Runners :
          /\ runners[q].status = "ABSENT" /\ SameRunnersBut(q)
          /\ runners'[q] = NewProvisioningRunner(inv[w].profile)
    BY <1>6 DEF Opens
  <2>2. /\ runners'[q].status = "PROVISIONING" /\ runners'[q].pool = NoPool
        /\ ec2' = ec2
    BY <1>6, <2>1, NewRow DEF Opens
  <2>3. CASE r = q
    BY <2>1, <2>2, <2>3 DEF Dying
  <2>4. CASE r # q
    BY <2>1, <2>2, <2>4 DEF SameRunnersBut, Dying
  <2>5. QED
    BY <2>3, <2>4
<1>7. CASE Starts(w)
  BY <1>3, <1>7 DEF Starts, SameEc2But, LaunchStages, Unnamed, Section, Dying
<1>8. CASE Names(w)
  <2>1. CASE r = inv[w].runner
    BY <1>3, <1>8, <2>1 DEF Names, LaunchStages, Unnamed, Section, Dying, RunnerRow
  <2>2. CASE r # inv[w].runner
    BY <1>8, <2>2 DEF Names, SameRunnersBut, Dying
  <2>3. QED
    BY <2>1, <2>2
<1>9. CASE Drops(w)
  <2>1. CASE r = inv[w].runner
    BY <1>3, <1>9, <2>1 DEF Drops, LaunchStages, Unnamed, Section, Dying, RunnerRow
  <2>2. CASE r # inv[w].runner
    BY <1>9, <2>2 DEF Drops, SameRunnersBut, Dying
  <2>3. QED
    BY <2>1, <2>2
<1>10. CASE Binds(w)
  <2>1. /\ SameRunnersBut(inv[w].runner) /\ inv[w].pc \in Section /\ ec2' = ec2
        /\ runners[inv[w].runner].status = "PROVISIONING"
        /\ runners'[inv[w].runner].status = "ACTIVE"
        /\ runners'[inv[w].runner].instance = runners[inv[w].runner].instance
    BY <1>10, BoundRow DEF Binds, Section
  <2>2. CASE r = inv[w].runner
    BY <1>3, <2>1, <2>2 DEF Dying
  <2>3. CASE r # inv[w].runner
    BY <2>1, <2>3 DEF SameRunnersBut, Dying
  <2>4. QED
    BY <2>2, <2>3
<1>11. CASE Shares(w)
  <2>1. /\ SameRunnerStatus /\ ec2' = ec2
        /\ \E c \in Candidate : SameRunnersBut(c.runner) /\ runners[c.runner].status = "ACTIVE"
    BY <1>11, AllocateEffect DEF Shares, CanAllocate
  <2>2. runners'[r].pool = runners[r].pool \/ runners[r].status = "ACTIVE"
    BY <2>1 DEF SameRunnersBut
  <2>3. QED
    BY <2>1, <2>2 DEF SameRunnerStatus, Dying
<1>12. CASE Frees(w)
  <2>1. /\ SameRunnerStatus /\ ec2' = ec2 /\ SameRunnersBut(inv[w].runner)
        /\ runners' = runners \/ runners[inv[w].runner].status = "ACTIVE"
    BY <1>12, MarkIdleEffect DEF Frees
  <2>2. runners'[r].pool = runners[r].pool \/ runners[r].status = "ACTIVE"
    BY <2>1 DEF SameRunnersBut
  <2>3. QED
    BY <2>1, <2>2 DEF SameRunnerStatus, Dying
<1>13. QED
  BY <1>5, <1>6, <1>7, <1>8, <1>9, <1>10, <1>11, <1>12 DEF RunnerStep

LEMMA ProvidedTenants ==
  ASSUME Typed, LaunchInv, PoolActive, Tenanted, NEW w \in Workers, RunnerStep(w)
  PROVE  Tenanted'
<1> USE RunnerFacts
<1>1. \A r \in Runners : /\ runners[r].status \in Dying \cup {"ACTIVE"} =>
                              runners'[r].status = runners[r].status
                         /\ runners[r].status \in RunnerStatus \cup {"ABSENT"}
  BY ProvidedRows DEF ProvidedRow, RunnerRow
\* Nobody else is given a slot in this step.
<1>2. ASSUME NEW j \in Jobs, jobs'[j].status = "ALLOCATED", jobs'[j].runner \in Runners,
             jobs'[j] = jobs[j]
      PROVE  runners'[jobs'[j].runner].status \notin {"ABSENT", "PROVISIONING"}
  BY <1>1, <1>2 DEF Tenanted, RunnerStatus, Dying
<1>3. CASE Elsewhere(w) \/ Opens(w) \/ Starts(w) \/ Names(w) \/ Drops(w) \/ Frees(w)
  <2>1. \A j \in Jobs : jobs'[j].status = "ALLOCATED" => jobs'[j] = jobs[j]
    BY <1>3, MarkIdleEffect DEF Elsewhere, Opens, Starts, Names, Drops, Frees
  <2>2. QED
    BY <1>2, <2>1 DEF Tenanted
<1>4. CASE Binds(w)
  <2>1. /\ SameJobsBut(JobOf(w)) /\ jobs'[JobOf(w)].runner = inv[w].runner
        /\ runners'[inv[w].runner].status = "ACTIVE"
    BY <1>4, BoundRow
  <2>2. QED
    BY <1>2, <2>1 DEF Tenanted, SameJobsBut
<1>5. CASE Shares(w)
  <2>1. PICK c \in Candidate : AllocateIdleRunner(c, JobOf(w)) /\ JobOf(w) \in Jobs
    BY <1>5 DEF Shares
  <2>2. /\ SameJobsBut(JobOf(w)) /\ SameRunnerStatus /\ runners[c.runner].status = "ACTIVE"
        /\ jobs'[JobOf(w)] = [jobs[JobOf(w)] EXCEPT !.status = "ALLOCATED",
                                          !.runner = c.runner, !.slot = c.slot]
    BY <2>1, AllocateEffect DEF CanAllocate
  <2>3. jobs'[JobOf(w)].runner = c.runner /\ c.runner \in Runners
    BY <2>1, <2>2 DEF TableTypeOK, JobRow, Candidate
  <2>4. SameJobsBut(JobOf(w)) /\ runners'[c.runner].status = "ACTIVE"
    BY <2>2, <2>3 DEF SameRunnerStatus
  <2>5. QED
    BY <1>2, <2>3, <2>4 DEF Tenanted, SameJobsBut
<1>6. QED
  BY <1>3, <1>4, <1>5 DEF RunnerStep

LEMMA ProvidedKeeps ==
  ASSUME FleetTyped, LifeInv, NEW w \in Workers, RunnerStep(w)
  PROVE  LifeInv'
<1> USE DEF LifeInv, FleetTyped
<1>1. LaunchInv' /\ Powered' /\ Tenanted'
  BY LaunchInvStep, StaysUpStep, ProvidedTenants DEF Powered, RowInv
<1>2. \A r \in Runners : ProvidedRow(r)
  BY ProvidedRows DEF RowInv
<1>3. ASSUME NEW r \in Runners
      PROVE  /\ runners'[r].pool # NoPool => runners'[r].status = "ACTIVE"
             /\ runners'[r].status = "TERMINATED" => ~ec2'[r]
             /\ runners'[r].status = "TERMINATING" => runners'[r].instance
  BY <1>2 DEF ProvidedRow, RowInv, PoolActive, TerminatedIsGone, Dying
<1>4. QED
  BY <1>1, <1>3 DEF RowInv, PoolActive, TerminatedIsGone

\* What a task, EC2, or the callback of a slot may do to a row and its instance.
SweptRow(r) ==
  LET old == runners[r]
      new == runners'[r]
  IN /\ new.instance = old.instance
     /\ \/ new.status = old.status /\ new.pool = old.pool
        \/ /\ old.status \in {"PROVISIONING", "ACTIVE"} /\ old.instance
           /\ new.status = "TERMINATING" /\ new.pool = NoPool
        \/ /\ ~Launching(r) /\ old.status \notin {"ABSENT", "ACTIVE"}
           /\ ~(old.instance /\ ec2[r])
           /\ new.status = "FAILED" /\ new.pool = NoPool
        \/ /\ old.status \in Dying /\ ~ec2[r]
           /\ new.status = "TERMINATED" /\ new.pool = old.pool
     /\ \/ ec2'[r] = ec2[r]
        \/ /\ ~ec2'[r] /\ new.status = old.status
           /\ \/ "spot" \in SweepFaults
              \/ /\ old.status # "ACTIVE"
                 /\ ~(Launching(r) /\ old.status = "PROVISIONING")

LEMMA SweptKeeps ==
  ASSUME FleetTyped, LifeInv, inv' = inv, \A r \in Runners : SweptRow(r),
         \A j \in Jobs : jobs'[j].status = "ALLOCATED" => jobs'[j] = jobs[j]
  PROVE  LifeInv'
<1> USE DEF LifeInv
<1>1. \A w \in Workers : inv[w].pc \in Owning =>
        inv[w].runner \in Runners /\ Launching(inv[w].runner)
  BY RunnerFacts DEF FleetTyped, Launching, InSection, Owning, Section
<1>2. \A w \in Workers : InSection(w) /\ inv[w].runner # NoRunner => inv[w].runner \in Runners
  BY DEF FleetTyped, Typed, TypeOK, Invocation
<1>3. LaunchInv'
  <2>1. OwnRow'
    BY <1>2 DEF LaunchInv, OwnRow, SweptRow, InSection, Dying
  <2>2. LaunchStages'
    BY <1>1 DEF LaunchInv, LaunchStages, SweptRow, Unnamed, Owning, Dying
  <2>3. RowsOfInstances'
    BY DEF LaunchInv, RowsOfInstances, SweptRow, Dying
  <2>4. QED
    BY <2>1, <2>2, <2>3 DEF LaunchInv
<1>4. Powered'
  <2>1. ASSUME "spot" \notin SweepFaults, StaysUp PROVE StaysUp'
    <3>1. \A w \in Workers : /\ inv'[w].pc = "setInstance" => ec2'[inv'[w].runner]
                             /\ /\ inv'[w].pc = "bind"
                                /\ runners'[inv'[w].runner].status = "PROVISIONING"
                                => ec2'[inv'[w].runner]
      BY <1>1, <2>1 DEF StaysUp, SweptRow, LaunchInv, LaunchStages, Unnamed, Owning, Dying
    <3>2. \A r \in Runners : runners'[r].status = "ACTIVE" => ec2'[r]
      BY <2>1 DEF StaysUp, SweptRow, Dying
    <3>3. QED
      BY <3>1, <3>2 DEF StaysUp
  <2>2. QED
    BY <2>1 DEF Powered
<1>5. RowInv'
  BY DEF RowInv, PoolActive, TerminatedIsGone, SweptRow, Dying
<1>6. Tenanted'
  BY DEF Tenanted, SweptRow, Dying
<1>7. QED
  BY <1>3, <1>4, <1>5, <1>6

\* A task does to its row what it may, and may do its next call when it comes to it.
LEMMA TaskSwept ==
  ASSUME FleetInv, NEW c \in Reapers, TaskStep(c)
  PROVE  /\ inv' = inv /\ \A r \in Runners : SweptRow(r)
         /\ \A j \in Jobs : jobs'[j].status = "ALLOCATED" => jobs'[j] = jobs[j]
         /\ task'[c].pc \in OnRunner => Fits(task[c])'
<1> DEFINE t == task[c]
           r == t.runner
           s == task'[c]
<1> USE FleetFacts DEF FleetInv
<1>1. /\ t \in Task /\ s \in Task /\ Recalls(t) /\ NoTask.pc = "none" /\ t.retry \in Nat
      /\ (t.pc \in OnRunner => Fits(t) /\ r \in Runners)
      /\ \A q \in Runners : runners[q].status = "ACTIVE" => runners[q].instance
  BY NoTaskFacts DEF TaskStep, TasksFit, Recalls, LifeInv, LaunchInv, RowsOfInstances
<1>2. ASSUME UNCHANGED <<runners, ec2>> PROVE \A q \in Runners : SweptRow(q)
  BY <1>2 DEF SweptRow
<1>3. CASE Thinks(c)
  <2>1. UNCHANGED <<jobs, runners, inv, ec2>>
    BY <1>3 DEF Thinks, vars
  <2>2. ASSUME s.pc \in OnRunner PROVE Fits(task[c])'
    <3>1. GoesOn(c) /\ s # NoTask /\ s.kind = t.kind /\ s.runner = r
      BY <1>1, <1>3, <2>2 DEF Thinks, GoesOn, OnRunner
    <3>2. \/ t.pc = "fresh" /\ s.pc = "ask"
          \/ t.pc = "ask" /\ s.pc \in {"ask", "transition"}
          \/ t.pc = "state" /\ s.pc = IF ec2[r] THEN "transition" ELSE "fail"
          \/ t.pc = "track" /\ ~Tracks(runners[r]) /\ s.pc = "deregister"
          \/ t.pc = "deregister" /\ s.pc = "terminate"
      BY <1>3, <2>2, <3>1 DEF Thinks, OnRunner
    <3>3. t.pc \in OnRunner /\ Fits(t) /\ r \in Runners
      BY <1>1, <3>2 DEF OnRunner
    <3> HIDE DEF t, s, r
    <3>4. QED
      BY <1>1, <2>1, <3>1, <3>2, <3>3 DEF Fits, Tracks, Recalls, Launching, InSection, t, s, r
  <2>3. QED
    BY <1>2, <2>1, <2>2
\* The row of a task is changed, and no other.
<1>4. ASSUME r \in Runners, SweptRow(r), SameRunnersBut(r), SameEc2But(r)
      PROVE  \A q \in Runners : SweptRow(q)
  BY <1>4 DEF SweptRow, SameRunnersBut, SameEc2But
<1>5. CASE Drains(c)
  <2>1. /\ r \in Runners /\ Fits(t) /\ t.pc = "transition" /\ t.kind # "untracked"
        /\ s.pc = "deregister" /\ s.kind = t.kind /\ s.runner = r
    BY <1>1, <1>5 DEF Drains, OnRunner, GoesOn, Recalls
  <2>2. inv' = inv /\ ec2' = ec2
    BY <1>5 DEF Drains, provisionVars
  <2>3. /\ jobs' = jobs /\ SameRunnersBut(r) /\ runners[r].status \in {"PROVISIONING", "ACTIVE"}
        /\ runners'[r] = [runners[r] EXCEPT !.status = "TERMINATING", !.pool = NoPool]
    BY <1>5, <2>1, TerminatingEffect DEF Drains, CanTerminate
  <2>4. /\ runners'[r].status = "TERMINATING" /\ runners'[r].pool = NoPool
        /\ runners'[r].instance = runners[r].instance
    BY <2>1, <2>3 DEF RunnerRow
  <2>5. runners[r].instance
    BY <2>1 DEF Fits
  <2>6. SweptRow(r) /\ SameEc2But(r)
    BY <2>2, <2>3, <2>4, <2>5 DEF SweptRow, SameEc2But
  <2>7. Fits(task[c])'
    <3> HIDE DEF t, s
    <3>1. QED
      BY <2>1, <2>2, <2>4 DEF Fits, Dying, Launching, InSection, t, s
  <2>8. QED
    BY <1>4, <2>1, <2>2, <2>3, <2>6, <2>7
<1>6. CASE Removes(c)
  <2>1. UNCHANGED <<jobs, runners, inv, ec2>>
    BY <1>6 DEF Removes, vars
  <2>2. /\ r \in Runners /\ Fits(t) /\ t.pc = "deregister"
        /\ s.pc = "deregister" /\ s.kind = t.kind /\ s.runner = r
    BY <1>1, <1>6 DEF Removes, OnRunner, GoesOn
  <2>3. Fits(task[c])'
    BY <2>1, <2>2 DEF Fits, Launching, InSection
  <2>4. QED
    BY <1>2, <2>1, <2>3
<1>7. CASE Terminates(c)
  <2>1. /\ r \in Runners /\ Fits(t) /\ t.pc = "terminate"
        /\ s = NoTask \/ (t.kind # "untracked" /\ s.pc = "record" /\ s.kind = t.kind
                            /\ s.runner = r)
    BY <1>1, <1>7 DEF Terminates, OnRunner, GoesOn
  <2>2. /\ inv' = inv /\ jobs' = jobs /\ runners' = runners /\ ~ec2'[r] /\ SameEc2But(r)
    BY <1>7, <2>1 DEF Terminates, provisionVars, table, SameEc2But
  <2>3. SweptRow(r) /\ SameRunnersBut(r)
    BY <2>1, <2>2 DEF SweptRow, SameRunnersBut, Fits, Dying
  <2>4. ASSUME s.pc \in OnRunner PROVE Fits(task[c])'
    BY <1>1, <2>1, <2>2, <2>4 DEF Fits, Launching, InSection, OnRunner
  <2>5. QED
    BY <1>4, <2>1, <2>2, <2>3, <2>4
<1>8. CASE Records(c)
  <2>1. r \in Runners /\ Fits(t) /\ t.pc = "record" /\ t.kind # "untracked"
    BY <1>1, <1>8 DEF Records, OnRunner, Recalls
  <2>2. t.row.slots \in [SlotIdx -> Slot]
    BY <1>1 DEF Task, RunnerRow
  <2>3. inv' = inv /\ ec2' = ec2
    BY <1>8 DEF Records, provisionVars
  <2>4. /\ jobs' = jobs /\ SameRunnersBut(r)
        /\ runners'[r] = [runners[r] EXCEPT !.status = "TERMINATED", !.slots = t.row.slots]
    BY <1>8, <2>1, <2>2, TerminatedEffect DEF Records
  <2>5. /\ runners'[r].status = "TERMINATED" /\ runners'[r].pool = runners[r].pool
        /\ runners'[r].instance = runners[r].instance
    BY <2>1, <2>4 DEF RunnerRow
  <2>6. SweptRow(r) /\ SameEc2But(r)
    BY <2>1, <2>3, <2>5 DEF SweptRow, SameEc2But, Fits
  <2>7. s.pc \notin OnRunner
    BY <1>1, <1>8 DEF Records, OnRunner
  <2>8. QED
    BY <1>4, <2>1, <2>3, <2>4, <2>6, <2>7
<1>9. CASE Reverts(c)
  <2>1. t.job \in Jobs
    BY <1>1, <1>9 DEF Reverts, Recalls
  <2>2. /\ runners' = runners
        /\ \A j \in Jobs : jobs'[j].status = "ALLOCATED" => jobs'[j] = jobs[j]
    <3>1. CASE RevertAllocation(t.job, t.retry)
      BY <1>1, <2>1, <3>1, RevertAllocationEffect DEF SameJobsBut
    <3>2. CASE RevertProvisioning(t.job, t.retry)
      <4> DEFINE j == t.job
                 n == t.retry
      <4>1. /\ runners' = runners /\ SameJobsBut(j) /\ jobs[j] \in JobRow
            /\ \/ jobs'[j] = [jobs[j] EXCEPT !.status = "FAILED", !.retry = n + 1]
               \/ jobs'[j] = [jobs[j] EXCEPT !.status = "QUEUED", !.retry = n + 1]
               \/ jobs' = jobs
        BY <1>1, <2>1, <3>2, RevertEffect
      <4> HIDE DEF n, j
      <4>2. QED
        BY <4>1 DEF JobRow, SameJobsBut
    <3>3. QED
      BY <1>9, <3>1, <3>2 DEF Reverts
  <2>3. inv' = inv /\ ec2' = ec2 /\ s.pc \notin OnRunner
    BY <1>1, <1>9 DEF Reverts, provisionVars, OnRunner
  <2>4. QED
    BY <1>2, <2>2, <2>3
<1>10. CASE Fails(c)
  <2>1. r \in Runners /\ Fits(t) /\ t.pc = "fail" /\ t.kind = "staleRow"
    BY <1>1, <1>10 DEF Fails, OnRunner, Recalls
  <2>2. inv' = inv /\ ec2' = ec2 /\ s.pc \notin OnRunner
    BY <1>1, <1>10 DEF Fails, provisionVars, OnRunner
  <2>3. /\ jobs' = jobs /\ SameRunnersBut(r)
        /\ runners'[r] = [runners[r] EXCEPT !.status = "FAILED", !.pool = NoPool]
    BY <1>10, <2>1, FailedEffect DEF Fails
  <2>4. /\ runners'[r].status = "FAILED" /\ runners'[r].pool = NoPool
        /\ runners'[r].instance = runners[r].instance
    BY <2>1, <2>3 DEF RunnerRow
  <2>5. SweptRow(r) /\ SameEc2But(r)
    BY <2>1, <2>2, <2>4 DEF SweptRow, SameEc2But, Fits
  <2>6. QED
    BY <1>4, <2>1, <2>2, <2>3, <2>5
<1>11. QED
  BY <1>3, <1>5, <1>6, <1>7, <1>8, <1>9, <1>10 DEF TaskStep

\* So does what is outside the Lambdas.
LEMMA OutsideSwept ==
  ASSUME FleetTyped, Outside
  PROVE  inv' = inv /\ \A r \in Runners : SweptRow(r)
<1> USE FleetFacts
<1>1. ASSUME NEW r \in Runners, NEW i \in SlotIdx, Boot(r, i) \/ PickUp(r, i) \/ Finish(r, i)
      PROVE  inv' = inv /\ \A q \in Runners : SweptRow(q)
  <2>1. UNCHANGED <<runners, inv, ec2>>
    BY <1>1 DEF Boot, PickUp, Finish, Becomes, vars
  <2>2. QED
    BY <2>1 DEF SweptRow
<1>2. ASSUME NEW r \in Runners, NEW i \in SlotIdx, Ready(r, i)
      PROVE  inv' = inv /\ \A q \in Runners : SweptRow(q)
  <2>1. /\ SameRunnersBut(r) /\ runners'[r] = [runners[r] EXCEPT !.slots = runners'[r].slots]
    BY <1>2, SlotReadyEffect DEF Ready
  <2>2. /\ runners'[r].status = runners[r].status /\ runners'[r].pool = runners[r].pool
        /\ runners'[r].instance = runners[r].instance
    BY <2>1 DEF RunnerRow
  <2>3. inv' = inv /\ ec2' = ec2
    BY <1>2 DEF Ready, provisionVars
  <2>4. QED
    BY <2>1, <2>2, <2>3 DEF SweptRow, SameRunnersBut
<1>3. ASSUME NEW r \in Runners, Reclaim(r)
      PROVE  inv' = inv /\ \A q \in Runners : SweptRow(q)
  BY <1>3 DEF Reclaim, SweptRow, table, provisionVars
<1>4. QED
  BY <1>1, <1>2, <1>3 DEF Outside

LEMMA TakesFit ==
  ASSUME FleetTyped, LifeInv, NEW c \in Reapers, Takes(c), UNCHANGED <<vars, githubVars>>,
         task'[c].pc \in OnRunner
  PROVE  Fits(task[c])'
<1> DEFINE s == task'[c]
<1>1. UNCHANGED <<runners, inv, ec2>>
  BY DEF vars
<1>2. /\ TakesRow(s) \/ TakesInstance(s) \/ TakesJob(s)
      /\ \A q \in Runners : /\ runners[q].status = "ACTIVE" => runners[q].instance
                            /\ runners[q].status = "TERMINATING" => runners[q].instance
                            /\ ec2[q] => runners[q].status # "ABSENT"
  BY DEF Takes, LifeInv, LaunchInv, RowsOfInstances, RowInv
<1>3. CASE TakesRow(s)
  <2> HIDE DEF s
  <2>1. QED
    BY <1>1, <1>2, <1>3 DEF TakesRow, Fits, Launching, InSection, Dying, s
<1>4. CASE TakesInstance(s)
  BY <1>1, <1>2, <1>4 DEF TakesInstance, Fits, Launching, InSection
<1>5. CASE TakesJob(s)
  BY <1>5 DEF TakesJob, OnRunner
<1>6. QED
  BY <1>2, <1>3, <1>4, <1>5

LEMMA FleetInvInit == FleetInit => FleetInv
<1>1. ASSUME FleetInit PROVE FleetInv
  <2>1. FleetTyped /\ LaunchInv /\ StaysUp
    BY <1>1, FleetTypedInit, LaunchInvInit DEF FleetInit
  <2>2. /\ \A r \in Runners : runners[r].status = "ABSENT" /\ runners[r].pool = NoPool
        /\ \A j \in Jobs : jobs[j].status = "ABSENT"
    BY <1>1 DEF FleetInit, Init, TableInit, NoRunnerRow, NoJobRow, UnboundRunner, UnboundJob
  <2>3. TasksFit
    BY <1>1, NoTaskFacts DEF FleetInit, TasksFit, OnRunner
  <2>4. QED
    BY <2>1, <2>2, <2>3
    DEF FleetInv, LifeInv, Powered, RowInv, PoolActive, TerminatedIsGone, Tenanted
<1>2. QED
  BY <1>1

LEMMA FleetInvStep ==
  ASSUME FleetInv, [FleetNext]_fleetVars
  PROVE  FleetInv'
<1> USE DEF FleetInv
<1>1. FleetTyped'
  BY FleetTypedStep
<1>2. \A c \in Reapers : task[c] \in Task /\ Recalls(task[c])
  BY DEF FleetTyped
<1>3. ASSUME [Next]_vars, UNCHANGED sweepVars
      PROVE  LifeInv' /\ TasksFit'
  <2>1. CASE UNCHANGED <<jobs, runners, inv, ec2>>
    <3>1. LifeInv'
      BY <2>1 DEF LifeInv, LaunchInv, OwnRow, LaunchStages, RowsOfInstances, Powered, StaysUp,
                  RowInv, PoolActive, TerminatedIsGone, Tenanted, InSection
    <3>2. TasksFit'
      BY <1>3, <2>1 DEF TasksFit, Fits, Launching, InSection, sweepVars
    <3>3. QED
      BY <3>1, <3>2
  <2>2. ASSUME NEW w \in Workers, RunnerStep(w) PROVE LifeInv' /\ TasksFit'
    <3>1. LifeInv'
      BY <2>2, ProvidedKeeps
    <3>2. \A r \in Runners : ProvidedRow(r)
      BY <2>2, ProvidedRows DEF FleetTyped, LifeInv, RowInv
    <3>3. ASSUME NEW c \in Reapers, task[c].pc \in OnRunner PROVE Fits(task[c])'
      <4>1. Fits(task[c]) /\ task[c].runner \in Runners
        BY <1>2, <3>3 DEF TasksFit, Recalls
      <4>2. QED
        BY <1>2, <1>3, <3>2, <3>3, <4>1 DEF Fits, ProvidedRow, Recalls, Dying, sweepVars
    <3>4. TasksFit'
      BY <1>3, <3>3 DEF TasksFit, sweepVars
    <3>5. QED
      BY <3>1, <3>4
  <2>3. QED
    BY <1>3, <2>1, <2>2, RunnerSteps DEF FleetTyped
\* The tasks that a step leaves alone.
<1>4. ASSUME inv' = inv, \A r \in Runners : SweptRow(r), NEW c \in Reapers,
             task'[c] = task[c], task[c].pc \in OnRunner
      PROVE  Fits(task[c])'
  <2>1. Fits(task[c]) /\ task[c].runner \in Runners
    BY <1>2, <1>4 DEF TasksFit, Recalls
  <2>2. ec2 \in [Runners -> BOOLEAN] /\ ec2' \in [Runners -> BOOLEAN]
    BY <1>1 DEF FleetTyped, Typed, TypeOK
  <2>3. QED
    BY <1>2, <1>4, <2>1, <2>2
    DEF Fits, SweptRow, Recalls, LifeInv, RowInv, Dying, Launching, InSection
<1>5. CASE Outside
  <2>1. inv' = inv /\ (\A r \in Runners : SweptRow(r)) /\ jobs' = jobs /\ task' = task
    BY <1>5, OutsideSwept, OutsideTyped
  <2>2. LifeInv'
    BY <2>1, SweptKeeps
  <2>3. TasksFit'
    BY <1>4, <2>1 DEF TasksFit
  <2>4. QED
    BY <1>1, <2>2, <2>3
<1>6. ASSUME NEW c \in Reapers, Takes(c), UNCHANGED <<vars, githubVars>>
      PROVE  LifeInv' /\ TasksFit'
  <2>1. UNCHANGED <<jobs, runners, inv, ec2>>
    BY <1>6 DEF vars
  <2>2. LifeInv'
    BY <2>1 DEF LifeInv, LaunchInv, OwnRow, LaunchStages, RowsOfInstances, Powered, StaysUp,
                RowInv, PoolActive, TerminatedIsGone, Tenanted, InSection
  <2>3. \A r \in Runners : SweptRow(r)
    BY <2>1 DEF SweptRow
  <2>4. task'[c].pc \in OnRunner => Fits(task[c])'
    BY <1>6, TakesFit
  <2>5. TasksFit'
    BY <1>4, <1>6, <2>1, <2>3, <2>4 DEF TasksFit, Takes, SameTaskBut
  <2>6. QED
    BY <2>2, <2>5
<1>7. ASSUME NEW c \in Reapers, TaskStep(c)
      PROVE  LifeInv' /\ TasksFit'
  <2>1. /\ inv' = inv /\ \A r \in Runners : SweptRow(r)
        /\ \A j \in Jobs : jobs'[j].status = "ALLOCATED" => jobs'[j] = jobs[j]
        /\ task'[c].pc \in OnRunner => Fits(task[c])'
    BY <1>7, TaskSwept
  <2>2. LifeInv'
    BY <2>1, SweptKeeps
  <2>3. TasksFit'
    BY <1>4, <1>7, <2>1 DEF TasksFit, TaskStep, SameTaskBut
  <2>4. QED
    BY <2>2, <2>3
<1>8. QED
  BY <1>1, <1>3, <1>5, <1>6, <1>7, FleetSteps

LEMMA FleetInductive == FleetSpec => []FleetInv
<1>1. FleetInv /\ [FleetNext]_fleetVars => FleetInv'
  BY FleetInvStep
<1>2. QED
  BY <1>1, FleetInvInit, PTL DEF FleetSpec

\* No runner that is dying or dead is in the pool, however late the message that would
\* put it back is handled.
THEOREM NeverOnOffer == FleetSpec => []PoolActive
<1>1. FleetInv => PoolActive
  BY DEF FleetInv, LifeInv, RowInv
<1>2. QED
  BY <1>1, FleetInductive, PTL

\* A row says TERMINATED only when its instance is gone for good, so none is forgotten.
THEOREM GoneForGood == FleetSpec => []TerminatedIsGone
<1>1. FleetInv => TerminatedIsGone
  BY DEF FleetInv, LifeInv, RowInv
<1>2. QED
  BY <1>1, FleetInductive, PTL

\* The sweep for lost instances never works on an instance that jobs are given, although
\* it decides without a condition on the row.
THEOREM LostOnly == FleetSpec => []UntrackedIsDead
<1>1. FleetInv => UntrackedIsDead
  BY DEF FleetInv, TasksFit, Fits, UntrackedIsDead, OnRunner
<1>2. QED
  BY <1>1, FleetInductive, PTL

-----------------------------------------------------------------------------
(***************************************************************************)
(* What a sweep knows of GitHub when it ends an instance.                  *)
(***************************************************************************)

\* A slot counts as started only after its process registered, and a snapshot knows no
\* more than that.
Registered ==
  /\ \A r \in Runners, i \in SlotIdx :
       \/ runners[r].status = "ACTIVE" /\ ~runners[r].slots[i].starting
       \/ Confirmed(runners[r].slots[i])
       => github[r][i] # "unborn"
  /\ \A c \in Reapers : task[c].pc \in OnRunner =>
       \A i \in SlotIdx :
         Confirmed(task[c].row.slots[i]) => github[task[c].runner][i] # "unborn"

\* The slots the sweep has been through without finding one busy cannot take a job.
Removed ==
  \A c \in Reapers, i \in SlotIdx :
    /\ Confirmed(task[c].row.slots[i])
    /\ \/ task[c].pc = "deregister" /\ ~task[c].busy /\ i < task[c].next
       \/ task[c].pc = "terminate"
    => github[task[c].runner][i] = "gone"

\* What no step undoes.
Lasting ==
  \A r \in Runners, i \in SlotIdx :
    /\ github[r][i] # "unborn" => github'[r][i] # "unborn"
    /\ github[r][i] = "gone" => github'[r][i] = "gone"

LEMMA ProvidedSlots ==
  ASSUME Typed, NEW w \in Workers, RunnerStep(w), NEW r \in Runners, NEW i \in SlotIdx
  PROVE  \/ /\ runners'[r].slots[i] = runners[r].slots[i]
            /\ runners'[r].status = "ACTIVE" => runners[r].status = "ACTIVE"
         \/ runners'[r].slots[i].starting
         \/ runners'[r].slots[i] = PlaceholderSlot /\ runners'[r].status # "ACTIVE"
         \/ /\ runners[r].status = "ACTIVE"
            /\ runners'[r].slots[i].starting = runners[r].slots[i].starting
<1> USE RunnerFacts
<1>1. CASE Elsewhere(w) \/ Starts(w)
  BY <1>1 DEF Elsewhere, Starts
<1>2. CASE Opens(w)
  <2>1. PICK q \in Runners :
          SameRunnersBut(q) /\ runners'[q] = NewProvisioningRunner(inv[w].profile)
    BY <1>2 DEF Opens
  <2>2. runners'[q].status = "PROVISIONING" /\ runners'[q].slots[i] = PlaceholderSlot
    BY <1>2, <2>1, NewRow DEF Opens
  <2>3. QED
    BY <2>1, <2>2 DEF SameRunnersBut
<1>3. CASE Names(w) \/ Drops(w)
  <2>1. /\ SameRunnersBut(inv[w].runner)
        /\ runners'[inv[w].runner].slots = runners[inv[w].runner].slots
        /\ runners'[inv[w].runner].status \in {runners[inv[w].runner].status, "FAILED"}
    BY <1>3 DEF Names, Drops, RunnerRow
  <2>2. QED
    BY <2>1 DEF SameRunnersBut
<1>4. CASE Binds(w)
  <2>1. SameRunnersBut(inv[w].runner) /\ Bound(inv[w].runner, JobOf(w), inv[w].profile)
    BY <1>4, BoundRow
  <2>2. CASE r = inv[w].runner
    BY <2>1, <2>2 DEF Bound
  <2>3. CASE r # inv[w].runner
    BY <2>1, <2>3 DEF SameRunnersBut
  <2>4. QED
    BY <2>2, <2>3
<1>5. CASE Shares(w)
  <2>1. PICK c \in Candidate : /\ SameRunnersBut(c.runner) /\ SameStarting
                               /\ runners[c.runner].status = "ACTIVE"
    BY <1>5, AllocateEffect DEF Shares, CanAllocate
  <2>2. QED
    BY <2>1 DEF SameRunnersBut, SameStarting
<1>6. CASE Frees(w)
  <2>1. /\ SameRunnersBut(inv[w].runner) /\ SameStarting
        /\ runners' = runners \/ runners[inv[w].runner].status = "ACTIVE"
    BY <1>6, MarkIdleEffect DEF Frees
  <2>2. QED
    BY <2>1 DEF SameRunnersBut, SameStarting
<1>7. QED
  BY <1>1, <1>2, <1>3, <1>4, <1>5, <1>6 DEF RunnerStep

LEMMA NextRegistered ==
  ASSUME FleetInv, [Next]_vars, UNCHANGED sweepVars, Registered, Removed
  PROVE  Registered' /\ Removed'
<1>1. github' = github /\ task' = task /\ ~Confirmed(PlaceholderSlot)
  BY DEF sweepVars, Confirmed
<1>2. Removed'
  BY <1>1 DEF Removed
<1>3. ASSUME NEW r \in Runners, NEW i \in SlotIdx,
             \/ runners'[r].status = "ACTIVE" /\ ~runners'[r].slots[i].starting
             \/ Confirmed(runners'[r].slots[i])
      PROVE  github'[r][i] # "unborn"
  <2>1. CASE UNCHANGED <<jobs, runners, inv, ec2>>
    BY <1>1, <1>3, <2>1 DEF Registered
  <2>2. ASSUME NEW w \in Workers, RunnerStep(w) PROVE github'[r][i] # "unborn"
    BY <1>1, <1>3, <2>2, ProvidedSlots DEF FleetInv, FleetTyped, Registered, Confirmed
  <2>3. QED
    BY <2>1, <2>2, RunnerSteps DEF FleetInv, FleetTyped
<1>4. Registered'
  BY <1>1, <1>3 DEF Registered
<1>5. QED
  BY <1>2, <1>4

LEMMA OutsideRegistered ==
  ASSUME FleetInv, Outside, Registered, Removed
  PROVE  Registered' /\ Removed'
<1> USE FleetFacts DEF FleetInv
<1>1. /\ github \in [Runners -> [SlotIdx -> Process]]
      /\ \A c \in Reapers : task[c].pc \in OnRunner => task[c].runner \in Runners
      /\ task' = task
  BY OutsideTyped DEF FleetTyped, Recalls
<1>2. Lasting /\ \A r \in Runners, i \in SlotIdx :
        /\ runners'[r].status = "ACTIVE" <=> runners[r].status = "ACTIVE"
        /\ \/ runners'[r].slots[i] = runners[r].slots[i]
           \/ github[r][i] # "unborn"
  <2>1. ASSUME NEW r \in Runners, NEW i \in SlotIdx, NEW from \in Process,
               NEW to \in {"idle", "busy"}, from # "gone", Becomes(r, i, from, to)
        PROVE  Lasting /\ runners' = runners
    BY <1>1, <2>1 DEF Becomes, Lasting, vars
  <2>2. ASSUME NEW r \in Runners, NEW i \in SlotIdx, Boot(r, i) \/ PickUp(r, i) \/ Finish(r, i)
        PROVE  Lasting /\ runners' = runners
    <3>1. PICK from \in {"unborn", "idle", "busy"}, to \in {"idle", "busy"} :
            Becomes(r, i, from, to)
      BY <2>2 DEF Boot, PickUp, Finish
    <3>2. QED
      BY <2>1, <3>1 DEF Process
  <2>3. ASSUME NEW r \in Runners, NEW i \in SlotIdx, Ready(r, i)
        PROVE  /\ github' = github /\ github[r][i] # "unborn" /\ SameRunnersBut(r)
               /\ runners'[r].status = runners[r].status
               /\ \A k \in SlotIdx \ {i} : runners'[r].slots[k] = runners[r].slots[k]
    <3>1. /\ SameRunnersBut(r)
          /\ runners'[r] = [runners[r] EXCEPT !.slots = runners'[r].slots]
          /\ \A k \in SlotIdx \ {i} : runners'[r].slots[k] = runners[r].slots[k]
      BY <2>3, SlotReadyEffect DEF Ready
    <3>2. runners'[r].status = runners[r].status
      BY <3>1 DEF RunnerRow
    <3>3. QED
      BY <2>3, <3>1, <3>2 DEF Ready, sweepVars
  <2>4. ASSUME NEW r \in Runners, Reclaim(r) PROVE github' = github /\ runners' = runners
    BY <2>4 DEF Reclaim, table, sweepVars
  <2>5. QED
    BY <2>2, <2>3, <2>4 DEF Outside, Lasting, SameRunnersBut
<1>3. Registered'
  BY <1>1, <1>2 DEF Registered, Lasting
<1>4. Removed'
  BY <1>1, <1>2 DEF Removed, Lasting, OnRunner
<1>5. QED
  BY <1>3, <1>4

LEMMA TakesRegistered ==
  ASSUME FleetInv, NEW c \in Reapers, Takes(c), UNCHANGED <<vars, githubVars>>,
         Registered, Removed
  PROVE  Registered' /\ Removed'
<1> DEFINE s == task'[c]
<1>1. /\ runners' = runners /\ github' = github /\ SameTaskBut(c)
      /\ TakesRow(s) \/ TakesInstance(s) \/ TakesJob(s)
      /\ \A i \in SlotIdx : ~Confirmed(NoRunnerRow.slots[i])
  BY NoTaskFacts DEF Takes, vars, githubVars, Confirmed
<1>2. ASSUME s.pc \in OnRunner, NEW i \in SlotIdx, Confirmed(s.row.slots[i])
      PROVE  github[s.runner][i] # "unborn"
  <2> HIDE DEF s
  <2>1. CASE TakesRow(s)
    BY <1>2, <2>1 DEF TakesRow, Registered
  <2>2. CASE TakesInstance(s) \/ TakesJob(s)
    BY <1>1, <1>2, <2>2 DEF TakesInstance, TakesJob
  <2>3. QED
    BY <1>1, <2>1, <2>2
<1>3. s.pc # "terminate" /\ (s.pc = "deregister" => s.next = 0)
  <2> HIDE DEF s
  <2>1. QED
    BY <1>1 DEF TakesRow, TakesInstance, TakesJob
<1>4. Registered'
  BY <1>1, <1>2 DEF Registered, SameTaskBut
<1>5. \A i \in SlotIdx : ~(i < 0)
  BY DEF SlotIdx
<1>6. Removed'
  BY <1>1, <1>3, <1>5 DEF Removed, SameTaskBut
<1>7. QED
  BY <1>4, <1>6

LEMMA TaskRegistered ==
  ASSUME FleetInv, NEW c \in Reapers, TaskStep(c), Registered, Removed
  PROVE  Registered' /\ Removed'
<1> DEFINE t == task[c]
           r == t.runner
           s == task'[c]
<1> USE FleetFacts DEF FleetInv
<1>1. /\ t \in Task /\ s \in Task /\ Recalls(t) /\ NoTask.pc = "none" /\ SameTaskBut(c)
      /\ (t.pc \in OnRunner => r \in Runners)
      /\ github \in [Runners -> [SlotIdx -> Process]]
      /\ \A d \in Reapers : task[d].pc \in OnRunner => task[d].runner \in Runners
  BY NoTaskFacts DEF TaskStep, FleetTyped, Recalls
\* A task that looks at a runner goes on with the runner and the snapshot.
<1>2. s.pc \in OnRunner => t.pc \in OnRunner /\ s.runner = r /\ s.row = t.row
  <2>1. CASE Thinks(c)
    BY <1>1, <2>1 DEF Thinks, GoesOn, OnRunner
  <2>2. CASE Drains(c) \/ Removes(c) \/ Terminates(c) \/ Records(c) \/ Reverts(c) \/ Fails(c)
    BY <1>1, <2>2
    DEF Drains, Removes, Terminates, Records, Reverts, Fails, GoesOn, OnRunner
  <2>3. QED
    BY <2>1, <2>2 DEF TaskStep
<1>3. Lasting
  <2>1. CASE Removes(c)
    BY <1>1, <2>1 DEF Removes, RemoveRunner, Lasting, OnRunner
  <2>2. CASE Thinks(c) \/ Drains(c) \/ Terminates(c) \/ Records(c) \/ Reverts(c) \/ Fails(c)
    BY <2>2 DEF Thinks, Drains, Terminates, Records, Reverts, Fails, githubVars, Lasting
  <2>3. QED
    BY <2>1, <2>2 DEF TaskStep
\* The slots change only when the snapshot of a dead instance is written back.
<1>4. \A q \in Runners : /\ runners'[q].status = "ACTIVE" => runners[q].status = "ACTIVE"
                        /\ \/ runners'[q].slots = runners[q].slots
                           \/ /\ q = r /\ t.pc \in OnRunner /\ runners'[q].slots = t.row.slots
                              /\ runners'[q].status # "ACTIVE"
  <2>1. \A q \in Runners : runners'[q].status = "ACTIVE" => runners[q].status = "ACTIVE"
    BY TaskSwept DEF SweptRow
  <2>2. CASE Thinks(c) \/ Removes(c) \/ Terminates(c)
    BY <2>2 DEF Thinks, Removes, Terminates, vars, table
  <2>3. CASE Drains(c)
    <3>1. r \in Runners
      BY <1>1, <2>3 DEF Drains, OnRunner
    <3>2. /\ SameRunnersBut(r)
          /\ runners'[r] = [runners[r] EXCEPT !.status = "TERMINATING", !.pool = NoPool]
      BY <2>3, <3>1, TerminatingEffect DEF Drains
    <3>3. runners'[r].slots = runners[r].slots
      BY <3>1, <3>2 DEF RunnerRow
    <3>4. QED
      BY <2>1, <3>2, <3>3 DEF SameRunnersBut
  <2>4. CASE Records(c)
    <3>1. r \in Runners /\ t.pc \in OnRunner /\ t.row.slots \in [SlotIdx -> Slot]
      BY <1>1, <2>4 DEF Records, OnRunner, Task, RunnerRow
    <3>2. /\ SameRunnersBut(r)
          /\ runners'[r] = [runners[r] EXCEPT !.status = "TERMINATED", !.slots = t.row.slots]
      BY <2>4, <3>1, TerminatedEffect DEF Records
    <3>3. runners'[r].slots = t.row.slots /\ runners'[r].status = "TERMINATED"
      BY <3>1, <3>2 DEF RunnerRow
    <3>4. QED
      BY <2>1, <3>1, <3>2, <3>3 DEF SameRunnersBut
  <2>5. CASE Reverts(c)
    BY <2>5 DEF Reverts, RevertAllocation, RevertProvisioning
  <2>6. CASE Fails(c)
    <3>1. r \in Runners
      BY <1>1, <2>6 DEF Fails, OnRunner
    <3>2. /\ SameRunnersBut(r)
          /\ runners'[r] = [runners[r] EXCEPT !.status = "FAILED", !.pool = NoPool]
      BY <2>6, <3>1, FailedEffect DEF Fails
    <3>3. runners'[r].slots = runners[r].slots
      BY <3>1, <3>2 DEF RunnerRow
    <3>4. QED
      BY <2>1, <3>2, <3>3 DEF SameRunnersBut
  <2>7. QED
    BY <2>2, <2>3, <2>4, <2>5, <2>6 DEF TaskStep
<1>5. Registered'
  <2>1. ASSUME NEW q \in Runners, NEW i \in SlotIdx,
               \/ runners'[q].status = "ACTIVE" /\ ~runners'[q].slots[i].starting
               \/ Confirmed(runners'[q].slots[i])
        PROVE  github'[q][i] # "unborn"
    BY <1>3, <1>4, <2>1 DEF Registered, Lasting
  <2>2. ASSUME NEW d \in Reapers, task'[d].pc \in OnRunner, NEW i \in SlotIdx,
               Confirmed(task'[d].row.slots[i])
        PROVE  github'[task'[d].runner][i] # "unborn"
    BY <1>1, <1>2, <1>3, <2>2 DEF Registered, Lasting, SameTaskBut
  <2>3. QED
    BY <2>1, <2>2 DEF Registered
<1>6. Removed'
  <2>1. ASSUME NEW d \in Reapers \ {c}, NEW i \in SlotIdx,
               Confirmed(task'[d].row.slots[i]),
               \/ task'[d].pc = "deregister" /\ ~task'[d].busy /\ i < task'[d].next
               \/ task'[d].pc = "terminate"
        PROVE  github'[task'[d].runner][i] = "gone"
    BY <1>1, <1>3, <2>1 DEF Removed, Lasting, SameTaskBut, OnRunner
  <2>2. ASSUME NEW i \in SlotIdx, Confirmed(s.row.slots[i]),
               s.pc = "deregister" /\ ~s.busy /\ i < s.next
        PROVE  github'[s.runner][i] = "gone"
    <3>1. s.runner = r /\ s.row = t.row /\ t.pc \in OnRunner /\ r \in Runners
      BY <1>1, <1>2, <2>2 DEF OnRunner
    <3>2. ~(i < 0)
      BY DEF SlotIdx
    <3>3. CASE Removes(c)
      <4>1. /\ t.pc = "deregister" /\ t.next \in SlotIdx /\ s.next = t.next + 1
            /\ ~t.busy /\ github[r][t.next] # "busy"
            /\ github' = [github EXCEPT ![r][t.next] = IF @ = "idle" THEN "gone" ELSE @]
        BY <2>2, <3>3 DEF Removes, RemoveRunner, BusyOnGitHub
      <4>2. CASE i = t.next
        <5>1. github[r][i] # "unborn"
          BY <2>2, <3>1 DEF Registered
        <5>2. QED
          BY <1>1, <3>1, <4>1, <4>2, <5>1 DEF Process
      <4>3. CASE i < t.next
        <5>1. github[r][i] = "gone"
          BY <2>2, <3>1, <4>1, <4>3 DEF Removed
        <5>2. QED
          BY <1>3, <3>1, <5>1 DEF Lasting
      <4>4. QED
        BY <2>2, <4>1, <4>2, <4>3 DEF SlotIdx
    <3>4. CASE s.next = 0
      BY <2>2, <3>2, <3>4
    <3>5. CASE Thinks(c)
      <4>1. t.pc = "track" /\ s.next = t.next
        BY <1>1, <2>2, <3>5 DEF Thinks
      <4>2. QED
        BY <1>1, <3>4, <4>1 DEF Recalls
    <3>6. CASE Drains(c) \/ Terminates(c) \/ Records(c) \/ Reverts(c) \/ Fails(c)
      BY <1>1, <2>2, <3>4, <3>6 DEF Drains, Terminates, Records, Reverts, Fails
    <3>7. QED
      BY <3>3, <3>5, <3>6 DEF TaskStep
  <2>3. ASSUME NEW i \in SlotIdx, Confirmed(s.row.slots[i]), s.pc = "terminate"
        PROVE  github'[s.runner][i] = "gone"
    <3>1. s.runner = r /\ s.row = t.row /\ t.pc \in OnRunner /\ r \in Runners
      BY <1>1, <1>2, <2>3 DEF OnRunner
    <3>2. t.pc = "deregister" /\ t.next = RunnerCount /\ ~t.busy
      BY <1>1, <2>3 DEF TaskStep, Thinks, Drains, Removes, Terminates, Records, Reverts, Fails
    <3>3. i < RunnerCount
      BY RunnerCountAssumption DEF SlotIdx
    <3>4. QED
      BY <1>3, <2>3, <3>1, <3>2, <3>3 DEF Removed, Lasting
  <2>4. QED
    BY <2>1, <2>2, <2>3 DEF Removed
<1>7. QED
  BY <1>5, <1>6

\* No sweep ends the instance under a job that GitHub runs on it, whatever GitHub assigns,
\* and whatever other sweeps do, while this one is at work.
THEOREM JobsSpared == FleetSpec => []RunningSpared
<1>1. FleetInit => Registered /\ Removed
  <2>1. ASSUME FleetInit PROVE Registered /\ Removed
    <3>1. /\ \A r \in Runners, i \in SlotIdx : runners[r].status = "ABSENT"
                                              /\ runners[r].slots[i] = PlaceholderSlot
          /\ \A c \in Reapers : task[c].pc = "none"
      BY <2>1, NoTaskFacts DEF FleetInit, Init, TableInit, NoRunnerRow, UnboundRunner
    <3>2. QED
      BY <3>1 DEF Registered, Removed, Confirmed, OnRunner
  <2>2. QED
    BY <2>1
<1>2. FleetInv /\ Registered /\ Removed /\ [FleetNext]_fleetVars => Registered' /\ Removed'
  BY FleetSteps, NextRegistered, OutsideRegistered, TakesRegistered, TaskRegistered
  DEF FleetInv
<1>3. Removed => RunningSpared
  BY DEF Removed, RunningSpared, Doing
<1>4. QED
  BY <1>1, <1>2, <1>3, FleetInductive, PTL DEF FleetSpec

-----------------------------------------------------------------------------
(***************************************************************************)
(* The fleet implements Life.                                              *)
(***************************************************************************)

stage == [r \in Runners |-> LifePhase(runners[r])]
tenancy == [r \in Runners |-> BoundTo(r)]

LEMMA Phases ==
  ASSUME TableTypeOK, NEW r \in Runners
  PROVE  /\ runners[r].status = "ABSENT" => stage[r] = "new"
         /\ runners[r].status = "PROVISIONING" => stage[r] = "launching"
         /\ runners[r].status = "ACTIVE" => stage[r] = "serving"
         /\ runners[r].status = "TERMINATING" => stage[r] = "draining"
         /\ runners[r].status \in {"TERMINATED", "FAILED"} => stage[r] = "dead"
BY DEF stage, LifePhase

LEMMA StageStays ==
  ASSUME TableTypeOK, \A q \in Runners : runners'[q].status = runners[q].status
  PROVE  stage' = stage
<1>1. \A q \in Runners : LifePhase(runners'[q]) = LifePhase(runners[q])
  BY DEF LifePhase
<1>2. QED
  BY <1>1 DEF stage

LEMMA StageMoves ==
  ASSUME NEW r \in Runners, SameRunnersBut(r)
  PROVE  /\ runners'[r].status = "PROVISIONING" => stage' = [stage EXCEPT ![r] = "launching"]
         /\ runners'[r].status = "ACTIVE" => stage' = [stage EXCEPT ![r] = "serving"]
         /\ runners'[r].status = "TERMINATING" => stage' = [stage EXCEPT ![r] = "draining"]
         /\ runners'[r].status \in {"TERMINATED", "FAILED"} =>
              stage' = [stage EXCEPT ![r] = "dead"]
<1>1. stage' = [stage EXCEPT ![r] = LifePhase(runners'[r])]
  BY DEF stage, SameRunnersBut
<1>2. QED
  BY <1>1 DEF LifePhase

\* The jobs of a runner change with the row of a job that comes or goes.
LEMMA TenantsStay ==
  ASSUME \A j \in Jobs :
           /\ jobs'[j].status = "ALLOCATED" <=> jobs[j].status = "ALLOCATED"
           /\ jobs[j].status = "ALLOCATED" => jobs'[j].runner = jobs[j].runner
  PROVE  tenancy' = tenancy
<1>1. \A r \in Runners : BoundTo(r)' = BoundTo(r)
  BY DEF BoundTo
<1>2. QED
  BY <1>1 DEF tenancy

LEMMA TenantComes ==
  ASSUME NEW j \in Jobs, SameJobsBut(j), jobs[j].status # "ALLOCATED",
         jobs'[j].status = "ALLOCATED", NEW r \in Runners, jobs'[j].runner = r
  PROVE  tenancy' = [tenancy EXCEPT ![r] = @ \cup {j}]
<1>1. \A q \in Runners \ {r} : BoundTo(q)' = BoundTo(q)
  BY DEF BoundTo, SameJobsBut
<1>2. BoundTo(r)' = BoundTo(r) \cup {j}
  BY DEF BoundTo, SameJobsBut
<1>3. QED
  BY <1>1, <1>2 DEF tenancy

LEMMA TenantGoes ==
  ASSUME NEW j \in Jobs, SameJobsBut(j), jobs'[j].status # "ALLOCATED"
  PROVE  \/ tenancy' = tenancy
         \/ \E r \in Runners : tenancy' = [tenancy EXCEPT ![r] = @ \ {j}]
<1>1. CASE jobs[j].status = "ALLOCATED" /\ jobs[j].runner \in Runners
  <2> PICK r \in Runners : jobs[j].runner = r
    BY <1>1
  <2>1. \A q \in Runners \ {r} : BoundTo(q)' = BoundTo(q)
    BY DEF BoundTo, SameJobsBut
  <2>2. BoundTo(r)' = BoundTo(r) \ {j}
    BY DEF BoundTo, SameJobsBut
  <2>3. tenancy' = [tenancy EXCEPT ![r] = @ \ {j}]
    BY <1>1, <2>1, <2>2 DEF tenancy
  <2>4. QED
    BY <1>1, <2>3
<1>2. CASE ~(jobs[j].status = "ALLOCATED" /\ jobs[j].runner \in Runners)
  <2>1. \A q \in Runners : BoundTo(q)' = BoundTo(q)
    BY <1>2 DEF BoundTo, SameJobsBut
  <2>2. QED
    BY <2>1 DEF tenancy
<1>3. QED
  BY <1>1, <1>2

LEMMA LivesInit == FleetInit => L!Init
<1>1. ASSUME FleetInit PROVE L!Init
  <2>1. /\ \A r \in Runners : runners[r].status = "ABSENT"
        /\ \A j \in Jobs : jobs[j].status = "ABSENT"
        /\ ec2 = [r \in Runners |-> FALSE]
    BY <1>1 DEF FleetInit, Init, TableInit, NoRunnerRow, NoJobRow, UnboundRunner, UnboundJob
  <2>2. [r \in Runners |-> LifePhase(runners[r])] = [r \in Runners |-> "new"]
    BY <2>1 DEF LifePhase
  <2>3. [r \in Runners |-> BoundTo(r)] = [r \in Runners |-> {}]
    BY <2>1 DEF BoundTo
  <2>4. QED
    BY <2>1, <2>2, <2>3 DEF L!Init
<1>2. QED
  BY <1>1

\* The steps of Life, of the fleet's stages and tenancies.
LEMMA LifeSteps ==
  ASSUME NEW r \in Runners,
         \/ stage' = stage /\ ec2' = ec2 /\ tenancy' = tenancy
         \/ /\ stage[r] = "new" /\ stage' = [stage EXCEPT ![r] = "launching"]
            /\ ec2' = ec2 /\ tenancy' = tenancy
         \/ /\ stage[r] = "launching" /\ ec2' = [ec2 EXCEPT ![r] = TRUE]
            /\ stage' = stage /\ tenancy' = tenancy
         \/ /\ stage[r] # "serving" \/ "spot" \in SweepFaults
            /\ ec2' = [ec2 EXCEPT ![r] = FALSE]
            /\ stage' = stage /\ tenancy' = tenancy
         \/ /\ stage[r] \in {"launching", "serving"}
            /\ stage' = [stage EXCEPT ![r] = "draining"]
            /\ ec2' = ec2 /\ tenancy' = tenancy
         \/ /\ stage[r] = "launching" \/ ~ec2[r]
            /\ stage[r] \in {"launching", "draining"} /\ stage' = [stage EXCEPT ![r] = "dead"]
            /\ ec2' = ec2 /\ tenancy' = tenancy
         \/ \E j \in Jobs :
              \/ /\ ec2[r] \/ "spot" \in SweepFaults
                 /\ stage[r] = "launching" /\ stage' = [stage EXCEPT ![r] = "serving"]
                 /\ tenancy' = [tenancy EXCEPT ![r] = {j}] /\ ec2' = ec2
              \/ /\ stage[r] = "serving" /\ tenancy' = [tenancy EXCEPT ![r] = @ \cup {j}]
                 /\ stage' = stage /\ ec2' = ec2
              \/ /\ j \in tenancy[r] /\ tenancy' = [tenancy EXCEPT ![r] = @ \ {j}]
                 /\ stage' = stage /\ ec2' = ec2
  PROVE  [L!Next]_(L!vars)
BY DEF L!Next, L!vars, L!Begin, L!TurnOn, L!TurnOff, L!Drain, L!Bury, L!Open, L!Enter, L!Leave,
       L!Move, stage, tenancy

LEMMA LifeStutters ==
  ASSUME stage' = stage, ec2' = ec2, tenancy' = tenancy
  PROVE  [L!Next]_(L!vars)
BY DEF L!vars, stage, tenancy

\* A job that is taken from its runner, by its completion or a sweep.
LEMMA LifeLeaves ==
  ASSUME stage' = stage, ec2' = ec2, NEW j \in Jobs, SameJobsBut(j),
         jobs'[j].status # "ALLOCATED"
  PROVE  [L!Next]_(L!vars)
<1>1. CASE tenancy' = tenancy
  BY <1>1, LifeStutters
<1>2. CASE \E r \in Runners : tenancy' = [tenancy EXCEPT ![r] = @ \ {j}]
  <2>1. PICK r \in Runners : tenancy' = [tenancy EXCEPT ![r] = @ \ {j}]
    BY <1>2
  <2>2. CASE j \in tenancy[r]
    BY <2>1, <2>2, LifeSteps
  <2>3. CASE j \notin tenancy[r]
    <3>1. tenancy' = tenancy
      BY <2>1, <2>3 DEF tenancy
    <3>2. QED
      BY <3>1, LifeStutters
  <2>4. QED
    BY <2>2, <2>3
<1>3. QED
  BY <1>1, <1>2, TenantGoes

LEMMA SameTenants == jobs' = jobs => tenancy' = tenancy
BY DEF tenancy, BoundTo

\* A runner opens with a job, and no other job was given a slot of it before.
LEMMA LifeOpens ==
  ASSUME FleetTyped, LifeInv, NEW w \in Workers, Binds(w)
  PROVE  [L!Next]_(L!vars)
<1> USE RunnerFacts DEF FleetTyped, LifeInv
<1>1. PICK r \in Runners : r = inv[w].runner
  BY DEF Binds
<1>2. PICK j \in Jobs : j = JobOf(w)
  BY DEF Binds
<1>3. /\ SameRunnersBut(r) /\ SameJobsBut(j) /\ ec2' = ec2
      /\ runners[r].status = "PROVISIONING" /\ runners'[r].status = "ACTIVE"
      /\ jobs[j].status = "PROVISIONING"
      /\ jobs'[j].status = "ALLOCATED" /\ jobs'[j].runner = r
  BY <1>1, <1>2, BoundRow DEF Binds
<1>4. stage[r] = "launching" /\ stage' = [stage EXCEPT ![r] = "serving"]
  BY <1>3, Phases, StageMoves
<1>5. tenancy' = [tenancy EXCEPT ![r] = {j}]
  <2>1. tenancy' = [tenancy EXCEPT ![r] = @ \cup {j}]
    BY <1>3, TenantComes
  <2>2. tenancy[r] = {}
    BY <1>3 DEF tenancy, BoundTo, Tenanted
  <2>3. QED
    BY <2>1, <2>2 DEF tenancy
<1>6. ec2[r] \/ "spot" \in SweepFaults
  BY <1>1, <1>3 DEF Binds, Powered, StaysUp
<1>7. QED
  BY <1>3, <1>4, <1>5, <1>6, LifeSteps

\* Every step of an invocation is a step of the life of its runner, or a stutter.
LEMMA ProvidedLives ==
  ASSUME FleetTyped, LifeInv, NEW w \in Workers, RunnerStep(w),
         ec2' \in [Runners -> BOOLEAN],
         jobs' = jobs \/ \E j \in Jobs : SameJobsBut(j)
  PROVE  [L!Next]_(L!vars)
<1> USE RunnerFacts DEF FleetTyped
<1>1. CASE Elsewhere(w)
  <2>1. stage' = stage /\ ec2' = ec2
    BY <1>1, StageStays DEF Elsewhere
  <2>2. ASSUME NEW j \in Jobs, SameJobsBut(j), jobs'[j].status = "ALLOCATED"
        PROVE  tenancy' = tenancy
    BY <1>1, <2>2, TenantsStay DEF Elsewhere, SameJobsBut
  <2>3. QED
    BY <2>1, <2>2, SameTenants, LifeStutters, LifeLeaves
<1>2. CASE Opens(w)
  <2>1. PICK r \in Runners :
          /\ runners[r].status = "ABSENT" /\ SameRunnersBut(r)
          /\ runners'[r] = NewProvisioningRunner(inv[w].profile)
    BY <1>2 DEF Opens
  <2>2. runners'[r].status = "PROVISIONING"
    BY <1>2, <2>1, NewRow DEF Opens
  <2>3. stage[r] = "new" /\ stage' = [stage EXCEPT ![r] = "launching"]
    BY <2>1, <2>2, Phases, StageMoves
  <2>4. QED
    BY <1>2, <2>3, SameTenants, LifeSteps DEF Opens
<1>3. CASE Starts(w)
  <2>1. PICK r \in Runners : r = inv[w].runner
    BY <1>3 DEF Starts
  <2>2. stage[r] = "launching" /\ ~ec2[r] /\ SameEc2But(r)
    BY <1>3, <2>1, Phases DEF Starts, LifeInv, LaunchInv, LaunchStages, Unnamed
  <2>3. ec2' = ec2 \/ ec2' = [ec2 EXCEPT ![r] = TRUE]
    <3>1. ec2' \in [Runners -> BOOLEAN]
      OBVIOUS
    <3>2. QED
      BY <2>2, <3>1 DEF SameEc2But
  <2>4. stage' = stage /\ tenancy' = tenancy
    BY <1>3, StageStays, SameTenants DEF Starts
  <2>5. QED
    BY <2>2, <2>3, <2>4, LifeStutters, LifeSteps
<1>4. CASE Names(w)
  <2>1. \A q \in Runners : runners'[q].status = runners[q].status
    BY <1>4 DEF Names, SameRunnersBut, RunnerRow
  <2>2. QED
    BY <1>4, <2>1, StageStays, SameTenants, LifeStutters DEF Names
<1>5. CASE Drops(w)
  <2>1. PICK r \in Runners : r = inv[w].runner
    BY <1>5 DEF Drops
  <2>2. runners[r].status = "PROVISIONING"
    BY <1>5, <2>1 DEF Drops, LifeInv, LaunchInv, LaunchStages, Unnamed
  <2>3. SameRunnersBut(r) /\ runners'[r].status = "FAILED"
    BY <1>5, <2>1 DEF Drops, RunnerRow
  <2>4. stage[r] = "launching" /\ stage' = [stage EXCEPT ![r] = "dead"]
    BY <2>2, <2>3, Phases, StageMoves
  <2>5. QED
    BY <1>5, <2>4, SameTenants, LifeSteps DEF Drops
<1>6. CASE Binds(w)
  BY <1>6, LifeOpens
<1>7. CASE Shares(w)
  <2>1. PICK c \in Candidate : AllocateIdleRunner(c, JobOf(w))
    BY <1>7 DEF Shares
  <2>2. PICK j \in Jobs : j = JobOf(w)
    BY <1>7 DEF Shares
  <2>3. PICK r \in Runners : r = c.runner
    BY DEF Candidate
  <2>4. /\ SameJobsBut(j) /\ SameRunnerStatus /\ runners[r].status = "ACTIVE"
        /\ jobs[j].status = "QUEUED"
        /\ jobs'[j] = [jobs[j] EXCEPT !.status = "ALLOCATED",
                                      !.runner = r, !.slot = c.slot]
    <3>1. /\ SameJobsBut(j) /\ SameRunnerStatus /\ CanAllocate(c, j)
          /\ jobs'[j] = [jobs[j] EXCEPT !.status = "ALLOCATED",
                                        !.runner = c.runner, !.slot = c.slot]
      BY <2>1, <2>2, AllocateEffect
    <3>2. QED
      BY <2>3, <3>1 DEF CanAllocate
  <2>5. jobs'[j].status = "ALLOCATED" /\ jobs'[j].runner = r
    BY <2>4 DEF TableTypeOK, JobRow
  <2>6. tenancy' = [tenancy EXCEPT ![r] = @ \cup {j}]
    BY <2>4, <2>5, TenantComes
  <2>7. stage[r] = "serving" /\ stage' = stage
    BY <2>4, Phases, StageStays DEF SameRunnerStatus
  <2>8. QED
    BY <1>7, <2>6, <2>7, LifeSteps DEF Shares
<1>8. CASE Frees(w)
  <2>1. SameRunnerStatus /\ jobs' = jobs /\ ec2' = ec2
    BY <1>8, MarkIdleEffect DEF Frees
  <2>2. QED
    BY <2>1, StageStays, SameTenants, LifeStutters DEF SameRunnerStatus
<1>9. QED
  BY <1>1, <1>2, <1>3, <1>4, <1>5, <1>6, <1>7, <1>8 DEF RunnerStep

\* A row and an instance that a sweep, EC2 or a callback changes, and no job.
LEMMA SweptLives ==
  ASSUME FleetTyped, RowInv, jobs' = jobs, NEW r \in Runners, SweptRow(r), SameRunnersBut(r),
         SameEc2But(r), ec2' \in [Runners -> BOOLEAN]
  PROVE  [L!Next]_(L!vars)
<1> USE FleetFacts
<1>1. tenancy' = tenancy
  BY SameTenants
<1>2. CASE ec2'[r] = ec2[r]
  <2>1. ec2' = ec2
    BY <1>2 DEF SameEc2But
  <2>2. CASE runners'[r].status = runners[r].status
    <3>1. stage' = stage
      BY <2>2, StageStays DEF SameRunnersBut
    <3>2. QED
      BY <1>1, <2>1, <3>1, LifeStutters
  <2>3. CASE runners[r].status \in {"PROVISIONING", "ACTIVE"}
             /\ runners'[r].status = "TERMINATING"
    <3>1. /\ stage[r] \in {"launching", "serving"}
          /\ stage' = [stage EXCEPT ![r] = "draining"]
      BY <2>3, Phases, StageMoves
    <3>2. QED
      BY <1>1, <2>1, <3>1, LifeSteps
  <2>4. CASE /\ runners'[r].status \in {"FAILED", "TERMINATED"}
             /\ runners[r].status \in Dying \cup {"PROVISIONING"}
             /\ runners[r].status \in {"PROVISIONING", "TERMINATED", "FAILED"} \/ ~ec2[r]
    <3>1. stage' = [stage EXCEPT ![r] = "dead"]
      BY <2>4, StageMoves
    <3>2. CASE runners[r].status \in {"TERMINATED", "FAILED"}
      <4>1. stage[r] = "dead"
        BY <3>2, Phases
      <4>2. stage' = stage
        BY <3>1, <4>1 DEF stage
      <4>3. QED
        BY <1>1, <2>1, <4>2, LifeStutters
    <3>3. CASE runners[r].status \in {"PROVISIONING", "TERMINATING"}
      <4>1. IF runners[r].status = "PROVISIONING" THEN stage[r] = "launching"
                                                  ELSE stage[r] = "draining"
        BY <3>3, Phases
      <4>2. QED
        BY <1>1, <2>1, <2>4, <3>1, <3>3, <4>1, LifeSteps
    <3>4. QED
      BY <2>4, <3>2, <3>3 DEF Dying
  <2>5. QED
    <3>1. \/ runners'[r].status = runners[r].status
          \/ /\ runners[r].status \in {"PROVISIONING", "ACTIVE"}
             /\ runners'[r].status = "TERMINATING"
          \/ /\ runners'[r].status \in {"FAILED", "TERMINATED"}
             /\ runners[r].status \in Dying \cup {"PROVISIONING"}
             /\ \/ runners[r].status \in {"PROVISIONING", "TERMINATED", "FAILED"}
                \/ ~ec2[r]
      <4>1. runners[r].status \in RunnerStatus \cup {"ABSENT"}
        BY DEF RunnerRow
      <4>2. QED
        BY <4>1 DEF RowInv, SweptRow, Dying, RunnerStatus
    <3>2. QED
      BY <2>2, <2>3, <2>4, <3>1
<1>3. CASE ec2'[r] # ec2[r]
  <2>1. ec2' = [ec2 EXCEPT ![r] = FALSE]
    BY <1>3 DEF SweptRow, SameEc2But
  <2>2. /\ runners'[r].status = runners[r].status
        /\ runners[r].status # "ACTIVE" \/ "spot" \in SweepFaults
    BY <1>3 DEF SweptRow
  <2>3. stage' = stage
    BY <2>2, StageStays DEF SameRunnersBut
  <2>4. stage[r] # "serving" \/ "spot" \in SweepFaults
    BY <2>2, Phases DEF RunnerRow, RunnerStatus
  <2>5. QED
    BY <1>1, <2>1, <2>3, <2>4, LifeSteps
<1>4. QED
  BY <1>2, <1>3

\* Every step of a task changes one row and its instance, or one job.
LEMMA TaskLives ==
  ASSUME FleetInv, FleetTyped', NEW c \in Reapers, TaskStep(c)
  PROVE  [L!Next]_(L!vars)
<1> DEFINE t == task[c]
<1> USE FleetFacts DEF FleetInv, LifeInv
<1>1. /\ Recalls(t) /\ t \in Task /\ t.retry \in Nat /\ (\A r \in Runners : SweptRow(r))
      /\ ec2' \in [Runners -> BOOLEAN]
  BY TaskSwept DEF FleetTyped, Typed, TypeOK
<1>2. ASSUME NEW r \in Runners, jobs' = jobs, SameRunnersBut(r), SameEc2But(r)
      PROVE  [L!Next]_(L!vars)
  BY <1>1, <1>2, SweptLives
<1>3. CASE Thinks(c) \/ Removes(c)
  BY <1>3, SameTenants, StageStays, LifeStutters DEF Thinks, Removes, vars
<1>4. CASE Drains(c)
  <2>1. t.runner \in Runners /\ ec2' = ec2
    BY <1>1, <1>4 DEF Drains, Recalls, OnRunner
  <2>2. jobs' = jobs /\ SameRunnersBut(t.runner)
    BY <1>4, <2>1, TerminatingEffect DEF Drains
  <2>3. QED
    BY <1>2, <2>1, <2>2 DEF SameEc2But
<1>5. CASE Terminates(c)
  <2>1. t.runner \in Runners /\ jobs' = jobs /\ runners' = runners
    BY <1>1, <1>5 DEF Terminates, Recalls, OnRunner, table
  <2>2. SameRunnersBut(t.runner) /\ SameEc2But(t.runner)
    BY <1>5, <2>1 DEF Terminates, SameRunnersBut, SameEc2But
  <2>3. QED
    BY <1>2, <2>1, <2>2
<1>6. CASE Records(c)
  <2>1. t.runner \in Runners /\ t.row.slots \in [SlotIdx -> Slot] /\ ec2' = ec2
    BY <1>1, <1>6 DEF Records, Recalls, OnRunner, Task, RunnerRow
  <2>2. jobs' = jobs /\ SameRunnersBut(t.runner)
    BY <1>6, <2>1, TerminatedEffect DEF Records
  <2>3. QED
    BY <1>2, <2>1, <2>2 DEF SameEc2But
<1>7. CASE Reverts(c)
  <2>1. PICK j \in Jobs : j = t.job
    BY <1>1, <1>7 DEF Reverts, Recalls
  <2>2. /\ runners' = runners /\ ec2' = ec2 /\ SameJobsBut(j)
        /\ jobs' = jobs \/ jobs'[j].status # "ALLOCATED"
    <3>1. CASE RevertAllocation(j, t.retry)
      BY <1>1, <1>7, <3>1, RevertAllocationEffect DEF Reverts
    <3>2. CASE RevertProvisioning(j, t.retry)
      <4> DEFINE n == t.retry
      <4>1. /\ runners' = runners /\ SameJobsBut(j) /\ jobs[j] \in JobRow
            /\ \/ jobs'[j] = [jobs[j] EXCEPT !.status = "FAILED", !.retry = n + 1]
               \/ jobs'[j] = [jobs[j] EXCEPT !.status = "QUEUED", !.retry = n + 1]
               \/ jobs' = jobs
        BY <1>1, <3>2, RevertEffect
      <4> HIDE DEF n
      <4>2. QED
        BY <1>7, <4>1 DEF Reverts, JobRow
    <3>3. QED
      BY <1>7, <2>1, <3>1, <3>2 DEF Reverts
  <2>3. stage' = stage
    BY <2>2, StageStays
  <2>4. QED
    BY <2>2, <2>3, SameTenants, LifeStutters, LifeLeaves
<1>8. CASE Fails(c)
  <2>1. t.runner \in Runners /\ ec2' = ec2
    BY <1>1, <1>8 DEF Fails, Recalls, OnRunner
  <2>2. jobs' = jobs /\ SameRunnersBut(t.runner)
    BY <1>8, <2>1, FailedEffect DEF Fails
  <2>3. QED
    BY <1>2, <2>1, <2>2 DEF SameEc2But
<1>9. QED
  BY <1>3, <1>4, <1>5, <1>6, <1>7, <1>8 DEF TaskStep

LEMMA OutsideLives ==
  ASSUME FleetInv, FleetTyped', Outside
  PROVE  [L!Next]_(L!vars)
<1> USE FleetFacts DEF FleetInv, LifeInv
<1>1. /\ jobs' = jobs /\ \A r \in Runners : SweptRow(r)
      /\ ec2' \in [Runners -> BOOLEAN]
  BY OutsideSwept, OutsideTyped DEF FleetTyped, Typed, TypeOK
<1>2. ASSUME NEW r \in Runners, SameRunnersBut(r), SameEc2But(r)
      PROVE  [L!Next]_(L!vars)
  BY <1>1, <1>2, SweptLives
<1>3. ASSUME NEW r \in Runners, NEW i \in SlotIdx, Boot(r, i) \/ PickUp(r, i) \/ Finish(r, i)
      PROVE  [L!Next]_(L!vars)
  <2>1. runners' = runners /\ ec2' = ec2
    BY <1>3 DEF Boot, PickUp, Finish, Becomes, vars
  <2>2. QED
    BY <1>2, <2>1 DEF SameRunnersBut, SameEc2But
<1>4. ASSUME NEW r \in Runners, NEW i \in SlotIdx, Ready(r, i)
      PROVE  [L!Next]_(L!vars)
  <2>1. SameRunnersBut(r) /\ ec2' = ec2
    BY <1>4, SlotReadyEffect DEF Ready
  <2>2. QED
    BY <1>2, <2>1 DEF SameEc2But
<1>5. ASSUME NEW r \in Runners, Reclaim(r)
      PROVE  [L!Next]_(L!vars)
  <2>1. SameRunnersBut(r) /\ SameEc2But(r)
    BY <1>5 DEF Reclaim, table, SameRunnersBut, SameEc2But
  <2>2. QED
    BY <1>2, <2>1
<1>6. QED
  BY <1>3, <1>4, <1>5 DEF Outside

LEMMA LivesStep ==
  ASSUME FleetInv, [FleetNext]_fleetVars
  PROVE  [L!Next]_(L!vars)
<1> USE DEF FleetInv
<1>1. FleetTyped'
  BY FleetTypedStep
<1>2. CASE [Next]_vars
  <2>1. jobs' = jobs \/ \E j \in Jobs : SameJobsBut(j)
    BY <1>2, JobSteps DEF FleetTyped, JobStep, Respects
  <2>2. CASE UNCHANGED <<jobs, runners, inv, ec2>>
    BY <2>2, FleetFacts, SameTenants, StageStays, LifeStutters
  <2>3. ASSUME NEW w \in Workers, RunnerStep(w) PROVE [L!Next]_(L!vars)
    <3>1. ec2' \in [Runners -> BOOLEAN]
      BY <1>1, <1>2 DEF FleetTyped, Typed, TypeOK
    <3>2. QED
      BY <2>1, <2>3, <3>1, ProvidedLives
  <2>4. QED
    BY <1>2, <2>2, <2>3, RunnerSteps DEF FleetTyped
<1>3. CASE UNCHANGED <<vars, githubVars>>
  BY <1>3, FleetFacts, SameTenants, StageStays, LifeStutters DEF vars
<1>4. QED
  BY <1>1, <1>2, <1>3, FleetSteps, OutsideLives, TaskLives

\* However many invocations and sweeps overlap, fail or die, and whatever EC2 takes back,
\* an instance goes through its life once and in order, is given jobs only while it
\* serves, and is not turned off by the Lambdas meanwhile: the fleet implements Life.
THEOREM FleetImplementsLife == FleetSpec => Lives
<1>1. FleetInv /\ [FleetNext]_fleetVars => [L!Next]_(L!vars)
  BY LivesStep
<1>2. QED
  BY <1>1, LivesInit, FleetInductive, PTL DEF FleetSpec, Lives, L!Spec

-----------------------------------------------------------------------------
(***************************************************************************)
(* What jobs have of a runner that a sweep takes away.                     *)
(***************************************************************************)

\* Of a row that is not dying afterwards a task, EC2 and the callback of a slot leave every
\* slot with its status and its job.
LEMMA SlotsKept ==
  ASSUME FleetTyped, Outside \/ \E c \in Reapers : TaskStep(c),
         NEW r \in Runners, runners'[r].status \notin Dying, NEW i \in SlotIdx
  PROVE  /\ runners'[r].slots[i].status = runners[r].slots[i].status
         /\ runners'[r].slots[i].job = runners[r].slots[i].job
<1> USE FleetFacts
<1>1. CASE runners' = runners
  BY <1>1
<1>2. ASSUME NEW q \in Runners, SameRunnersBut(q), runners'[q].status \in Dying
      PROVE  runners'[r] = runners[r]
  BY <1>2 DEF SameRunnersBut
<1>3. ASSUME NEW c \in Reapers, TaskStep(c), runners' # runners
      PROVE  runners'[r] = runners[r]
  <2>1. Drains(c) \/ Records(c) \/ Fails(c)
    BY <1>3 DEF TaskStep, Thinks, Removes, Terminates, Reverts, RevertAllocation,
                RevertProvisioning, table, vars
  <2>2. PICK q \in Runners : q = task[c].runner
    BY <2>1 DEF Drains, Records, Fails, Recalls, OnRunner
  <2>3. CASE Drains(c)
    <3>1. /\ SameRunnersBut(q)
          /\ runners'[q] = [runners[q] EXCEPT !.status = "TERMINATING", !.pool = NoPool]
      BY <2>2, <2>3, TerminatingEffect DEF Drains
    <3>2. QED
      BY <1>2, <3>1 DEF RunnerRow, Dying
  <2>4. CASE Records(c)
    <3>1. task[c].row.slots \in [SlotIdx -> Slot]
      BY DEF Task, RunnerRow
    <3>2. /\ SameRunnersBut(q)
          /\ runners'[q] = [runners[q] EXCEPT !.status = "TERMINATED",
                                              !.slots = task[c].row.slots]
      BY <2>2, <2>4, <3>1, TerminatedEffect DEF Records
    <3>3. QED
      BY <1>2, <3>2 DEF RunnerRow, Dying
  <2>5. CASE Fails(c)
    <3>1. /\ SameRunnersBut(q)
          /\ runners'[q] = [runners[q] EXCEPT !.status = "FAILED", !.pool = NoPool]
      BY <2>2, <2>5, FailedEffect DEF Fails
    <3>2. QED
      BY <1>2, <3>1 DEF RunnerRow, Dying
  <2>6. QED
    BY <2>1, <2>3, <2>4, <2>5
<1>4. ASSUME NEW q \in Runners, NEW k \in SlotIdx, Ready(q, k)
      PROVE  /\ runners'[r].slots[i].status = runners[r].slots[i].status
             /\ runners'[r].slots[i].job = runners[r].slots[i].job
  <2>1. /\ SameRunnersBut(q)
        /\ \A n \in SlotIdx \ {k} : runners'[q].slots[n] = runners[q].slots[n]
        /\ runners'[q].slots[k] = [runners[q].slots[k] EXCEPT !.starting = FALSE]
    BY <1>4, SlotReadyEffect DEF Ready
  <2>2. runners[q].slots[k] \in Slot
    BY DEF RunnerRow
  <2>3. /\ runners'[q].slots[k].status = runners[q].slots[k].status
        /\ runners'[q].slots[k].job = runners[q].slots[k].job
    BY <2>1, <2>2 DEF Slot
  <2>4. QED
    BY <2>1, <2>3 DEF SameRunnersBut
<1>5. ASSUME Outside, runners' # runners
      PROVE  \E q \in Runners, k \in SlotIdx : Ready(q, k)
  BY <1>5 DEF Outside, Boot, PickUp, Finish, Becomes, Reclaim, table, vars
<1>6. QED
  BY <1>1, <1>3, <1>4, <1>5

\* What a task may do to the row of a job.
RevertedJob(j) ==
  \/ jobs'[j] = jobs[j]
  \/ /\ jobs'[j].runner = NoRunner
     /\ \/ jobs'[j].status = "FAILED"
        \/ jobs[j].status = "ALLOCATED" /\ jobs'[j].status = "QUEUED"
  \/ /\ jobs'[j].runner = jobs[j].runner /\ jobs'[j].slot = jobs[j].slot
     /\ \/ jobs'[j].status = "FAILED"
        \/ jobs[j].status = "PROVISIONING" /\ jobs'[j].status = "QUEUED"

LEMMA JobsReverted ==
  ASSUME FleetTyped, NEW c \in Reapers, TaskStep(c)
  PROVE  /\ \A j \in Jobs : RevertedJob(j)
         /\ jobs' # jobs => Reverts(c) /\ task[c].job \in Jobs /\ SameJobsBut(task[c].job)
<1> USE FleetFacts
<1>1. CASE jobs' = jobs
  BY <1>1 DEF RevertedJob
<1>2. CASE jobs' # jobs
  <2>1. Reverts(c)
    BY <1>2 DEF TaskStep, Thinks, Drains, Removes, Terminates, Records, Fails, vars, table,
                TransitionToTerminating, MarkTerminated, MarkRunnerFailed
  <2>2. PICK j \in Jobs : j = task[c].job
    BY <2>1 DEF Reverts, Recalls
  <2>3. PICK n \in Nat : n = task[c].retry
    OBVIOUS
  <2>4. CASE RevertAllocation(j, n)
    BY <2>1, <2>2, <2>4, RevertAllocationEffect DEF RevertedJob, SameJobsBut
  <2>5. CASE RevertProvisioning(j, n)
    <3>1. /\ SameJobsBut(j) /\ jobs[j] \in JobRow
          /\ \/ jobs'[j] = [jobs[j] EXCEPT !.status = "FAILED", !.retry = n + 1]
             \/ /\ jobs[j].status = "PROVISIONING"
                /\ jobs'[j] = [jobs[j] EXCEPT !.status = "QUEUED", !.retry = n + 1]
             \/ jobs' = jobs
      BY <2>5, RevertEffect
    <3>2. RevertedJob(j)
      BY <3>1 DEF RevertedJob, JobRow
    <3>3. QED
      BY <2>1, <2>2, <3>1, <3>2 DEF RevertedJob, SameJobsBut
  <2>6. QED
    BY <2>1, <2>2, <2>3, <2>4, <2>5 DEF Reverts
<1>3. QED
  BY <1>1, <1>2

\* Seats is kept by what is not a step of an invocation.
LEMMA SeatsLeft ==
  ASSUME FleetTyped, Unbound, Once, Seats, UNCHANGED provisionVars,
         \A r \in Runners : SweptRow(r), \A j \in Jobs : RevertedJob(j),
         \A r \in Runners, i \in SlotIdx : runners'[r].status = "ACTIVE" =>
           /\ runners'[r].slots[i].status = runners[r].slots[i].status
           /\ runners'[r].slots[i].job = runners[r].slots[i].job
  PROVE  Unbound' /\ Once' /\ Seats'
<1> USE FleetFacts
<1>1. Unbound'
  BY DEF Unbound, Unstarted, RevertedJob, JobRow
<1>2. Once'
  BY DEF provisionVars, queueVars, Once, Carries, At
<1>3. ASSUME NEW r \in Runners, NEW i \in SlotIdx, NEW j \in Jobs, Seated(r, i, j)
      PROVE  Seated(r, i, j)'
  BY <1>3 DEF Seated, Holds, SweptRow, Dying
<1>4. ASSUME NEW j \in Jobs, Sits(j)'
      PROVE  jobs'[j].runner # NoRunner /\ Seated(jobs[j].runner, jobs[j].slot, j)'
  <2>1. Uncompleted(j)' => Uncompleted(j)
    BY DEF Uncompleted, provisionVars, queueVars, At, JobOf
  <2>2. Sits(j) /\ jobs'[j].runner = jobs[j].runner /\ jobs'[j].slot = jobs[j].slot
    BY <1>4, <2>1 DEF Sits, RevertedJob
  <2>3. PICK r \in Runners, i \in SlotIdx :
          r = jobs[j].runner /\ i = jobs[j].slot /\ Seated(r, i, j)
    BY <2>2 DEF Seats, JobRow
  <2>4. QED
    BY <1>3, <2>2, <2>3, TableConstants
<1>5. ASSUME NEW w \in Workers, inv[w].pc \in {"complete", "free"}, inv[w].runner # NoRunner
      PROVE  Seated(inv[w].runner, inv[w].slot, JobOf(w))'
  <2>1. JobOf(w) \in Jobs
    BY <1>5, CompletedCarries DEF FleetTyped
  <2>2. PICK r \in Runners, i \in SlotIdx, j \in Jobs :
          r = inv[w].runner /\ i = inv[w].slot /\ j = JobOf(w) /\ Seated(r, i, j)
    BY <1>5, <2>1 DEF Seats, Invocation
  <2>3. inv' = inv /\ Seated(r, i, j)'
    BY <1>3, <2>2 DEF provisionVars
  <2>4. QED
    BY <2>2, <2>3 DEF JobOf
<1>6. ASSUME NEW w \in Workers, inv[w].pc = "free" PROVE Over(JobOf(w))'
  <2>1. PICK j \in Jobs : j = JobOf(w) /\ Over(j)
    BY <1>6, CompletedCarries DEF FleetTyped, Seats, At
  <2>2. Over(j)'
    BY <2>1 DEF Over, RevertedJob
  <2>3. QED
    BY <2>1, <2>2 DEF Over, JobOf, provisionVars
<1>7. QED
  BY <1>1, <1>2, <1>4, <1>5, <1>6 DEF Seats, At, provisionVars

FleetSeats == FleetInv /\ Unbound /\ Once /\ Seats

LEMMA FleetSeatsStep ==
  ASSUME CompletedOnce, FleetSeats, [FleetNext]_fleetVars
  PROVE  FleetSeats'
<1> USE DEF FleetSeats
<1>1. FleetInv'
  BY FleetInvStep
<1>2. FleetTyped /\ Typed /\ LaunchInv
  BY DEF FleetInv, FleetTyped, LifeInv
<1>3. CASE [Next]_vars
  <2>1. Unbound'
    BY <1>2, <1>3, JobKept DEF Unbound
  <2>2. QED
    BY <1>1, <1>2, <1>3, <2>1, OnceStep, SeatsStep
<1>4. CASE Outside
  <2>1. /\ jobs' = jobs /\ \A r \in Runners : SweptRow(r)
    BY <1>2, <1>4, OutsideTyped, OutsideSwept
  <2>2. UNCHANGED provisionVars
    BY <1>4 DEF Outside, Boot, PickUp, Finish, Becomes, Ready, Reclaim, vars, provisionVars,
                queueVars
  <2>3. QED
    BY <1>1, <1>2, <1>4, <2>1, <2>2, SlotsKept, SeatsLeft DEF RevertedJob, Dying
<1>5. ASSUME NEW c \in Reapers, UNCHANGED <<vars, githubVars>> PROVE FleetSeats'
  <2>1. UNCHANGED provisionVars /\ jobs' = jobs /\ runners' = runners /\ ec2' = ec2
    BY <1>5 DEF vars, provisionVars, queueVars
  <2>2. QED
    BY <1>1, <1>2, <2>1, SeatsLeft DEF RevertedJob, SweptRow
<1>6. ASSUME NEW c \in Reapers, TaskStep(c) PROVE FleetSeats'
  <2>1. UNCHANGED provisionVars
    BY <1>6 DEF TaskStep, Thinks, Drains, Removes, Terminates, Records, Reverts, Fails, vars,
                provisionVars, queueVars
  <2>2. QED
    BY <1>1, <1>2, <1>6, <2>1, TaskSwept, JobsReverted, SlotsKept, SeatsLeft DEF Dying
<1>7. QED
  BY <1>2, <1>3, <1>4, <1>5, <1>6, FleetSteps

\* Only the write of the transition lets an expired runner go.
LEMMA ExpiryDrains ==
  ASSUME FleetInv, NEW c \in Reapers, Expires(c), [FleetNext]_fleetVars
  PROVE  Drains(c)
<1>1. task'[c] # task[c] /\ task[c].pc = "transition" /\ task'[c].pc = "deregister"
  BY DEF Expires, Doing
<1>2. FleetTyped
  BY DEF FleetInv
<1>3. ~([Next]_vars /\ UNCHANGED sweepVars) /\ ~Outside
  BY <1>1, <1>2, OutsideTyped DEF sweepVars
<1>4. ASSUME NEW d \in Reapers, Takes(d) PROVE FALSE
  BY <1>1, <1>4 DEF Takes, SameTaskBut
<1>5. PICK d \in Reapers : TaskStep(d)
  BY <1>2, <1>3, <1>4, FleetSteps
<1>6. d = c /\ NoTask.pc = "none"
  BY <1>1, <1>5, NoTaskFacts DEF TaskStep, SameTaskBut
<1>7. QED
  BY <1>1, <1>5, <1>6
  DEF TaskStep, Thinks, Removes, Terminates, Records, Reverts, Fails

\* A runner that was idle when the sweep read its row has no job when the sweep ends its
\* service, whatever was allocated or freed meanwhile: the condition of the transition on
\* the slots is enough, because a job sits in a BUSY slot until it is freed for it.
THEOREM IdleExpirySafe == CompletedOnce /\ FleetSpec => IdleExpiryHarmless
<1> DEFINE Step == \A c \in Reapers :
               Expires(c) /\ IdleSlots(task[c].row) = SlotIdx => BoundTo(task[c].runner) = {}
<1>1. FleetInit => FleetSeats
  BY FleetInvInit, SeatsInit, JobInvInit DEF FleetInit, FleetSeats, JobInv
<1>2. ASSUME FleetSeats, [FleetNext]_fleetVars PROVE Step
  <2>1. SUFFICES ASSUME NEW c \in Reapers, Expires(c), IdleSlots(task[c].row) = SlotIdx,
                        NEW j \in BoundTo(task[c].runner)
                 PROVE  FALSE
    OBVIOUS
  <2> DEFINE r == task[c].runner
  <2>2. FleetTyped /\ Drains(c)
    BY <1>2, <2>1, ExpiryDrains DEF FleetSeats, FleetInv
  <2>3. r \in Runners /\ CanTerminate(r, {task[c].row.slots})
    BY <2>1, <2>2, FleetFacts
    DEF Drains, Recalls, OnRunner, Expires, Observed, TransitionToTerminating
  <2>4. /\ runners[r].status \in {"PROVISIONING", "ACTIVE"}
        /\ \A i \in SlotIdx : runners[r].slots[i].status = "IDLE"
    BY <2>1, <2>3 DEF CanTerminate, IdleSlots
  <2>5. Seated(r, jobs[j].slot, j) /\ jobs[j].slot \in SlotIdx
    BY <1>2, <2>1, <2>2, FleetFacts DEF BoundTo, FleetSeats, Seats, Sits, JobRow
  <2>6. QED
    BY <2>4, <2>5 DEF Seated, Holds
<1>3. ASSUME CompletedOnce
      PROVE  FleetSpec => IdleExpiryHarmless
  <2>1. FleetSeats /\ [FleetNext]_fleetVars => FleetSeats' /\ [Step]_fleetVars
    BY <1>2, <1>3, FleetSeatsStep
  <2>2. QED
    BY <1>1, <2>1, PTL DEF FleetSpec, IdleExpiryHarmless
<1>4. QED
  BY <1>3
-----------------------------------------------------------------------------
(***************************************************************************)
(* What a sweep takes from a job, when one task is under way at a time.    *)
(***************************************************************************)

\* One task at a time, as in the run that checks RequeuedFromDead.
OneSweep == \A c, d \in Reapers : c = d

\* A job that is claimed or over is neither given to a runner nor claimed again.
Settling == {"PROVISIONING", "COMPLETED", "FAILED"}

\* ProvisioningLock, where a sweep may also have given the job up.
Locked ==
  \A w \in Workers : InSection(w) =>
    /\ jobs[JobOf(w)].status \in Settling
    /\ \A v \in Workers \ {w} : InSection(v) => JobOf(v) # JobOf(w)

\* Nobody comes to hold the claim that a sweep found stale.
Claims ==
  \A c \in Reapers : Doing(c, "revertClaim") =>
    jobs[task[c].job].status \in Settling /\ ~Claimed(task[c].job)

\* The job of a BUSY slot knows its runner.
TenantsNamed ==
  \A r \in Runners, i \in SlotIdx :
    /\ runners[r].status = "ACTIVE" /\ runners[r].slots[i].status = "BUSY"
    /\ runners[r].slots[i].job # NoJob
    => jobs[runners[r].slots[i].job].runner = r

\* The jobs that a sweep will revert are those of the runner it gave up.
GivenUp ==
  \A c \in Reapers : task[c].kind = "stuck" =>
    /\ task[c].runner \in Runners
    /\ \A j \in task[c].bound : jobs[j].runner = task[c].runner
    /\ task[c].pc # "transition" => runners[task[c].runner].status \in Dying
    /\ task[c].pc = "revert" => task[c].job \in task[c].bound
RevertsBound == \A c \in Reapers : Doing(c, "revert") => task[c].kind = "stuck"

SweepInv == Unbound /\ VacantSlots /\ Locked /\ Claims /\ TenantsNamed /\ GivenUp /\ RevertsBound
RequeueInv == FleetInv /\ SweepInv

LEMMA RequeueInit == FleetInit => RequeueInv
<1>1. ASSUME FleetInit PROVE SweepInv
  <2>1. /\ \A r \in Runners : runners[r].status = "ABSENT"
        /\ \A w \in Workers : inv[w].pc = "idle"
        /\ \A c \in Reapers : task[c].pc = "none" /\ task[c].kind = "none"
        /\ VacantSlots /\ Unbound
    BY <1>1, NoTaskFacts, VacantInit, JobInvInit
    DEF FleetInit, Init, TableInit, NoRunnerRow, UnboundRunner, Idle, JobInv
  <2>2. QED
    BY <2>1 DEF SweepInv, Locked, Claims, TenantsNamed, GivenUp, RevertsBound, InSection,
                Section, Doing
<1>2. QED
  BY <1>1, FleetInvInit DEF RequeueInv

\* A step of the provision Lambda.
LEMMA LockedProvided ==
  ASSUME Typed, Locked, [Next]_vars
  PROVE  /\ Locked'
         /\ \A v \in Workers : InSection(v)' =>
              /\ JobOf(v)' = JobOf(v) /\ JobOf(v) \in Jobs
              /\ InSection(v) \/ jobs[JobOf(v)].status = "QUEUED"
         /\ \A j \in Jobs : jobs[j].status \in Settling =>
              jobs'[j].status \in Settling \/ Claimed(j)
<1>1. CASE jobs' = jobs /\ inv' = inv
  <2>1. \A v \in Workers : InSection(v) => JobOf(v) \in Jobs
    BY JobOfType DEF InSection, At, Section
  <2>2. QED
    BY <1>1, <2>1 DEF Locked, InSection, JobOf
<1>2. CASE \E w \in Workers : JobStep(w)
  <2>1. PICK w \in Workers : SameInvBut(w) /\ Justified(w) /\ Respects(w)
    BY <1>2 DEF JobStep
  <2>2. \A j \in Jobs : jobs[j] \in JobRow
    BY DEF Typed, TypeOK, TableTypeOK
  <2>3. ASSUME NEW v \in Workers, InSection(v)'
        PROVE  /\ inv'[v].msg = inv[v].msg /\ JobOf(v) \in Jobs
               /\ jobs'[JobOf(v)].status \in Settling
               /\ v # w => InSection(v)
               /\ InSection(v) \/ jobs[JobOf(v)].status = "QUEUED"
    <3>1. v = w \/ inv'[v] = inv[v]
      BY <2>1 DEF SameInvBut
    <3>2. inv'[v].msg = inv[v].msg
      BY <2>1, <2>3, <3>1 DEF Justified, InSection
    <3>3. JobOf(v) \in Jobs
      <4>1. inv'[v].pc \in Known
        BY <2>3 DEF InSection, Known
      <4>2. CASE v = w
        BY <2>1, <4>1, <4>2 DEF Justified
      <4>3. CASE inv'[v] = inv[v]
        BY <2>3, <4>3, JobOfType DEF InSection, At, Section
      <4>4. QED
        BY <3>1, <4>2, <4>3
    <3>4. QED
      BY <2>1, <2>3, <3>1, <3>2, <3>3
      DEF Locked, InSection, JobOf, Justified, Respects, SameJobsBut, Settling
  <2>4. ASSUME NEW v \in Workers, NEW u \in Workers \ {v}, InSection(v)', InSection(u)'
        PROVE  JobOf(v)' # JobOf(u)'
    <3>1. JobOf(v)' = JobOf(v) /\ JobOf(u)' = JobOf(u)
      BY <2>3, <2>4 DEF JobOf
    <3>2. CASE InSection(v) /\ InSection(u)
      BY <3>1, <3>2 DEF Locked
    <3>3. ASSUME NEW x \in {u, v}, NEW y \in {u, v} \ {x}, InSection(y), ~InSection(x)
          PROVE  JobOf(x) # JobOf(y)
      BY <2>3, <2>4, <3>3 DEF Locked, Settling
    <3>4. QED
      BY <2>3, <2>4, <3>1, <3>2, <3>3
  <2>5. ASSUME NEW j \in Jobs, jobs[j].status \in Settling, jobs'[j].status \notin Settling
        PROVE  Claimed(j)
    <3>1. JobOf(w) = j /\ inv[w].pc \in Section
      BY <2>1, <2>5 DEF Respects, SameJobsBut, Settling
    <3>2. QED
      BY <3>1 DEF Claimed, InSection
  <2>6. QED
    BY <2>3, <2>4, <2>5 DEF Locked, JobOf
<1>3. QED
  BY <1>1, <1>2, JobSteps

LEMMA RequeueProvided ==
  ASSUME RequeueInv, [Next]_vars, UNCHANGED sweepVars
  PROVE  SweepInv'
<1> USE FleetFacts DEF RequeueInv, SweepInv
<1>1. FleetTyped /\ Typed /\ LaunchInv /\ PoolActive
  BY DEF FleetInv, FleetTyped, LifeInv, RowInv
<1>2. /\ Unbound' /\ VacantSlots' /\ Locked'
      /\ \A j \in Jobs : jobs[j].runner # NoRunner => jobs'[j].runner = jobs[j].runner
  BY <1>1, JobKept, VacantStep, LockedProvided DEF Unbound
<1>3. task' = task
  BY DEF sweepVars
<1>4. Claims'
  <2>1. ASSUME NEW c \in Reapers, Doing(c, "revertClaim")
        PROVE  jobs'[task[c].job].status \in Settling /\ ~Claimed(task[c].job)'
    <3>1. PICK j \in Jobs : j = task[c].job
      BY <1>1, <2>1 DEF Doing, Recalls
    <3>2. jobs[j].status \in Settling /\ ~Claimed(j)
      BY <2>1, <3>1 DEF Claims
    <3>3. jobs'[j].status \in Settling
      BY <1>1, <3>2, LockedProvided
    <3>4. \A v \in Workers : InSection(v)' => JobOf(v)' # j
      BY <1>1, <3>2, LockedProvided DEF Claimed, Settling
    <3>5. QED
      BY <1>3, <3>1, <3>3, <3>4 DEF Claimed
  <2>2. QED
    BY <1>3, <2>1 DEF Claims, Doing, Claimed
<1>5. TenantsNamed'
  <2>1. CASE UNCHANGED <<jobs, runners, inv, ec2>>
    BY <2>1 DEF TenantsNamed
  <2>2. ASSUME NEW w \in Workers, RunnerStep(w), NEW r \in Runners, NEW i \in SlotIdx,
               runners'[r].status = "ACTIVE", runners'[r].slots[i].status = "BUSY",
               runners'[r].slots[i].job # NoJob
        PROVE  jobs'[runners'[r].slots[i].job].runner = r
    <3>1. CASE Named(r, i)'
      BY <3>1 DEF Named
    <3>2. CASE /\ runners[r].status = "ACTIVE" /\ runners[r].slots[i].status = "BUSY"
               /\ runners'[r].slots[i].job = runners[r].slots[i].job
      <4>1. PICK j \in Jobs : j = runners[r].slots[i].job
        BY <1>1, <2>2, <3>2 DEF Slot
      <4>2. jobs[j].runner = r /\ r # NoRunner
        BY <2>2, <3>2, <4>1, TableConstants DEF TenantsNamed
      <4>3. QED
        BY <1>2, <3>2, <4>1, <4>2
    <3>3. QED
      BY <1>1, <2>2, <3>1, <3>2, BusyOrigin
  <2>3. QED
    BY <1>1, <2>1, <2>2, RunnerSteps DEF TenantsNamed
<1>6. GivenUp'
  <2>1. ASSUME NEW c \in Reapers, task[c].kind = "stuck"
        PROVE  /\ \A j \in task[c].bound : jobs'[j].runner = task[c].runner
               /\ task[c].pc # "transition" => runners'[task[c].runner].status \in Dying
    <3>1. PICK r \in Runners : r = task[c].runner /\ r # NoRunner
      BY <2>1, TableConstants DEF GivenUp
    <3>2. \A j \in task[c].bound : j \in Jobs /\ jobs'[j].runner = r
      BY <1>1, <1>2, <2>1, <3>1 DEF GivenUp, Task
    <3>3. runners[r].status \in Dying => runners'[r].status \in Dying
      <4>1. CASE UNCHANGED <<jobs, runners, inv, ec2>>
        BY <4>1
      <4>2. ASSUME NEW w \in Workers, RunnerStep(w)
            PROVE  runners[r].status \in Dying => runners'[r].status \in Dying
        BY <1>1, <4>2, ProvidedRows DEF ProvidedRow
      <4>3. QED
        BY <1>1, <4>1, <4>2, RunnerSteps
    <3>4. QED
      BY <2>1, <3>1, <3>2, <3>3 DEF GivenUp
  <2>2. QED
    BY <1>3, <2>1 DEF GivenUp
<1>7. RevertsBound'
  BY <1>3 DEF RevertsBound, Doing
<1>8. QED
  BY <1>2, <1>4, <1>5, <1>6, <1>7

\* The write of a task to the row of a job, by its step.
LEMMA RevertedHow ==
  ASSUME FleetTyped, NEW c \in Reapers, TaskStep(c), jobs' # jobs
  PROVE  /\ task[c].job \in Jobs /\ SameJobsBut(task[c].job)
         /\ \/ Doing(c, "revert")
            \/ /\ Doing(c, "revertClaim")
               /\ jobs'[task[c].job].runner = jobs[task[c].job].runner
         /\ \A j \in Jobs : jobs[j].status \in Settling =>
              jobs'[j].status \in Settling \/ (Doing(c, "revertClaim") /\ task[c].job = j)
<1> USE FleetFacts
<1>1. Reverts(c) /\ task[c].job \in Jobs /\ SameJobsBut(task[c].job)
  BY JobsReverted
<1>2. PICK j \in Jobs, n \in Nat : j = task[c].job /\ n = task[c].retry
  BY <1>1
<1>3. CASE Doing(c, "revert") /\ RevertAllocation(j, n)
  <2>1. jobs[j].status \in Settling => jobs'[j].status \in Settling
    BY <1>3, RevertAllocationEffect DEF Settling
  <2>2. QED
    BY <1>1, <1>2, <1>3, <2>1 DEF SameJobsBut
<1>4. CASE Doing(c, "revertClaim") /\ RevertProvisioning(j, n)
  <2> DEFINE m == n + 1
  <2>1. /\ jobs[j] \in JobRow
        /\ \/ jobs'[j] = [jobs[j] EXCEPT !.status = "FAILED", !.retry = m]
           \/ jobs'[j] = [jobs[j] EXCEPT !.status = "QUEUED", !.retry = m]
           \/ jobs' = jobs
    BY <1>4, RevertEffect
  <2> HIDE DEF m
  <2>2. jobs'[j].runner = jobs[j].runner
    BY <2>1 DEF JobRow
  <2>3. QED
    BY <1>1, <1>2, <1>4, <2>2 DEF SameJobsBut
<1>5. QED
  BY <1>1, <1>2, <1>3, <1>4 DEF Reverts, Doing

\* A step that is not of an invocation leaves what is not about a task as it was.
LEMMA RequeueLeft ==
  ASSUME RequeueInv, inv' = inv, \A r \in Runners : SweptRow(r),
         Unbound',
         \A r \in Runners, i \in SlotIdx : runners'[r].status \notin Dying =>
           /\ runners'[r].slots[i].status = runners[r].slots[i].status
           /\ runners'[r].slots[i].job = runners[r].slots[i].job,
         \A j \in Jobs : jobs[j].status \in Settling /\ Claimed(j) => jobs'[j].status \in Settling,
         \A j \in Jobs : jobs[j].runner \in Runners /\ jobs'[j].runner # jobs[j].runner =>
           runners[jobs[j].runner].status # "ACTIVE"
  PROVE  Unbound' /\ VacantSlots' /\ Locked' /\ TenantsNamed'
<1> USE FleetFacts DEF RequeueInv, SweepInv
<1>1. FleetTyped /\ Typed
  BY DEF FleetInv, FleetTyped
<1>2. \A r \in Runners : runners'[r].status \in {"PROVISIONING", "ACTIVE"} =>
        runners'[r].status = runners[r].status /\ runners'[r].status \notin Dying
  BY DEF SweptRow, Dying
<1>3. VacantSlots'
  BY <1>2 DEF VacantSlots
<1>4. Locked'
  <2>1. \A w \in Workers : InSection(w) => JobOf(w) \in Jobs /\ Claimed(JobOf(w))
    BY <1>1, JobOfType DEF InSection, At, Section, Claimed
  <2>2. QED
    BY <2>1 DEF Locked, InSection, JobOf
<1>5. TenantsNamed'
  <2>1. ASSUME NEW r \in Runners, NEW i \in SlotIdx, runners'[r].status = "ACTIVE",
               runners'[r].slots[i].status = "BUSY", runners'[r].slots[i].job # NoJob
        PROVE  jobs'[runners'[r].slots[i].job].runner = r
    <3>1. /\ runners[r].status = "ACTIVE" /\ runners[r].slots[i].status = "BUSY"
          /\ runners'[r].slots[i].job = runners[r].slots[i].job
      BY <1>2, <2>1
    <3>2. PICK j \in Jobs : j = runners[r].slots[i].job
      BY <1>1, <2>1, <3>1 DEF Slot
    <3>3. jobs[j].runner = r
      BY <2>1, <3>1, <3>2 DEF TenantsNamed
    <3>4. QED
      BY <3>1, <3>2, <3>3
  <2>2. QED
    BY <2>1 DEF TenantsNamed
<1>6. QED
  BY <1>3, <1>4, <1>5

LEMMA RequeueOutside ==
  ASSUME RequeueInv, Outside
  PROVE  SweepInv'
<1> USE DEF RequeueInv
<1>1. FleetTyped
  BY DEF FleetInv
<1>2. inv' = inv /\ (\A r \in Runners : SweptRow(r)) /\ jobs' = jobs /\ task' = task
  BY <1>1, OutsideSwept, OutsideTyped
<1>3. Unbound' /\ VacantSlots' /\ Locked' /\ TenantsNamed'
  <2>1. Unbound'
    BY <1>2 DEF SweepInv, Unbound
  <2>2. QED
    BY <1>1, <1>2, <2>1, SlotsKept, RequeueLeft
<1>4. Claims' /\ GivenUp' /\ RevertsBound'
  BY <1>2 DEF SweepInv, Claims, Claimed, Doing, InSection, JobOf, GivenUp, RevertsBound,
              SweptRow, Dying
<1>5. QED
  BY <1>3, <1>4 DEF SweepInv

LEMMA RequeueTakes ==
  ASSUME RequeueInv, NEW c \in Reapers, Takes(c), UNCHANGED <<vars, githubVars>>
  PROVE  SweepInv'
<1> DEFINE s == task'[c]
<1> USE FleetFacts DEF RequeueInv, SweepInv
<1>1. FleetTyped /\ UNCHANGED <<jobs, runners, inv, ec2>>
  BY DEF FleetInv, vars
<1>2. Unbound' /\ VacantSlots' /\ Locked' /\ TenantsNamed'
  BY <1>1 DEF Unbound, VacantSlots, Locked, TenantsNamed, InSection, JobOf
<1>3. /\ s \in Task /\ SameTaskBut(c)
      /\ TakesRow(s) \/ TakesInstance(s) \/ TakesJob(s)
  BY DEF Takes
<1>4. s.pc # "revert"
  BY <1>3 DEF TakesRow, TakesInstance, TakesJob
<1>5. s.pc = "revertClaim" => jobs[s.job].status \in Settling /\ ~Claimed(s.job)
  BY <1>3 DEF TakesRow, TakesInstance, TakesJob, Settling
<1>6. ASSUME s.kind = "stuck"
      PROVE  /\ s.runner \in Runners /\ s.pc = "transition"
             /\ \A j \in s.bound : jobs[j].runner = s.runner
  <2>1. TakesRow(s) /\ s.kind = "stuck"
    BY <1>3, <1>6 DEF TakesInstance, TakesJob
  <2> HIDE DEF s
  <2>2. PICK r \in Runners : r = s.runner
    BY <2>1 DEF TakesRow
  <2>3. /\ s.row = runners[r] /\ s.pc = "transition" /\ runners[r].status = "ACTIVE"
        /\ \A j \in s.bound : j \in Jobs /\ \E i \in SlotIdx : j = runners[r].slots[i].job
    BY <2>1, <2>2 DEF TakesRow
  <2>4. ASSUME NEW j \in s.bound PROVE jobs[j].runner = r
    <3>1. PICK i \in SlotIdx : j \in Jobs /\ j = runners[r].slots[i].job
      BY <2>3
    <3>2. j # NoJob /\ runners[r].slots[i].status \in {"IDLE", "BUSY"}
      BY <1>1, <3>1, TableConstants DEF Slot
    <3>3. QED
      BY <2>3, <3>1, <3>2 DEF VacantSlots, TenantsNamed
  <2>5. QED
    BY <2>2, <2>3, <2>4
<1> HIDE DEF s
<1>7. Claims'
  BY <1>1, <1>3, <1>5 DEF Claims, Claimed, Doing, InSection, JobOf, SameTaskBut, s
<1>8. GivenUp' /\ RevertsBound'
  BY <1>1, <1>3, <1>4, <1>6 DEF GivenUp, RevertsBound, Doing, SameTaskBut, s
<1>9. QED
  BY <1>2, <1>7, <1>8

\* What a task that reverts the jobs of a dead boot remembers of them.
LEMMA GivenUpKept ==
  ASSUME RequeueInv, NEW c \in Reapers, TaskStep(c), task'[c].kind = "stuck"
  PROVE  /\ task'[c].runner \in Runners
         /\ \A j \in task'[c].bound : jobs'[j].runner = task'[c].runner
         /\ task'[c].pc # "transition" => runners'[task'[c].runner].status \in Dying
         /\ task'[c].pc = "revert" => task'[c].job \in task'[c].bound
<1> DEFINE t == task[c]
           s == task'[c]
<1> USE FleetFacts DEF RequeueInv, SweepInv
<1>1. /\ FleetTyped /\ t \in Task /\ s # NoTask /\ \A r \in Runners : SweptRow(r)
      /\ t.pc \in OnRunner => Fits(t)
  BY TaskSwept, NoTaskFacts DEF FleetInv, TasksFit
<1>2. t.kind = "stuck" /\ s.runner = t.runner
  BY <1>1 DEF TaskStep, Thinks, GoesOn, Drains, Removes, Terminates, Records, Reverts, Fails
<1>3. PICK r \in Runners : r = t.runner
  BY <1>2 DEF GivenUp
<1>4. /\ \A j \in t.bound : jobs[j].runner = r
      /\ t.pc # "transition" => runners[r].status \in Dying
      /\ t.pc = "revert" => t.job \in t.bound
  BY <1>2, <1>3 DEF GivenUp
<1>5. runners[r].status \in Dying => runners'[r].status \in Dying
  BY <1>1 DEF SweptRow, Dying
<1>6. CASE Reverts(c)
  <2>1. /\ t.pc = "revert" /\ s.pc = "get" /\ s.bound = t.bound \ {t.job}
        /\ \A j \in Jobs \ {t.job} : jobs'[j] = jobs[j]
    BY <1>1, <1>6, JobsReverted DEF Reverts, SameJobsBut
  <2>2. QED
    BY <1>1, <1>2, <1>3, <1>4, <1>5, <2>1 DEF Task
<1>7. CASE ~Reverts(c)
  <2>1. jobs' = jobs /\ s.bound = t.bound
    BY <1>1, <1>7, JobsReverted DEF TaskStep, Thinks, GoesOn, Drains, Removes, Terminates,
                                    Records, Fails
  <2>2. s.pc = "revert" => s.job \in t.bound
    BY <1>1, <1>7 DEF TaskStep, Thinks, Drains, Removes, Terminates, Records, Fails
  <2>3. ASSUME s.pc # "transition", t.pc = "transition"
        PROVE  runners'[r].status \in Dying
    <3>1. CASE Drains(c)
      <4>1. runners'[r] = [runners[r] EXCEPT !.status = "TERMINATING", !.pool = NoPool]
        BY <1>1, <1>3, <3>1, TerminatingEffect DEF Drains
      <4>2. QED
        BY <1>1, <4>1 DEF RunnerRow, Dying
    <3>2. CASE Thinks(c)
      <4>1. ~CanTerminate(r, Observed(c)) /\ runners' = runners
        BY <1>1, <1>3, <2>3, <3>2 DEF Thinks, vars
      <4>2. Observed(c) = {}
        BY <1>2 DEF Observed
      <4>3. runners[r].status \notin {"PROVISIONING", "ACTIVE", "ABSENT"}
        BY <1>1, <1>3, <2>3, <4>1, <4>2 DEF CanTerminate, Fits, OnRunner
      <4>4. runners[r].status \in RunnerStatus \cup {"ABSENT"}
        BY <1>1 DEF RunnerRow
      <4>5. QED
        BY <4>1, <4>3, <4>4 DEF RunnerStatus, Dying
    <3>3. QED
      BY <1>7, <2>3, <3>1, <3>2 DEF TaskStep, Removes, Terminates, Records, Fails
  <2>4. QED
    BY <1>2, <1>3, <1>4, <1>5, <2>1, <2>2, <2>3
<1>8. QED
  BY <1>6, <1>7

LEMMA RequeueTask ==
  ASSUME OneSweep, RequeueInv, NEW c \in Reapers, TaskStep(c)
  PROVE  SweepInv'
<1> USE FleetFacts DEF RequeueInv, SweepInv
<1>1. /\ FleetTyped /\ FleetTyped' /\ inv' = inv /\ \A r \in Runners : SweptRow(r)
      /\ \A d \in Reapers : d = c
  BY TaskTyped, TaskSwept DEF FleetInv, OneSweep
<1>2. Unbound'
  BY <1>1, JobsReverted DEF Unbound, Unstarted, RevertedJob, JobRow
<1>3. Claims'
  <2>1. ~(task'[c].pc = "revertClaim")
    BY <1>1, NoTaskFacts
    DEF TaskStep, Thinks, Drains, Removes, Terminates, Records, Reverts, Fails
  <2>2. QED
    BY <1>1, <2>1 DEF Claims, Doing
<1>4. GivenUp'
  BY <1>1, GivenUpKept DEF GivenUp
<1>5. RevertsBound'
  <2>1. ASSUME task'[c].pc = "revert" PROVE task'[c].kind = "stuck"
    <3>1. Thinks(c) /\ GoesOn(c) /\ task[c].pc = "get" /\ task'[c].job \in task[c].bound
      BY <2>1, NoTaskFacts
      DEF TaskStep, Thinks, Drains, Removes, Terminates, Records, Reverts, Fails
    <3>2. task[c].kind = "stuck"
      BY <1>1, <3>1 DEF Recalls
    <3>3. QED
      BY <3>1, <3>2 DEF GoesOn
  <2>2. QED
    BY <1>1, <2>1 DEF RevertsBound, Doing
<1>6. ASSUME NEW j \in Jobs, jobs[j].status \in Settling, Claimed(j)
      PROVE  jobs'[j].status \in Settling
  BY <1>1, <1>6, RevertedHow DEF Claims
<1>7. ASSUME NEW j \in Jobs, jobs[j].runner \in Runners, jobs'[j].runner # jobs[j].runner
      PROVE  runners[jobs[j].runner].status # "ACTIVE"
  <2>1. j = task[c].job /\ Doing(c, "revert")
    BY <1>1, <1>7, RevertedHow DEF SameJobsBut
  <2>2. QED
    BY <2>1 DEF RevertsBound, GivenUp, Doing, Dying
<1>8. VacantSlots' /\ Locked' /\ TenantsNamed'
  BY <1>1, <1>2, <1>6, <1>7, SlotsKept, RequeueLeft
<1>9. QED
  BY <1>2, <1>3, <1>4, <1>5, <1>8

LEMMA RequeueStep ==
  ASSUME OneSweep, RequeueInv, [FleetNext]_fleetVars
  PROVE  RequeueInv'
<1>1. FleetTyped
  BY DEF RequeueInv, FleetInv
<1>2. FleetInv'
  BY FleetInvStep DEF RequeueInv
<1>3. SweepInv'
  BY <1>1, FleetSteps, RequeueProvided, RequeueOutside, RequeueTakes, RequeueTask
<1>4. QED
  BY <1>2, <1>3 DEF RequeueInv

\* A job is only ever taken from a runner that is on its way out, as long as one task is
\* under way at a time, from the copy of its row to its last write: a sweep reverts the jobs of a dead boot after the transition of their runner
\* and never those that were given one since, a claim it reverts is nobody's, and a launch
\* that fails gives back a job that has no runner.
THEOREM RequeuedDead == OneSweep /\ FleetSpec => RequeuedFromDead
<1> DEFINE Step == \A j \in Jobs :
               jobs[j].status = "ALLOCATED" /\ jobs'[j].status \in {"QUEUED", "FAILED"} =>
                 runners[jobs[j].runner].status # "ACTIVE"
<1>1. ASSUME RequeueInv, [FleetNext]_fleetVars PROVE Step
  <2>1. SUFFICES ASSUME NEW j \in Jobs, jobs[j].status = "ALLOCATED",
                        jobs'[j].status \in {"QUEUED", "FAILED"}
                 PROVE  runners[jobs[j].runner].status # "ACTIVE"
    OBVIOUS
  <2>2. FleetTyped /\ Typed /\ SweepInv
    BY <1>1 DEF RequeueInv, FleetInv, FleetTyped
  <2>3. CASE [Next]_vars
    <3>1. PICK w \in Workers : JobStep(w)
      BY <2>1, <2>2, <2>3, JobSteps
    <3>2. JobOf(w) = j /\ InSection(w)
      BY <2>1, <3>1 DEF JobStep, Respects, SameJobsBut, InSection
    <3>3. QED
      BY <2>1, <2>2, <3>2 DEF SweepInv, Locked, Settling
  <2>4. CASE Outside
    BY <2>1, <2>2, <2>4, OutsideTyped
  <2>5. CASE UNCHANGED <<vars, githubVars>>
    BY <2>1, <2>5 DEF vars
  <2>6. ASSUME NEW c \in Reapers, TaskStep(c)
        PROVE  runners[jobs[j].runner].status # "ACTIVE"
    <3>1. /\ task[c].job = j
          /\ Doing(c, "revert") \/ Doing(c, "revertClaim")
      BY <2>1, <2>2, <2>6, RevertedHow DEF SameJobsBut
    <3>2. CASE Doing(c, "revert")
      BY <2>2, <3>1, <3>2 DEF SweepInv, RevertsBound, GivenUp, Doing, Dying
    <3>3. CASE Doing(c, "revertClaim")
      BY <2>1, <2>2, <3>1, <3>3 DEF SweepInv, Claims, Settling
    <3>4. QED
      BY <3>1, <3>2, <3>3
  <2>7. QED
    BY <1>1, <2>2, <2>3, <2>4, <2>5, <2>6, FleetSteps
<1>2. ASSUME OneSweep PROVE FleetSpec => RequeuedFromDead
  <2>1. RequeueInv /\ [FleetNext]_fleetVars => RequeueInv' /\ [Step]_fleetVars
    BY <1>1, <1>2, RequeueStep
  <2>2. QED
    BY <2>1, RequeueInit, PTL DEF FleetSpec, RequeuedFromDead
<1>3. QED
  BY <1>2
=============================================================================
