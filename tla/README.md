# A verification project for github-runner-provisioner

TLA+ models of the platform that gives GitHub Actions jobs EC2 runners: the
Lambdas that share one DynamoDB table, the queue between them, and what GitHub,
SQS and EC2 may do to them meanwhile. TLC checks the models on small instances,
and TLAPS proves the safety properties they check for every size, some of them under
a hypothesis that section 4 names.

Paths below are relative to the repository. Line numbers in the modules' comments
name the file under `internal/` they belong to.

## 1. The system

| Component | State it keeps | Operations | Hard because |
|---|---|---|---|
| Webhook Lambda (`cmd/webhook`, `internal/webhook`) | `EVENT#` rows | verify, dedupe by delivery ID, forward to SQS | GitHub redelivers while a request still runs; record and send are two calls |
| SQS queue and DLQ (`sqs.tf`) | messages, receive counts | deliver, redeliver, give up | no order, at least once, partial batch failures |
| Provision Lambda (`cmd/provision`, `internal/runner`) | nothing between messages; job and runner rows | `queued`: allocate an idle slot, or claim the job and launch; `completed`: finish the job, free its slot; `in_progress`: log | many invocations; every value read is stale when used; an invocation may die between any two calls |
| Table (`internal/store`) | job rows, runner rows with their slots, three sparse indexes | conditional writes and two-row transactions | the conditions are the only synchronisation |
| Cleanup Lambda (`cmd/cleanup`, `internal/cleanup`) | nothing | sweep every three minutes: finish terminations, expire idle or old instances, fail dead boots, reconcile stale launches and untracked instances; Spot interruptions | acts on snapshots while jobs come and go |
| Ready Lambda (`cmd/ready`, `internal/ready`) | `starting_since` of a slot | confirm that a slot's runner process registered | late or repeated callbacks |
| Config (`internal/config`), profile resolution (`internal/runner/validation.go`) | the runner configuration | defaults, validation, labels to profile | map iteration order; a default that meets a declared label |
| GitHub client (`internal/github`) | a client in each execution environment, an installation ID in the `CONFIG` row | resolve the installation, find and remove runners | two caches of an ID that GitHub may change; calls that fail half way |
| AWS clients (`internal/aws`) | the images looked up lately, in each environment | launch, end and list instances; newest AMI; SSM process check | answers that are late, missing or old |

The Lambdas interact through the table only: the webhook feeds the queue, the queue
feeds the provision Lambda, and the provision, cleanup and ready Lambdas all write
the job and runner rows, each under a condition on the row's status. Every Lambda
validates the configuration at its cold start. The provision Lambda asks the AMI
resolver for an image before a launch, the sweep asks the process check before it
ends instances, and both use the GitHub client.

What makes each part correct:

- *webhook*: one message per delivery, none lost (`EnqueuedOnce`, `AcceptedIsQueued`);
- *provision*: one launch at a time for a job, one slot for each job and one job for
  each slot, nothing finished is revived, the retry budget holds, every job settles
  (`ProvisioningLock`, `SlotBinding`, `NoRevival`, `AttemptsBounded`, `JobSettles`);
- *table*: the pool index tells the truth (`PoolExact`, `PoolOfProfile`, `PoolActive`);
- *cleanup*: an instance is never torn down under a fresh job (`IdleExpiryHarmless`,
  `FreshJobKept`), every instance is torn down in the end (`InstanceReaped`), no slot
  stays with a job that is over (`SlotTakenBack`), and every job whose launch or runner is
  lost is given back (`ClaimResolved`, `RequeuedServed`);
- *ready*: a slot that had confirmed itself when a sweep read its row does not lose its
  instance while it runs a job (`RunningSpared`);
- *the instance*, whoever acts on it: it is launched, serves, drains and is dead, in
  this order and once, and jobs come only while it serves (`Lives`);
- *its clocks*: nothing keeps it past them but what the code means to
  (`LifeCapped`, `IdleReaped`, `BootReaped`);
- *config*: the same configurations are accepted in every map order, all repeated
  labels are reported, and a label alone never resolves to two profiles
  (`VerdictIsRule`, `LabelsDiagnosed`, `LabelUnambiguous`);
- *GitHub client*: an App that was installed again is used under its new ID in the end
  (`SelfHeals`);
- *AMI resolver*: an image of the right family, and a recent one (`ImageFits`,
  `ImageRecent`);
- *process check*: every online instance is asked once, silence is not taken for an
  answer, and the sweep is not held up (`AskedOnce`, `ResultWasSo`, `CheckEnds`).

## 2. The modules

| Module | Models | Extends |
|---|---|---|
| `Table` | the rows and every conditional write of `internal/store` | |
| `Provision` | the provision Lambda, its queue, and the launches | `Table` |
| `Dispatch` | what the provision side promises: an abstract dispatcher of slots | |
| `Fleet` | `Provision` with the cleanup and ready Lambdas, GitHub's view of the runners, and Spot interruptions | `Provision` |
| `Life` | what the Lambdas together promise about an instance: the order of its life | |
| `Webhook` | deduplication and forwarding of one kind of event | |
| `Config` | defaults, validation and profile resolution, in any map order | |
| `Installation` | the GitHub client and the cached installation ID | |
| `Image` | the AMI resolver and its cache | |
| `ProcessCheck` | the SSM check of a sweep | |
| `Lifetime` | the five clocks of one instance that serves | |
| `MCProvision`, `MCFleet`, `MCWebhook`, `MCParts` | the small instances TLC runs | |
| `TableProofs`, `WebhookProofs`, `DispatchProofs`, `LifeProofs` | proofs about the module each is named for | that module |
| `ProvisionProofs`, `RunnerProofs` | proofs about `Provision`: the jobs, then the runners, slots and instances | `Provision`, `TableProofs` |
| `FleetProofs` | proofs about `Fleet` | `Fleet`, `RunnerProofs` |
| `PartsProofs` | proofs about `Lifetime`, `ProcessCheck`, `Image`, `Config` and `Installation` | `MCParts` |

**One action is one call.** A Go handler is cut at every call to DynamoDB, EC2, SQS
or GitHub. Between two calls the handler's local variables are the record `inv[w]`
(`Provision`), `task[c]` (`Fleet`), `req[q]` (`Webhook`) or `launch` (`Image`), or
variables of the module's own, and everybody else may move. A DynamoDB write with its
condition is one atomic operator of `Table`, a transaction on two rows too; a
condition that fails is a disjunct of its own, and does what the code does with it
(swallowed, returned, or tried on the next row). `Config` has no calls and is cut
where a map is ranged over; the sweeps of `Lifetime` are one step each.

**Table.** `jobs[j]` and `runners[r]` are the rows, `"ABSENT"` an item that is not
there. `pool` is `gsi1pk`, so membership of the sparse index GSI1; `instance` says
whether `instance_id` is recorded (GSI3); `starting` whether a slot has
`starting_since`. `slots` is indexed from 0, as in the code. Names, labels, times
and TTLs are left out; GSI2 follows the status.

**Provision.** `queue`, `sent` and `deliveries` are the SQS queue: a message in
hand is not in the queue, unless the fault `duplicate` delivers it twice at a time;
`GiveBack` is the visibility timeout or a reported batch failure, and drops the
message to the dead-letter queue after `MaxReceive` receives. `Receive` picks the
profile with `\E p \in Matching[j]`, because `ResolveProfile` walks a Go map. An idle
slot that `Query` found is a `Candidate` with the slot and whether it was the only
idle one, the two things `AllocateIdleRunner` keeps of the item. The retry window is
`RetryQuery` or `StopRetrying`, at any time. The steps of `provisionRunner` that
change nothing shared (GitHub client, tokens, AMI) can only fail, and fail as the
step next to them.

**Fleet.** A sweep reads its rows once and then works through them one by one; every
piece of that work concerns one row and its copy. So a task of `Fleet` copies a row
(`Resume`, `Expire`, `Stuck`, `StaleRow`, `StaleJob`, `Untracked`, `Spot`) and uses
the copy however much later, one call at a time, the slots in order. Two reapers are
two invocations that overlap, or two tasks of one sweep that took their copies
together. Ages are not modelled: a task may begin whenever its other conditions
hold. Two consequences of the clock are kept: nothing is called stale while an
invocation of the provision Lambda is still at it (`~Launching`, `~Claimed`: ten
minutes against the Lambda's one), and `HasBusySlot` may or may not still be
fresh. `github[r][i]` is what GitHub knows of the runner process of a slot, `taken`
the jobs GitHub has given to some runner: GitHub chooses the runner by label, not by
the binding in the table. `Boot` registers the slots in order, as the script of
`RenderUserData` does, and need not reach the last. `BusyOnGitHub` and
`RemoveRunner` are `FindRunnerByName` and `RemoveRunner` of the GitHub client: a
runner that is not found is not busy, and one that has a job is not removed.

**Life.** `phase`, `up` and `tenants` of each instance, with no rows, snapshots or
sweeps. Through `LifePhase`, `Fleet` maps a row that is absent, `PROVISIONING`,
`ACTIVE`, `TERMINATING`, or `TERMINATED` and `FAILED`, to new, launching, serving,
draining and dead. A draining instance is only buried when it is off, although
`MarkRunnerFailed` writes with no condition. `Reclaimable` is whether Spot interruptions occur.

**Webhook.** Each request records the delivery ID and then sends; GitHub repeats a
delivery until it is answered 200.

**Config.** `raw` is the file as written, `cfg` the `Config` in memory. `ApplyDefaults`,
`Validate` and `Verdict` are the stages of `Config.Validate`; `ValidateProfile(n)` is
one turn of the loop of `validateProfiles`, for any profile not reached yet, with
`owner` its `labelOwner`. `ResolveProfile` answers for the job that is `asked` again
and again, as its redeliveries do. A text that has to be there is a Boolean;
durations and sizes are numbers, and what matters of them is on which side of a limit
they are. `WellFormed` is the rule the loops enforce, read off `raw`.

**Installation.** `client[e]` is what `Provider` memoizes in environment `e`, `row` the
`CONFIG` row. The steps of `Provider.Client` are its three calls; each may fail as the
code lets it (a failed read is a miss, a failed write is ignored, a failed resolution
is returned). The App is removed and installed again under a new ID at any time.

**Image.** `cache` is the resolver's map, with `expiresAt` on the clock `now`; the
look-up and the moment its answer is kept are two steps, with time and publications
between. A fresh entry is returned without a step, so properties of what a launch is
given are properties of the fresh entries. `newestAt` is a history variable. Dates of
images are numbers up to `LastDate`, which bounds the images to come and no call.

**ProcessCheck.** The three loops of `CheckRunnerProcesses`: batches of
`onlineInstances`, batches of `SendCommand`, and rounds of `ListCommandInvocations`,
one call at a time; SSM lists the instances it is asked about in any order. A worker
starts and ends at any time until its instance has
answered. `CallFails` is an error of any call. `Fleet`'s `Worker` stands for what this
module computes, and `ResultWasSo` is why it may.

**Lifetime.** The arithmetic that `Fleet` leaves out, for one instance from
`BindToJob` on: `age` is the clock, and a slot has `terminate_after` (`after`),
`starting_since` and the `updated_at` of its job (`allocated`). Here a sweep takes no
time, fails at nothing and comes every `SweepPeriod`; what it may run into at any
other moment is `Fleet`'s matter. In return everything else is free: GitHub runs jobs
whatever the table says, callbacks and `completed` may never come, workers hang, the
process check may not answer. Four history variables say since when nothing holds the
sweeps off.

**MCParts.** `Webhook`, `Config`, `Installation`, `Image`, `ProcessCheck` and
`Lifetime` share no state. `part` picks one at the start and only that one moves, so
the six are checked in one run whose states add up. A part that stays at its initial
state has nothing to do that its fairness could ask for, so liveness of one part is
checked under its own fairness only.

Model values and sets stand for IDs, profiles and messages; nothing in a property
depends on their text.

## 3. What the runs check

| Run | Bounds | Shows |
|---|---|---|
| `provision_safety` | 2 jobs, 2 runner IDs of 2 slots, 2 invocations, `queued` twice; crash, launch, duplicate | `TypeOK`, `ProvisioningLock`, `SlotBinding`, `RecordedInstance`, `NoRevival`, and `Dispatches`: the Lambda implements `Dispatch` |
| `provision_pool` | 4 jobs in two profiles and none, 1 runner of 1 slot, 2 invocations; crash, store | `PoolExact`, `PoolOfProfile` |
| `provision_live` | 2 jobs, 1 runner, 2 invocations, `queued` once more than there are attempts; launch | `AttemptsBounded`, `JobSettles` |
| `fleet_safety` | 2 jobs, 1 runner of 2 slots, 1 invocation, 1 reaper; launch | `PoolActive`, `IdleExpiryHarmless`, `RequeuedFromDead`, and `Lives`: the Lambdas implement `Life` |
| `fleet_overlap` | 1 job, 1 runner, 1 invocation, 2 reapers; crash, spot, abandon | `FleetTypeOK`, `TerminatedIsGone`, `RunningSpared`, `UntrackedIsDead`, and `Lives` again, with overlapping sweeps |
| `fleet_live` | 1 job, 1 runner, 2 invocations, 1 reaper; crash, store, launch, spot | `InstanceReaped`, `ClaimResolved`, `SlotTakenBack` |
| `parts` | the six parts of `MCParts`, see below | `PartsTypeOK` and, webhook: `TypeOK`, `EnqueuedOnce`; config: `VerdictIsRule`, `LabelsDiagnosed`, `LabelUnambiguous`; client: `SelfHeals`; images: `ImageRecent`, `ImageFits`; process check: `ResultWasSo`, `AskedOnce`, `CheckEnds`; clocks: `LifeCapped`, `IdleReaped`, `BootReaped` |

Five runs look for a violation of something a comment of the repository says, and
find it:

| Run | What happens |
|---|---|
| `provision_pool_lost` | An instance with two slots. The query saw one idle slot, so its claim removes the pool entry; the other slot was freed in between, and is idle but not on offer (`PoolExact`; `dynamodb.go:17-18`). |
| `provision_completed_twice` | A second `completed` of a job frees its slot under the job that has it now, because `MarkIdle` does not ask whose it is (`SlotBinding`; `runner.go:366-371`). |
| `fleet_torn_down` | A sweep reads an old instance with a slot BUSY; the job ends, another takes the slot; the slot is BUSY again, so `TransitionToTerminating` sees no difference and the instance goes down under the new job (`FreshJobKept`; `runner.go:648-652`). |
| `fleet_requeued` | The job of a failed boot is put back to QUEUED; its message was acknowledged long ago and nothing looks for QUEUED rows (`RequeuedServed`; `service.go:236-237`). |
| `webhook_lost` | The delivery is recorded, the send fails, the redelivery is taken for a duplicate and answered 200 (`AcceptedIsQueued`; `events.go:23-25`). |

### Bounds, and why they are enough

- *Two invocations over two jobs* are what the code's races need: a lock, a slot or a
  pool entry is fought over by two at a time. In `provision_safety` a second runner lets a
  job be launched again after a failure and lets a slot be taken on another instance.
- *Runner IDs are used up*, unlike ULIDs: with `k` of them there are at most `k`
  rows in a behaviour, and an invocation at `CreateRow` then waits or fails. With one ID
  (`provision_pool`, `provision_live`, the fleet) the second job competes for the slot of
  the first, or its launches fail at the row, each at the cost of an attempt.
- *`completed` comes at any moment* after `queued` was sent, in every run: before `queued`
  is received, during the launch, or after. The pool is checked with one delivery of each
  message and no duplicates; that it is exact with them too is proved (`PoolIsExact`).
- *MaxReceive* bounds deliveries of a message (1 to 3; `sqs_max_receive_count` in the
  deployment). Two deliveries give every race of a redelivery; `provision_live` gives
  a job one delivery more than it has attempts.
- *MaxProvisionAttempts* is 2 here and 3 in the code: the budget then ends within the
  deliveries there are, and both sides of the limit are reached.
- *RunnerCount* is 1 or 2, as `config.Profile` allows.
- *parts*, webhook: 2 deliveries sent 3 times, 3 requests, all faults, so that two
  requests for one delivery overlap while a third is for another.
- *parts*, config: one good configuration; every change of its settings to either side
  of each limit; every change of one profile; and every pair of label lists of length
  at most 2 over three labels, two of which are profile keys, the default included.
  Two profiles are enough for a label to be taken first by either.
- *parts*, client: 2 environments and 3 installations: an environment can hand an old
  ID to the next while a third one is in force.
- *parts*, images: entries live 1 tick, a look-up takes up to 1, the clock runs to 3: an
  entry is made, expires and is made again. Three profiles, two of one system and two
  architectures, one unsupported; one family's images change.
- *parts*, process check: 3 instances in batches of 2, so the last batch is short.
- *parts*, clocks: 2 slots; `IdleTimeout` 1, `AutoTerminatingTime`, `BootTimeout` and
  `StaleBusyAfter` 2, `ProcessBusyCeiling` 3, `SweepPeriod` 1, and an age of at most
  7: at 5 every clock that started with the instance is over, its sweep too, and those
  that a later job or worker starts have time to run out. In the code they are minutes to hours apart; what the properties depend on is which comparison is
  strict and which clock holds off which.
- *Symmetry* over jobs, runners, invocations and reapers is used for safety only;
  where `Matching` tells jobs apart, only over those it does not. Slots are numbers
  and are not permuted.
- `sent`, a set, makes GitHub report each state of a job once to the queue; repeated
  reports are the subject of `Webhook`.

### Fairness

`Provision!Fairness`: an invocation that runs keeps running (`WF` of `Work`); the five
seconds of the retry window end it, however often it has queried (`SF` of
`StopRetrying`); SQS hands over every visible message in the end (`SF` of
`Receive`). GitHub is not assumed to send anything. `FleetFairness` adds the
three-minute schedule: a sweep under way goes on (`WF` of `Sweep`), every sweep goes
through all the rows, so each kind of work is taken up again and again while it is
there (`SF`); an allocation is not fresh for ever (`SF` of `NotFresh`); and a job ends
on GitHub (`WF` of `Finish`, its `timeout-minutes`). Nothing is assumed of the ready
callback, of Spot, or of boots. `fleet_live` has no `abandon`: sweeps that fail every
time reap nothing.

`InstallationFairness`: a call of `Provider.Client` ends, DynamoDB deletes a row whose
`ttl` has passed, and Lambda keeps no environment for ever. The last two are promises
of AWS; without either an old ID is used as long as the row or the environment
lasts. `CheckFairness`: the check goes on and its deadline passes. No command on an
instance need ever end.

## 4. What is proved

TLAPS checks what follows for every value of the constants, so for any number of
jobs, runners, slots, invocations, sweeps and receives. Every invariant and every
action property of the passing runs is the property of a theorem, and so are both
refinements. What is proved only under a hypothesis says which; each is a condition
of the run that checks the property, and the last column tells what happens without:

| Hypothesis | Says | Without it |
|---|---|---|
| `CompletedOnce` | a `completed` message is received once | `provision_completed_twice` |
| `RunnersAlone` | an instance has one slot | `provision_pool_lost` |
| `HeldByOne` | SQS gives a message to one invocation at a time | an old `retry_count` is written back (section 5) |
| `OneMatch` | no job matches two profiles | freed into the other profile's pool (section 5) |
| `OneSweep` | one task of a sweep at a time, from its copy of a row to its last write; stronger than that sweeps do not overlap | two sweeps revert the same boot (section 5) |

Otherwise the assumptions are the named ones of the modules: counts and limits are
positive, durations are numbers, null values are not IDs, `Matching` is a function to
sets of profiles, `Labels` is finite, and `Ids` lists different instances.

The proofs go the same way in every module. First each step is brought down to what it
does to the state (`JobStep`, `RunnerStep`, `Turned`, `JobWrite`, `TaskStep`), in a lemma that
has one case for each action; then each invariant is shown for these few forms.

**Provision, the jobs** (`ProvisionProofs`).

- `TypeCorrect`, `LockHeld`, `NeverRevived`: `TypeOK`, `ProvisioningLock`, `NoRevival`. The
  inductive invariant is `Typed /\ JobInv`. `Typed` adds to `TypeOK` what an invocation
  remembers at each step (its message has the right kind, and from the row's creation
  on it has a runner); without it a step could write a row that does not exist.
  `JobInv` adds to the lock that rows an invocation has read are there, and that a job
  not yet started has no runner.

**Provision, the runners** (`RunnerProofs`). A step of an invocation touches at most one
runner, in one of eight ways (`RunnerStep`): the row is put, the instance is launched,
its ID is set, the launch is dropped, slot 0 is bound, an idle slot is shared, a slot
is freed, or nothing.

- `Recorded`: `RecordedInstance`, from `LaunchInv /\ StaysUp`. The invariant alone is not
  inductive: `BindToJob` makes a row ACTIVE without asking for the ID or the instance. It
  may because the runner of an invocation is nobody else's (`OwnRow`) and the row is
  exactly where the invocation left it (`LaunchStages`).
- `SlotsBound`: `SlotBinding`, under `CompletedOnce`. `MarkIdle` does not ask whose slot it
  frees, so what keeps a job in its slot is that nobody can still be about to free it:
  each `completed` is carried by one invocation (`Once`), until it has read the job the
  job has its slot (`Seats`), and afterwards the job is over. `Sitting` is the other
  direction, and that a job in a slot is in no launching section, which could fail it.
- `ImplementsDispatch`: `Dispatches`, under `CompletedOnce`: the initial states are those
  of `Dispatch`, and a step is a step of it or a stutter, `Binds`, `Shares` and `Frees`
  each being one of its actions. Needs `VacantSlots`: a slot that is not BUSY names no
  job. `DispatchProofs!OneSlot` (a running job holds exactly one slot, no slot has two
  jobs) is therefore inherited by proof.
- `PoolIsExact`: `PoolExact`, under `RunnersAlone`. `LastOnly`: with one slot, an idle slot
  a query found was the last, so the claim does take the row out of the pool.
- `BudgetKept`: `AttemptsBounded`, under `HeldByOne`. The count written back is the one read
  at the start; it is not old because a message has one holder (`Single`), so the
  `retry` an invocation remembers is that of the row until it writes it (`Fresh`).
  `Budget` then bounds attempts by `retry_count`, plus one while a launch is under way.
- `PoolIsOfProfile`: `PoolOfProfile`, under `OneMatch`. `completed` frees into the pool of
  the profile it finds in the job's row; `Belongs` ties the profiles of an invocation,
  its runner, its candidates and its job together.

**The fleet** (`FleetProofs`). A step of `Fleet` is one of `Provision`, of a task of a sweep,
or of the world; a task drains, removes, terminates, records, reverts or fails one
thing (`TaskStep`) or takes up new work (`Takes`).

- `FleetTypeCorrect`: `FleetTypeOK`, from `FleetTyped`: what a task remembers at each of its
  steps, and that every job a slot, a snapshot or a task names has a row.
- `NeverOnOffer`, `GoneForGood`, `LostOnly`: `PoolActive`, `TerminatedIsGone`, `UntrackedIsDead`,
  from `FleetInv`. It consists of what is left of `LaunchInv` when a sweep may take the
  rows (and of `StaysUp`, unless there is Spot); `RowInv`: only an ACTIVE row is in the
  pool, and a TERMINATED one has no instance; `Tenanted`: the runner of an ALLOCATED job
  has left PROVISIONING; and `TasksFit`: a task past its transition has a row that is
  dying or dead, and nothing leads back from there to ACTIVE. The last is what lets a
  sweep act on a copy however old.
- `JobsSpared`: `RunningSpared`, with any overlap. `Registered` and `Removed`: a slot that had
  confirmed itself when the row was read has a process at GitHub, and once the task is
  past a slot its process was removed there, which GitHub refuses under a job.
- `FleetImplementsLife`: `Lives`. The mapping is `LifePhase` of the row, the instance, and
  the jobs bound to it; the steps are found from the same forms. `LifeProofs!AlwaysUp` (an
  instance that serves runs, or EC2 took it back) and `Welcomed` (a job is given a
  slot only of one that serves and runs) are therefore inherited by proof. Theirs is
  `TypeOK /\ ServingIsUp`.
- `IdleExpirySafe`: `IdleExpiryHarmless`, under `CompletedOnce`, from `FleetSeats`. The write of
  the transition compares the slots with the copy, which were all idle; `Seats` says
  that a job on the runner would show in them.
- `RequeuedDead`: `RequeuedFromDead`, under `OneSweep`, from `SweepInv`. The write that reverts
  a job asks nothing but that the job is not over. What makes it safe is that
  the jobs in the sweep's copy still have the runner it gave up (`GivenUp`, by
  `TenantsNamed`), that nobody has claimed them since (`Locked`), and that a claim once
  found stale is nobody's (`Claims`).

**The parts** (`PartsProofs`, `WebhookProofs`).

- `WebhookProofs!TypeCorrect`, `NeverTwice`: `EnqueuedOnce`, from `OneSender`: at most
  one request is between record and send, and it has sent nothing.
- `AgeIsCapped`, `IdleIsReaped`, `BootIsReaped`: `LifeCapped`, `IdleReaped`, `BootReaped` for any
  durations, thresholds and number of slots. `LifetimeInv` says of each history variable
  that it is the last moment of what it stands for (`Clocks`), and what the last sweep
  saw when it left the instance up, or what has happened since (`SweptRunning`,
  `SweptIdle`, `SweptBooting`).
- `HeardTruly`, `EachAskedOnce`: `ResultWasSo`, `AskedOnce` for any instances, batch size and
  order of answers. `CheckInv`: the online instances are of the batches described so far,
  each once (`Listing`); the commands are for those of the batches sent so far, and no
  two for one instance (`Asking`); what was answered was so since the check began
  (`HeardWasSo`).
- `CachedIsRecent`, `CachedFits`: `ImageRecent`, `ImageFits` for any time to live. `ImageInv`:
  an entry, and an answer on its way into the cache, is an image that was the newest
  of its family at a moment not long ago (`Shown`, `Looking`, `Keeping`).
- `VerdictIsTheRule`, `LabelIsUnambiguous`, `AllDiagnosed`: `VerdictIsRule`,
  `LabelUnambiguous`, `LabelsDiagnosed` for any profiles and labels. `ConfigInv` is the loop invariant of
  `validateProfiles` for a map walked in any order: `owner` is of a profile already
  visited that has the label (`Owned`), and the reports are those of the profiles
  visited and of the declarations that came late (`Told`). How many come late does
  not depend on the order; the proof counts them.
- `PartsTyped`: `PartsTypeOK`, the types of all these side by side.

Only model-checked: liveness, which with `ENABLED` is out of the prover's reach:
`JobSettles`, `ClaimResolved`, `InstanceReaped`, `SlotTakenBack`, `SelfHeals`, `CheckEnds`. So are
the five counterexamples of section 3.

## 5. Seen on the way

Behaviours of the code that are in the model and have no run of their own:

- `completed` reads the job before `BindToJob` commits and marks it COMPLETED after:
  it saw no runner, frees nothing, and slot 0 stays BUSY under a job that is over
  (`internal/runner/service.go:194-216`, against `internal/store/runner.go:224-228`, by
  which the row lets `handleCompleted` find this slot). It takes no cancellation: GitHub
  may run the job on another runner of its labels while its own is launched. The same
  happens when an invocation dies between `MarkCompleted` and `MarkIdle` and its message
  is given up. `provision_live` and `fleet_live` include the overlap; `SlotTakenBack` says
  that the slot is lost only until the sweep ends the instance for its age.
- A failure of `SetInstanceID` or `BindToJob` is returned without reverting the claim
  (`provision.go:106-115`, against 17-19); the redelivery finds the job PROVISIONING
  and is dropped. The sweep resolves the claim (`ClaimResolved` in `fleet_live`), and
  then `fleet_requeued` applies.
- At the end of the budget `RevertProvisioning` and `RevertAllocation` write FAILED
  with no condition, over COMPLETED too. `NoRevival` lets a finished job change that
  way.
- `retry_count` is written from the row read at the start. With duplicated messages a
  slow invocation can set it back, and a job then gets more attempts than
  `maxProvisionAttempts`; `AttemptsBounded` is checked without duplicates.
- A job whose labels match two profiles may be launched for one and freed into the
  pool of the other, since `completed` uses the profile of the row and the redelivered
  `queued` one chosen again (`validation.go`). `PoolOfProfile` is checked for jobs
  that match at most one.
- A slot that registers after the sweep looked it up and did not find it can be given
  a job and lose its instance (against `service.go:234-236`). `RunningSpared` speaks
  of slots that had confirmed themselves.
- Of two overlapping sweeps that found the same boot stuck, the second reverts the
  job whatever runner it has by then. `RequeuedFromDead` is checked with one task at a
  time, so neither this nor two tasks of one sweep with copies of the same moment.
- A job whose instance is taken by Spot, or that took a slot of a dead boot after the
  sweep's read, stays ALLOCATED: only the jobs in the sweep's copy are reverted.
- A job whose labels name two profiles matches both, although "at most one match is
  possible here" (`internal/runner/validation.go:18-19`, `configs/runner.yaml:64-67`);
  the validation makes the profiles' labels disjoint, not the jobs'. `LabelUnambiguous`
  says what the disjointness does give, for one label at a time; that a job has at most
  one match does not hold, and is not claimed. A job is matched by one label it shares,
  while GitHub gives it only to a runner that has all of its labels.
- A profile that repeats its own label is refused with the message that two profiles
  declare it (`internal/config/config.go`, `validateProfiles`).
- An `ami_lookup` for a system the resolver does not know passes validation and fails
  at every launch. Within the 15 minutes of a cached answer, a withdrawn image fails
  launches too, and each costs the job an attempt (`ImageRecent` bounds how long).
- `auto_terminating_time` is called a hard cap on an instance (`config.go:105-108`,
  once its slots are free at the same time); an instance that keeps being given jobs
  within `staleBusyAfter` of each other outlives it. `LifeCapped` is stated with
  `given + StaleBusyAfter` for that.
- A slot that works but whose callback was lost is torn down at `boot_timeout` when
  GitHub has no job on it, and its job is put back; when GitHub has one, the removal
  is held off and the instance stays `TERMINATING` until it is over, and the job is
  put back all the same.
- An `installation_id` in the configuration is used for ever; only one that was
  resolved heals (`SelfHeals` is checked with 0).
- `MarkRunnerFailed` has no condition: a sweep that found a launch stale writes
  `FAILED` over a row that an overlapping one has moved to `TERMINATING`, which the
  table in `internal/runner/lifecycle.go` does not list; nor does it list QUEUED to COMPLETED
  and PROVISIONING to COMPLETED, which `completed` makes. The tables are used by
  nothing.
- `GetItem` reads of `internal/store` are not consistent reads: what a handler reads may
  be older than its call. In the models it is the latest at the call, and used later.
- A sweep that is still running when the next begins (asynchronous retries of
  EventBridge, `cmd/cleanup`) is the second reaper of `fleet_overlap`.

## 6. Not modelled

- Parsing of YAML, JSON and durations, environment variables, the rendering of the boot
  script, tokens, secrets and signatures: text in, text out. What they decide is a
  constant or a choice (`RawConfigs`, `Names`, the faults).
- Code that nothing calls: `MarkIgnored` of `internal/store`, `GetRunner` and
  `ValidateRunnerGroup` of `internal/github` (although `runner_groups.go:12-15` promises a check before any
  launch), the transition tables of `lifecycle.go`.
- Pages of results: `Fleet` sees all rows and runners there are, while some queries of
  the code read one page.
- Expiry of rows other than `CONFIG`: it is days away, and a row that has expired is one
  nobody acts on.
- Failing, slow or overlapping sweeps in `Lifetime`: they are in `Fleet`, without the
  clocks. Both together are out of TLC's reach.
- Terraform, beyond the receive counts of the queue and the schedule of the sweep.

## 7. Plan

1. *Proofs*: what of `RequeuedFromDead` survives overlapping sweeps, and of
   `AttemptsBounded` duplicated messages: a bound that grows with the number of holders.
   A weaker `PoolExact` for instances of several slots: a runner in the pool is
   ACTIVE and has an idle slot.
2. *Fleet, more of it*: two runners under overlapping sweeps; a sweep as a sequence of
   tasks over one snapshot.
