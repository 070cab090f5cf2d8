------------------------------ MODULE Lifetime ------------------------------
(***************************************************************************)
(* The clocks of an instance: idle_timeout, auto_terminating_time,         *)
(* boot_timeout, staleBusyAfter and processBusyCeiling, from the moment    *)
(* BindToJob makes it ACTIVE.  Fleet leaves time out and interleaves every *)
(* call; here a sweep takes no time, fails at nothing, and comes every     *)
(* SweepPeriod.                                                            *)
(*                                                                         *)
(* Jobs run when GitHub says so, whatever the table says; a slot may never *)
(* register, a callback or a `completed' may never come, and a             *)
(* Runner.Worker may hang when its job is over.                            *)
(***************************************************************************)
EXTENDS Integers

CONSTANTS
  SlotCount,            \* runner_count
  IdleTimeout,
  AutoTerminatingTime,
  BootTimeout,
  StaleBusyAfter,
  ProcessBusyCeiling,
  SweepPeriod,
  MaxAge                \* bound: how old the instance gets

Slots == 0 .. SlotCount - 1

ASSUME SlotCountAssumption == SlotCount \in Nat \ {0}
ASSUME TimesAssumption ==
  {IdleTimeout, AutoTerminatingTime, BootTimeout, SweepPeriod, MaxAge} \subseteq Nat \ {0}
ASSUME ThresholdsAssumption == {StaleBusyAfter, ProcessBusyCeiling} \subseteq Nat

VARIABLES
  age,      \* the clock: the age of the instance, from 1
  status,   \* of the runner
  slot,     \* Slot: status, terminate_after, starting_since, and updated_at of its job
  github,   \* the runner process of each slot, as GitHub knows it
  working,  \* a Runner.Worker runs on the instance
  swept,    \* the last sweep
  given,    \* history: when a slot was last given a job,
  held,     \*   when one was last BUSY,
  ran,      \*   when GitHub last had a job on one,
  worked    \*   and when a Runner.Worker last ran

histories == <<given, held, ran, worked>>
lifetimeVars == <<age, status, slot, github, working, swept, histories>>

\* A time that is not set, as in Go.
Unset == 0
Created == 1
Times == Unset .. MaxAge
Later == Unset .. MaxAge + IdleTimeout

Slot == [status : {"IDLE", "BUSY"}, after : Later, starting : Times, allocated : Times]

LifetimeTypeOK ==
  /\ age \in Created .. MaxAge
  /\ status \in {"ACTIVE", "TERMINATING", "TERMINATED"}
  /\ slot \in [Slots -> Slot]
  /\ github \in [Slots -> {"unborn", "idle", "busy", "gone"}]
  /\ working \in BOOLEAN
  /\ {swept, given, held, ran, worked} \subseteq Times

Up == status # "TERMINATED"
Running == \E i \in Slots : github[i] = "busy"

\* BindToJob: slot 0 has the job, the clocks of the others run already.
LifetimeInit ==
  /\ age = Created
  /\ status = "ACTIVE"
  /\ slot = [i \in Slots |->
               IF i = 0 THEN [status |-> "BUSY", after |-> Unset, starting |-> Created,
                              allocated |-> Created]
               ELSE [status |-> "IDLE", after |-> Created + IdleTimeout,
                     starting |-> Created, allocated |-> Unset]]
  /\ github = [i \in Slots |-> "unborn"]
  /\ working = FALSE
  /\ swept = Created
  /\ given = Created
  /\ held = Created
  /\ ran = Unset
  /\ worked = Unset

-----------------------------------------------------------------------------
(***************************************************************************)
(* The clock, the instance, and the writes of the other Lambdas.           *)
(***************************************************************************)

\* No sweep is late.
Grow ==
  /\ Up
  /\ age < MaxAge
  /\ age < swept + SweepPeriod
  /\ age' = age + 1
  /\ held' = IF \E i \in Slots : slot[i].status = "BUSY" THEN age' ELSE held
  /\ ran' = IF Running THEN age' ELSE ran
  /\ worked' = IF working THEN age' ELSE worked
  /\ UNCHANGED <<status, slot, github, working, swept, given>>

Register(i) ==
  /\ Up
  /\ github[i] = "unborn"
  /\ github' = [github EXCEPT ![i] = "idle"]
  /\ UNCHANGED <<age, status, slot, working, swept, histories>>

StartJob(i) ==
  /\ Up
  /\ github[i] = "idle"
  /\ github' = [github EXCEPT ![i] = "busy"]
  /\ working' = TRUE
  /\ ran' = age
  /\ worked' = age
  /\ UNCHANGED <<age, status, slot, swept, given, held>>

\* The worker of the job ends with it, or hangs.
EndJob(i) ==
  /\ github[i] = "busy"
  /\ github' = [github EXCEPT ![i] = "idle"]
  /\ working' \in {TRUE, \E k \in Slots \ {i} : github[k] = "busy"}
  /\ UNCHANGED <<age, status, slot, swept, histories>>

WorkerDies ==
  /\ working
  /\ ~Running
  /\ working' = FALSE
  /\ UNCHANGED <<age, status, slot, github, swept, histories>>

\* A write to a slot of the row, while the instance is there.
Write(i, new) ==
  /\ Up
  /\ slot' = [slot EXCEPT ![i] = new]
  /\ UNCHANGED <<age, status, github, working, swept, ran, worked>>

AllocateSlot(i) ==
  /\ status = "ACTIVE"
  /\ slot[i].status = "IDLE"
  /\ Write(i, [slot[i] EXCEPT !.status = "BUSY", !.after = Unset, !.allocated = age])
  /\ given' = age
  /\ held' = age

\* The job is marked COMPLETED, and its slot stays BUSY: the runner is not ACTIVE, or the
\* invocation died before MarkIdle.
CompletedOnly(i) ==
  /\ slot[i].status = "BUSY"
  /\ slot[i].allocated # Unset
  /\ Write(i, [slot[i] EXCEPT !.allocated = Unset])
  /\ UNCHANGED <<given, held>>

\* Mutant: the idle clock is not started.
FreeWithoutClock(i) ==
  /\ status = "ACTIVE"
  /\ slot[i].status = "BUSY"
  /\ Write(i, [slot[i] EXCEPT !.status = "IDLE", !.allocated = Unset])
  /\ UNCHANGED <<given, held>>

\* The job is marked COMPLETED, and MarkIdle frees its slot.
FreeSlot(i) ==
  /\ status = "ACTIVE"
  /\ slot[i].status = "BUSY"
  /\ Write(i, [slot[i] EXCEPT !.status = "IDLE", !.after = age + IdleTimeout,
                              !.allocated = Unset])
  /\ UNCHANGED <<given, held>>

\* MarkSlotReady
Callback(i) ==
  /\ github[i] # "unborn"
  /\ slot[i].starting # Unset
  /\ Write(i, [slot[i] EXCEPT !.starting = Unset])
  /\ UNCHANGED <<given, held>>

-----------------------------------------------------------------------------
(***************************************************************************)
(* RunScheduledSweep.                                                      *)
(***************************************************************************)

EligibleForTermination ==
  \/ age - Created > AutoTerminatingTime
  \/ \A i \in Slots :
       slot[i].status = "IDLE" /\ slot[i].after # Unset /\ age >= slot[i].after

HasFreshBusySlot ==
  \E i \in Slots : /\ slot[i].status = "BUSY"
                   /\ slot[i].allocated # Unset
                   /\ age - slot[i].allocated < StaleBusyAfter

\* Mutant: a worker is believed however old the instance is.
AnyWorkerRunning(found) == found

WorkerRunning(found) == found /\ age - Created <= ProcessBusyCeiling

\* terminateExpiredRunner: GitHub agrees that no slot is busy.
Expired(found) ==
  EligibleForTermination /\ ~HasFreshBusySlot /\ ~WorkerRunning(found) /\ ~Running

\* Mutant: only slots with a job are looked at.
StuckWithJob ==
  \E i \in Slots : /\ slot[i].starting # Unset
                   /\ slot[i].status = "BUSY"
                   /\ age - slot[i].starting >= BootTimeout

\* stuckStartingJobIDs
StuckStarting ==
  \E i \in Slots : slot[i].starting # Unset /\ age - slot[i].starting >= BootTimeout

\* finishTermination: the slots that run no job leave GitHub, and the instance ends
\* unless a job or, when it was looked for, a worker holds it off.
FinishTermination(spared) ==
  /\ github' = [i \in Slots |-> IF github[i] = "idle" THEN "gone" ELSE github[i]]
  /\ IF Running \/ spared
       THEN status' = "TERMINATING" /\ UNCHANGED working
       ELSE status' = "TERMINATED" /\ working' = FALSE

LeaveAlone == UNCHANGED <<status, github, working>>

\* The process check is asked about terminating and expired instances only, and may
\* not be answered.
Swept ==
  /\ Up
  /\ swept < age
  /\ \E found \in {FALSE, working} :
       \/ status = "TERMINATING" /\ FinishTermination(WorkerRunning(found))
       \/ status = "ACTIVE" /\ (Expired(found) \/ StuckStarting) /\ FinishTermination(FALSE)
       \/ status = "ACTIVE" /\ ~(Expired(found) \/ StuckStarting) /\ LeaveAlone
  /\ swept' = age
  /\ UNCHANGED <<age, slot, histories>>

LifetimeNext ==
  \/ Grow \/ WorkerDies \/ Swept
  \/ \E i \in Slots : \/ Register(i) \/ StartJob(i) \/ EndJob(i) \/ Callback(i)
                      \/ AllocateSlot(i) \/ CompletedOnly(i) \/ FreeSlot(i)

LifetimeSpec == LifetimeInit /\ [][LifetimeNext]_lifetimeVars

-----------------------------------------------------------------------------
Earlier(a, b) == IF a < b THEN a ELSE b

\* Up to when the sweeps spare an instance, by what has been on it.
SparedUntil == {ran, Earlier(worked, Created + ProcessBusyCeiling)}

\* All of the times are over, and the sweep that had to come since is too.
Overdue(times) == \A t \in times : age > t + SweepPeriod

\* An instance is not there for longer than auto_terminating_time, unless it was given
\* jobs or GitHub had jobs on it, and no hung worker and no `completed' that never came
\* keeps it (service.go:27-30, 35-41).
LifeCapped ==
  Up => ~Overdue(SparedUntil \cup {Created + AutoTerminatingTime, given + StaleBusyAfter})

\* Nor for longer than idle_timeout when all its slots are free.
IdleReaped ==
  Up /\ (\A i \in Slots : slot[i].status = "IDLE") =>
    ~Overdue(SparedUntil \cup {held + IdleTimeout})

\* An instance does not serve with a slot that has not called back by boot_timeout,
\* whether that slot was given a job or waits in the pool (service.go:226-232).
BootReaped ==
  status = "ACTIVE" =>
    \A i \in Slots : slot[i].starting # Unset =>
      age <= slot[i].starting + BootTimeout + SweepPeriod
=============================================================================
