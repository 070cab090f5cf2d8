------------------------------ MODULE Dispatch ------------------------------
(***************************************************************************)
(* What the provision side promises, with no messages, invocations or      *)
(* table: jobs wait, each gets one slot of its own, and a slot is handed   *)
(* on only when its job is over.  Slots open together, as the slots of a   *)
(* new instance do.                                                        *)
(***************************************************************************)
CONSTANTS
  Jobs,
  Instances,
  Places,   \* of an instance, one slot each
  Vacant,   \* holder of an open slot nobody uses
  Closed    \* holder of a slot whose instance is not there

\* What an instance of this module has to choose the constants by.
HoldersDistinct == Vacant \notin Jobs /\ Closed \notin Jobs /\ Vacant # Closed

VARIABLES
  phase,    \* phase of each job
  holder    \* the job each slot is held by

vars == <<phase, holder>>

Slots == Instances \X Places

Phases == {"new", "waiting", "starting", "running", "over"}

TypeOK ==
  /\ phase \in [Jobs -> Phases]
  /\ holder \in [Slots -> Jobs \cup {Vacant, Closed}]

Init ==
  /\ phase = [j \in Jobs |-> "new"]
  /\ holder = [s \in Slots |-> Closed]

Move(j, from, to) ==
  /\ phase[j] \in from
  /\ phase' = [phase EXCEPT ![j] = to]

Submit(j) == Move(j, {"new"}, "waiting") /\ UNCHANGED holder

\* An instance is being launched for the job, or that was given up for now.
Start(j) == Move(j, {"waiting"}, "starting") /\ UNCHANGED holder
Withdraw(j) == Move(j, {"starting"}, "waiting") /\ UNCHANGED holder

\* The job takes a slot that is free ...
Assign(j) ==
  /\ Move(j, {"waiting"}, "running")
  /\ \E s \in Slots : /\ holder[s] = Vacant
                      /\ holder' = [holder EXCEPT ![s] = j]

\* ... or one of those that open with its instance.
Open(j) ==
  /\ Move(j, {"starting"}, "running")
  /\ \E s \in Slots :
       /\ \A t \in Slots : t[1] = s[1] => holder[t] = Closed
       /\ holder' = [t \in Slots |-> IF t = s THEN j
                                     ELSE IF t[1] = s[1] THEN Vacant
                                     ELSE holder[t]]

\* A job may be over before it ever ran.
Finish(j) == Move(j, {"waiting", "starting", "running"}, "over") /\ UNCHANGED holder

Release(s) ==
  /\ \E j \in Jobs : holder[s] = j /\ phase[j] = "over"
  /\ holder' = [holder EXCEPT ![s] = Vacant]
  /\ UNCHANGED phase

Next ==
  \/ \E j \in Jobs : \/ Submit(j) \/ Start(j) \/ Withdraw(j) \/ Finish(j)
                     \/ Assign(j) \/ Open(j)
  \/ \E s \in Slots : Release(s)

Spec == Init /\ [][Next]_vars

\* A running job holds exactly one slot, a job that is not yet running none, and no
\* two slots are ever held by the same job.
OneSlotEach ==
  /\ \A j \in Jobs : phase[j] = "running" => \E s \in Slots : holder[s] = j
  /\ \A s \in Slots : \A j \in Jobs :
       holder[s] = j => /\ phase[j] \in {"running", "over"}
                        /\ \A t \in Slots : holder[t] = j => t = s
=============================================================================
