-------------------------------- MODULE Life --------------------------------
(***************************************************************************)
(* What the Lambdas promise about an instance, with no rows, snapshots or  *)
(* sweeps: it is launched, serves jobs, drains and is dead, in this order  *)
(* and once; jobs come only while it serves, and while it serves nobody    *)
(* but EC2 itself turns it off.                                            *)
(***************************************************************************)
CONSTANTS
  Instances,
  Jobs,
  Reclaimable  \* whether EC2 takes instances back

\* What an instance of this module has to choose the constant by.
ReclaimableIsBoolean == Reclaimable \in BOOLEAN

VARIABLES
  phase,   \* phase of each instance
  up,      \* whether it runs
  tenants  \* the jobs that have a slot of it

vars == <<phase, up, tenants>>

Phases == {"new", "launching", "serving", "draining", "dead"}

TypeOK ==
  /\ phase \in [Instances -> Phases]
  /\ up \in [Instances -> BOOLEAN]
  /\ tenants \in [Instances -> SUBSET Jobs]

Init ==
  /\ phase = [r \in Instances |-> "new"]
  /\ up = [r \in Instances |-> FALSE]
  /\ tenants = [r \in Instances |-> {}]

Move(r, from, to) ==
  /\ phase[r] \in from
  /\ phase' = [phase EXCEPT ![r] = to]

Begin(r) == Move(r, {"new"}, "launching") /\ UNCHANGED <<up, tenants>>

TurnOn(r) ==
  /\ phase[r] = "launching"
  /\ up' = [up EXCEPT ![r] = TRUE]
  /\ UNCHANGED <<phase, tenants>>

TurnOff(r) ==
  /\ phase[r] # "serving" \/ Reclaimable
  /\ up' = [up EXCEPT ![r] = FALSE]
  /\ UNCHANGED <<phase, tenants>>

\* The instance opens with its first job.
Open(r, j) ==
  /\ up[r] \/ Reclaimable
  /\ Move(r, {"launching"}, "serving")
  /\ tenants' = [tenants EXCEPT ![r] = {j}]
  /\ UNCHANGED up

Enter(r, j) ==
  /\ phase[r] = "serving"
  /\ tenants' = [tenants EXCEPT ![r] = @ \cup {j}]
  /\ UNCHANGED <<phase, up>>

Leave(r, j) ==
  /\ j \in tenants[r]
  /\ tenants' = [tenants EXCEPT ![r] = @ \ {j}]
  /\ UNCHANGED <<phase, up>>

Drain(r) == Move(r, {"launching", "serving"}, "draining") /\ UNCHANGED <<up, tenants>>

\* A launch is given up, or a drained instance is gone.
Bury(r) ==
  /\ phase[r] = "launching" \/ ~up[r]
  /\ Move(r, {"launching", "draining"}, "dead")
  /\ UNCHANGED <<up, tenants>>

Next ==
  \E r \in Instances :
    \/ Begin(r) \/ TurnOn(r) \/ TurnOff(r) \/ Drain(r) \/ Bury(r)
    \/ \E j \in Jobs : Open(r, j) \/ Enter(r, j) \/ Leave(r, j)

Spec == Init /\ [][Next]_vars

-----------------------------------------------------------------------------
\* An instance that serves is running, unless EC2 took it back.
ServingIsUp == \A r \in Instances : phase[r] = "serving" => up[r] \/ Reclaimable

\* A job is given a slot only of an instance that serves it and runs.
Comes(r, j) == j \in tenants'[r] \ tenants[r]
Served(r) == phase'[r] = "serving" /\ (up'[r] \/ Reclaimable)
WelcomedWhileUp == [][\A r \in Instances, j \in Jobs : Comes(r, j) => Served(r)]_vars
=============================================================================
