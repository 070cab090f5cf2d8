-------------------------- MODULE ProvisionProofs --------------------------
(***************************************************************************)
(* What is proved of Provision for every set of jobs, runners, profiles    *)
(* and invocations, every number of slots, every receive count and every   *)
(* combination of faults.                                                  *)
(***************************************************************************)
EXTENDS Provision, TableProofs

\* Before the claim, and while the invocation owns the row of a new runner.
Before == {"create", "query", "allocate", "claim"}
Owning == {"launch", "failRow", "setInstance", "bind"}

\* What an invocation remembers at each step.
Remembers(x) ==
  /\ x.pc # "idle" => x.msg \in Messages
  /\ x.pc \in Before \cup Section => x.msg.kind = "queued" /\ x.profile \in Profiles
  /\ x.pc \in {"get", "complete", "free"} => x.msg.kind = "completed"
  /\ x.pc \in {"complete", "free"} => x.profile \in Profiles
  /\ x.pc \in Owning \cup {"free"} => x.runner \in Runners

Shape ==
  /\ \A w \in Workers : Remembers(inv[w])
  /\ \A j \in Jobs : jobs[j].status # "ABSENT" => jobs[j].profile \in Profiles

Typed == TypeOK /\ Shape

SameInvBut(w) == \A v \in Workers \ {w} : inv'[v] = inv[v]
Keeps(w) ==
  /\ inv'[w].msg = inv[w].msg /\ inv'[w].profile = inv[w].profile
  /\ inv'[w].runner = inv[w].runner /\ inv'[w].slot = inv[w].slot

LEMMA Moved ==
  ASSUME inv \in [Workers -> Invocation], NEW w \in Workers, NEW s \in Steps, GoTo(w, s)
  PROVE  /\ inv' \in [Workers -> Invocation] /\ SameInvBut(w) /\ Keeps(w)
         /\ inv'[w].pc = s /\ inv'[w].cands = inv[w].cands
BY DEF GoTo, Invocation, SameInvBut, Keeps

LEMMA Changed ==
  ASSUME inv \in [Workers -> Invocation], NEW w \in Workers, NEW x \in Invocation,
         inv' = [inv EXCEPT ![w] = x]
  PROVE  inv' \in [Workers -> Invocation] /\ SameInvBut(w) /\ inv'[w] = x
BY DEF SameInvBut

LEMMA IdleType == Idle \in Invocation
BY TableConstants DEF Idle, Invocation, Steps, NoMessage, Candidate

LEMMA Ended ==
  ASSUME inv \in [Workers -> Invocation], NEW w \in Workers, inv' = [inv EXCEPT ![w] = Idle]
  PROVE  /\ inv' \in [Workers -> Invocation] /\ SameInvBut(w)
         /\ inv'[w].pc = "idle" /\ inv'[w].msg = NoMessage /\ inv'[w].cands = {}
<1>1. Idle.pc = "idle" /\ Idle.msg = NoMessage /\ Idle.cands = {}
  BY DEF Idle
<1>2. QED
  BY <1>1, IdleType DEF SameInvBut

LEMMA GivenBack ==
  ASSUME TypeOK, NEW w \in Workers, inv[w].msg \in Messages, GiveBack(w)
  PROVE  /\ inv' \in [Workers -> Invocation] /\ SameInvBut(w)
         /\ inv'[w].pc = "idle" /\ inv'[w].msg = NoMessage /\ inv'[w].cands = {}
         /\ queue' \in SUBSET Messages /\ sent' = sent /\ deliveries' = deliveries
<1>1. inv' = [inv EXCEPT ![w] = Idle]
  BY DEF GiveBack
<1>2. queue' \in SUBSET Messages /\ sent' = sent /\ deliveries' = deliveries
  BY DEF GiveBack, TypeOK
<1>3. QED
  BY <1>1, <1>2, Ended DEF TypeOK

LEMMA TypedInit == Init => Typed
<1>1. ASSUME Init PROVE TypeOK
  <2>1. TableTypeOK
    BY <1>1, TableInitTypes DEF Init
  <2>2. QED
    BY <1>1, <2>1, IdleType DEF Init, TypeOK
<1>2. ASSUME Init PROVE Shape
  <2>1. Idle.pc = "idle" /\ NoJobRow.status = "ABSENT"
    BY DEF Idle, NoJobRow, UnboundJob
  <2>2. QED
    BY <1>2, <2>1 DEF Init, TableInit, Shape, Remembers, Before, Section, Owning
<1>3. QED
  BY <1>1, <1>2 DEF Typed

\* A step of invocation w leaves the others, and every job row but its own, alone.
LEMMA ShapeKept ==
  ASSUME Typed, NEW w \in Workers, SameInvBut(w), Remembers(inv'[w]),
         \A j \in Jobs : jobs'[j].status # "ABSENT" => jobs'[j].profile \in Profiles
  PROVE  Shape'
BY DEF Typed, Shape, SameInvBut

LEMMA IdleRemembers == ASSUME NEW x, x.pc = "idle" PROVE Remembers(x)
BY DEF Remembers, Before, Section, Owning

\* Moving on within handleQueued or provisionRunner, or to its end.
LEMMA MovedRemembers ==
  ASSUME Typed, NEW w \in Workers, ~At(w, "idle"), Keeps(w), inv'[w].pc \in Steps,
         \/ inv'[w].pc = "done"
         \/ inv[w].pc \in Before /\ inv'[w].pc \in Before \cup {"createRow"}
         \/ inv[w].pc \in Section /\ inv'[w].pc = "revert"
         \/ inv[w].pc \in Owning /\ inv'[w].pc \in Owning
  PROVE  Remembers(inv'[w])
BY DEF Typed, Shape, Remembers, Keeps, At, Before, Section, Owning

LEMMA JobOfType ==
  ASSUME Typed, NEW w \in Workers, ~At(w, "idle")
  PROVE  inv[w].msg \in Messages /\ JobOf(w) \in Jobs /\ inv[w].msg.kind \in Kinds
BY DEF Typed, Shape, Remembers, At, JobOf, Messages

LEMMA TypedQueued ==
  ASSUME Typed, NEW w \in Workers, Queued(w)
  PROVE  Typed'
<1> USE DEF Typed
<1>1. CASE Create(w)
  <2>1. JobOf(w) \in Jobs /\ inv[w].profile \in Profiles /\ ~At(w, "idle") /\ inv[w].pc \in Before
    BY <1>1, JobOfType DEF Create, At, Shape, Remembers, Before
  <2>2. CASE CreateJob(JobOf(w), inv[w].profile) /\ GoTo(w, "query")
    <3>1. TypeOK' /\ Keeps(w) /\ SameInvBut(w) /\ inv'[w].pc = "query"
      BY <1>1, <2>1, <2>2, CreateJobEffect, Moved DEF Create, TypeOK, queueVars, Steps, ErrorReturned
    <3>2. Remembers(inv'[w])
      BY <2>1, <3>1, MovedRemembers DEF TypeOK, Invocation, Before, Steps, ErrorReturned
    <3>3. \A j \in Jobs : jobs'[j].status # "ABSENT" => jobs'[j].profile \in Profiles
      BY <2>1, <2>2, CreateJobEffect DEF TypeOK, Shape, SameJobsBut
    <3>4. QED
      BY <3>1, <3>2, <3>3, ShapeKept
  <2>3. CASE /\ jobs[JobOf(w)].status = "QUEUED"
             /\ inv' = [inv EXCEPT ![w].pc = "query", ![w].retry = jobs[JobOf(w)].retry]
             /\ UNCHANGED table
    <3>1. jobs[JobOf(w)].retry \in Nat /\ "query" \in Steps
      BY <2>1 DEF TypeOK, TableTypeOK, JobRow, Steps, ErrorReturned
    <3>2. inv' \in [Workers -> Invocation] /\ SameInvBut(w) /\ Keeps(w) /\ inv'[w].pc = "query"
      <4> DEFINE n == jobs[JobOf(w)].retry
                 x == [inv[w] EXCEPT !.pc = "query", !.retry = n]
      <4>1. inv' = [inv EXCEPT ![w] = x]
        BY <2>3
      <4> HIDE DEF n
      <4>2. /\ x \in Invocation /\ x.pc = "query" /\ x.msg = inv[w].msg
            /\ x.profile = inv[w].profile /\ x.runner = inv[w].runner /\ x.slot = inv[w].slot
        BY <3>1 DEF TypeOK, Invocation, n
      <4> HIDE DEF x
      <4>3. QED
        BY <4>1, <4>2, Changed DEF TypeOK, Keeps
    <3>3. Remembers(inv'[w])
      BY <2>1, <3>1, <3>2, MovedRemembers DEF Before
    <3>4. QED
      BY <1>1, <2>3, <3>2, <3>3, ShapeKept DEF Create, TypeOK, TableTypeOK, Shape, queueVars, table
  <2>4. CASE GoTo(w, "done") /\ UNCHANGED table
    <3>1. TypeOK' /\ Keeps(w) /\ SameInvBut(w) /\ inv'[w].pc = "done" /\ "done" \in Steps
      BY <1>1, <2>1, <2>4, Moved DEF Create, TypeOK, TableTypeOK, queueVars, table, Steps
    <3>2. QED
      BY <2>1, <2>4, <3>1, MovedRemembers, ShapeKept DEF table, Shape
  <2>5. QED
    BY <1>1, <2>2, <2>3, <2>4 DEF Create
<1>2. CASE Query(w)
  <2>1. IdleCandidates(inv[w].profile) \in SUBSET Candidate /\ "allocate" \in Steps
    BY DEF IdleCandidates, Steps, ErrorReturned
  <2>2. /\ inv' \in [Workers -> Invocation] /\ SameInvBut(w) /\ Keeps(w)
        /\ inv'[w].pc = "allocate"
    <3> DEFINE found == IdleCandidates(inv[w].profile)
               x == [inv[w] EXCEPT !.pc = "allocate", !.cands = found]
    <3>1. inv' = [inv EXCEPT ![w] = x]
      BY <1>2 DEF Query
    <3> HIDE DEF found
    <3>2. /\ x \in Invocation /\ x.pc = "allocate" /\ x.msg = inv[w].msg
          /\ x.profile = inv[w].profile /\ x.runner = inv[w].runner /\ x.slot = inv[w].slot
      BY <2>1 DEF TypeOK, Invocation, found
    <3> HIDE DEF x
    <3>3. QED
      BY <3>1, <3>2, Changed DEF TypeOK, Keeps
  <2>3. Remembers(inv'[w])
    BY <1>2, <2>1, <2>2, MovedRemembers DEF Query, At, Before
  <2>4. QED
    BY <1>2, <2>2, <2>3, ShapeKept DEF Query, TypeOK, TableTypeOK, Shape, queueVars
<1>3. CASE Allocate(w)
  <2>1. PICK c \in inv[w].cands :
          \/ /\ AllocateIdleRunner(c, JobOf(w))
             /\ inv' = [inv EXCEPT ![w].pc = "done", ![w].cands = {}]
          \/ /\ ~CanAllocate(c, JobOf(w))
             /\ inv' = [inv EXCEPT ![w].cands = @ \ {c}]
             /\ UNCHANGED table
    BY <1>3 DEF Allocate
  <2>2. JobOf(w) \in Jobs /\ ~At(w, "idle") /\ inv[w].pc = "allocate" /\ c \in Candidate
    BY <1>3, <2>1, JobOfType DEF Allocate, At, TypeOK, Invocation
  <2>3. CASE /\ AllocateIdleRunner(c, JobOf(w))
             /\ inv' = [inv EXCEPT ![w].pc = "done", ![w].cands = {}]
    <3>1. "done" \in Steps
      BY DEF Steps
    <3>2. /\ inv' \in [Workers -> Invocation] /\ SameInvBut(w) /\ Keeps(w)
          /\ inv'[w].pc = "done"
      BY <2>3, <3>1 DEF TypeOK, Invocation, SameInvBut, Keeps
    <3>3. Remembers(inv'[w])
      BY <2>2, <3>1, <3>2, MovedRemembers
    <3>4. /\ TableTypeOK' /\ SameJobsBut(JobOf(w)) /\ CanAllocate(c, JobOf(w))
          /\ jobs'[JobOf(w)] = [jobs[JobOf(w)] EXCEPT !.status = "ALLOCATED",
                                          !.runner = c.runner, !.slot = c.slot]
      BY <2>2, <2>3, AllocateEffect DEF TypeOK
    <3>5. jobs[JobOf(w)] \in JobRow /\ jobs[JobOf(w)].status = "QUEUED"
      BY <2>2, <3>4 DEF CanAllocate, TypeOK, TableTypeOK
    <3>6. \A j \in Jobs : jobs'[j].status # "ABSENT" => jobs'[j].profile \in Profiles
      <4>1. jobs'[JobOf(w)].profile = jobs[JobOf(w)].profile /\ jobs[JobOf(w)].status # "ABSENT"
        BY <3>4, <3>5 DEF JobRow
      <4>2. QED
        BY <2>2, <3>4, <4>1 DEF Shape, SameJobsBut
    <3>7. QED
      BY <1>3, <3>2, <3>3, <3>4, <3>6, ShapeKept DEF Allocate, TypeOK, queueVars
  <2>4. CASE /\ inv' = [inv EXCEPT ![w].cands = @ \ {c}]
             /\ UNCHANGED table
    <3>1. /\ inv' \in [Workers -> Invocation] /\ SameInvBut(w) /\ Keeps(w)
          /\ inv'[w].pc = "allocate" /\ "allocate" \in Steps
      BY <2>2, <2>4 DEF TypeOK, Invocation, SameInvBut, Keeps, Steps, ErrorReturned
    <3>2. Remembers(inv'[w])
      BY <2>2, <3>1, MovedRemembers DEF Before
    <3>3. QED
      BY <1>3, <2>4, <3>1, <3>2, ShapeKept DEF Allocate, TypeOK, TableTypeOK, Shape, queueVars, table
  <2>5. QED
    BY <2>1, <2>3, <2>4
<1>4. ASSUME RetryQuery(w) \/ StopRetrying(w) PROVE Typed'
  <2>1. PICK s \in {"query", "claim"} : GoTo(w, s)
    BY <1>4 DEF RetryQuery, StopRetrying
  <2>2. /\ inv' \in [Workers -> Invocation] /\ SameInvBut(w) /\ Keeps(w)
        /\ inv'[w].pc = s /\ s \in Steps
    BY <2>1, Moved DEF TypeOK, Steps, ErrorReturned
  <2>3. Remembers(inv'[w])
    BY <1>4, <2>2, MovedRemembers DEF RetryQuery, StopRetrying, At, Before
  <2>4. QED
    BY <1>4, <2>2, <2>3, ShapeKept DEF RetryQuery, StopRetrying, TypeOK, TableTypeOK, Shape, queueVars
<1>5. CASE Claim(w)
  <2>1. JobOf(w) \in Jobs /\ ~At(w, "idle") /\ inv[w].pc \in Before
    BY <1>5, JobOfType DEF Claim, At, Before
  <2>2. CASE /\ ClaimForProvisioning(JobOf(w)) /\ GoTo(w, "createRow")
             /\ attempts' = [attempts EXCEPT ![JobOf(w)] = @ + 1]
    <3>1. /\ inv' \in [Workers -> Invocation] /\ SameInvBut(w) /\ Keeps(w)
          /\ inv'[w].pc = "createRow" /\ "createRow" \in Steps
      BY <2>2, Moved DEF TypeOK, Steps, Section
    <3>2. Remembers(inv'[w])
      BY <2>1, <3>1, MovedRemembers
    <3>3. /\ TableTypeOK' /\ SameJobsBut(JobOf(w)) /\ jobs[JobOf(w)].status = "QUEUED"
          /\ jobs'[JobOf(w)] = [jobs[JobOf(w)] EXCEPT !.status = "PROVISIONING"]
      BY <2>1, <2>2, ClaimEffect DEF TypeOK
    <3>4. \A j \in Jobs : jobs'[j].status # "ABSENT" => jobs'[j].profile \in Profiles
      BY <2>1, <3>3 DEF TypeOK, TableTypeOK, Shape, SameJobsBut, JobRow
    <3>5. attempts' \in [Jobs -> Nat]
      BY <2>1, <2>2 DEF TypeOK
    <3>6. QED
      BY <1>5, <3>1, <3>2, <3>3, <3>4, <3>5, ShapeKept DEF Claim, TypeOK, queueVars
  <2>3. CASE GoTo(w, "done") /\ UNCHANGED <<table, attempts>>
    <3>1. /\ inv' \in [Workers -> Invocation] /\ SameInvBut(w) /\ Keeps(w)
          /\ inv'[w].pc = "done" /\ "done" \in Steps
      BY <2>3, Moved DEF TypeOK, Steps
    <3>2. QED
      BY <1>5, <2>1, <2>3, <3>1, MovedRemembers, ShapeKept
      DEF Claim, TypeOK, TableTypeOK, Shape, queueVars, table
  <2>4. QED
    BY <1>5, <2>2, <2>3 DEF Claim
<1>6. QED
  BY <1>1, <1>2, <1>3, <1>4, <1>5 DEF Queued

\* The profile of every job row that is there survives a change of its other fields.
LEMMA ProfilesKept ==
  ASSUME Typed, NEW j \in Jobs, SameJobsBut(j), jobs'[j].profile = jobs[j].profile,
         jobs[j].status # "ABSENT"
  PROVE  \A k \in Jobs : jobs'[k].status # "ABSENT" => jobs'[k].profile \in Profiles
BY DEF Typed, Shape, SameJobsBut

\* An invocation that read or wrote its job's row finds it from then on.
Known == {"query", "allocate", "claim", "complete", "free"} \cup Section
RowsThere == \A w \in Workers : inv[w].pc \in Known => jobs[JobOf(w)].status # "ABSENT"

LEMMA TypedProvision ==
  ASSUME Typed, RowsThere, NEW w \in Workers, ProvisionRunner(w)
  PROVE  Typed'
<1> USE DEF Typed
<1>1. JobOf(w) \in Jobs /\ ~At(w, "idle") /\ inv[w].pc \in Section /\ inv[w].msg \in Messages
      /\ inv[w].profile \in Profiles /\ (inv[w].pc \in Owning => inv[w].runner \in Runners)
  <2>1. inv[w].pc \in Section
    BY DEF ProvisionRunner, CreateRow, CreateRowFails, Launch, LaunchFails, FailRow, Revert,
           SetInstance, Bind, At, Section
  <2>2. ~At(w, "idle")
    BY <2>1 DEF At, Section
  <2>3. QED
    BY <2>1, <2>2, JobOfType DEF Shape, Remembers
<1>2. jobs[JobOf(w)].status # "ABSENT" /\ jobs[JobOf(w)] \in JobRow
  BY <1>1 DEF RowsThere, Known, TypeOK, TableTypeOK
<1>d. ASSUME GoTo(w, "done")
      PROVE  inv' \in [Workers -> Invocation] /\ SameInvBut(w) /\ Remembers(inv'[w])
  <2>1. /\ inv' \in [Workers -> Invocation] /\ SameInvBut(w) /\ Keeps(w)
        /\ inv'[w].pc = "done" /\ "done" \in Steps
    BY <1>d, Moved DEF TypeOK, Steps
  <2>2. QED
    BY <1>1, <2>1, MovedRemembers
<1>r. ASSUME GoTo(w, "revert")
      PROVE  inv' \in [Workers -> Invocation] /\ SameInvBut(w) /\ Remembers(inv'[w])
  <2>1. /\ inv' \in [Workers -> Invocation] /\ SameInvBut(w) /\ Keeps(w)
        /\ inv'[w].pc = "revert" /\ "revert" \in Steps
    BY <1>r, Moved DEF TypeOK, Steps, Section
  <2>2. QED
    BY <1>1, <2>1, MovedRemembers
<1>3. ASSUME NEW s \in Owning, GoTo(w, s), inv[w].pc \in Owning
      PROVE  inv' \in [Workers -> Invocation] /\ SameInvBut(w) /\ Remembers(inv'[w])
  <2>1. s \in Steps
    BY DEF Owning, Steps, Section
  <2>2. /\ inv' \in [Workers -> Invocation] /\ SameInvBut(w) /\ Keeps(w) /\ inv'[w].pc = s
    BY <1>3, <2>1, Moved DEF TypeOK
  <2>3. QED
    BY <1>1, <1>3, <2>1, <2>2, MovedRemembers
<1>4. ASSUME GiveBack(w)
      PROVE  /\ inv' \in [Workers -> Invocation] /\ SameInvBut(w) /\ Remembers(inv'[w])
             /\ queue' \in SUBSET Messages /\ sent' = sent /\ deliveries' = deliveries
  BY <1>1, <1>4, GivenBack, IdleRemembers
<1>b. TableTypeOK
  BY DEF TypeOK
<1> USE DEF TypeOK
<1>5. CASE CreateRow(w)
  <2>1. PICK r \in Runners :
          /\ CreateProvisioning(r, inv[w].profile)
          /\ inv' = [inv EXCEPT ![w].pc = "launch", ![w].runner = r]
    BY <1>5 DEF CreateRow
  <2>2. TableTypeOK' /\ jobs' = jobs
    BY <1>1, <2>1, CreateRowEffect
  <2>3. "launch" \in Steps
    BY DEF Steps, Section
  <2>4. /\ inv' \in [Workers -> Invocation] /\ SameInvBut(w)
        /\ inv'[w].pc = "launch" /\ inv'[w].runner = r
        /\ inv'[w].msg = inv[w].msg /\ inv'[w].profile = inv[w].profile
    <3> DEFINE x == [inv[w] EXCEPT !.pc = "launch", !.runner = r]
    <3>1. inv' = [inv EXCEPT ![w] = x]
      BY <2>1
    <3>2. /\ x \in Invocation /\ x.pc = "launch" /\ x.runner = r
          /\ x.msg = inv[w].msg /\ x.profile = inv[w].profile
      BY <2>3 DEF Invocation
    <3> HIDE DEF x
    <3>3. QED
      BY <3>1, <3>2, Changed
  <2>5. Remembers(inv'[w])
    BY <1>1, <2>4 DEF Shape, Remembers, Before, Section, Owning
  <2>6. QED
    BY <1>5, <2>2, <2>4, <2>5, ShapeKept DEF CreateRow, Shape, queueVars
<1>6. CASE CreateRowFails(w)
  <2>1. TableTypeOK' /\ jobs' = jobs
    BY <1>1, <1>6, CreateRowEffect DEF CreateRowFails, table, TableTypeOK
  <2>2. inv' \in [Workers -> Invocation] /\ SameInvBut(w) /\ Remembers(inv'[w])
    BY <1>r, <1>6 DEF CreateRowFails
  <2>3. QED
    BY <1>6, <2>1, <2>2, ShapeKept DEF CreateRowFails, Shape, queueVars
<1>7. ASSUME Launch(w) \/ LaunchFails(w) PROVE Typed'
  <2>1. PICK up \in BOOLEAN : ec2' = [ec2 EXCEPT ![inv[w].runner] = up]
    BY <1>7 DEF Launch, LaunchFails
  <2>2. PICK s \in {"setInstance", "failRow"} : GoTo(w, s)
    BY <1>7 DEF Launch, LaunchFails
  <2>3. inv[w].pc \in Owning /\ s \in Owning /\ s \in Steps
    BY <1>7 DEF Launch, LaunchFails, At, Owning, Steps, Section
  <2>4. ec2' \in [Runners -> BOOLEAN]
    BY <2>1
  <2>5. QED
    BY <1>3, <1>7, <2>2, <2>3, <2>4, ShapeKept
    DEF Launch, LaunchFails, TableTypeOK, Shape, queueVars
<1>8. CASE FailRow(w)
  <2>1. inv[w].runner \in Runners
    BY <1>1, <1>8 DEF FailRow, At, Owning
  <2>2. TableTypeOK' /\ jobs' = jobs
    BY <1>8, <2>1, FailedEffect DEF FailRow, table, TableTypeOK
  <2>3. inv' \in [Workers -> Invocation] /\ SameInvBut(w) /\ Remembers(inv'[w])
    BY <1>r, <1>8 DEF FailRow
  <2>4. QED
    BY <1>8, <2>2, <2>3, ShapeKept DEF FailRow, Shape, queueVars
<1>9. CASE Revert(w)
  <2>1. inv[w].retry \in Nat
    BY DEF Invocation
  <2>2. /\ TableTypeOK' /\ SameJobsBut(JobOf(w))
        /\ jobs'[JobOf(w)].profile = jobs[JobOf(w)].profile
    <3>1. CASE RevertProvisioning(JobOf(w), inv[w].retry)
      <4>1. jobs[JobOf(w)] \in JobRow
        BY <1>1, <1>2 DEF TableTypeOK
      <4>2. QED
        BY <1>1, <1>2, <2>1, <3>1, <4>1, RevertEffect DEF JobRow
    <3>2. CASE UNCHANGED table
      BY <3>2 DEF table, TableTypeOK, SameJobsBut
    <3>3. QED
      BY <1>9, <3>1, <3>2 DEF Revert
  <2>3. \A k \in Jobs : jobs'[k].status # "ABSENT" => jobs'[k].profile \in Profiles
    BY <1>1, <1>2, <2>2, ProfilesKept
  <2>4. QED
    BY <1>4, <1>9, <2>2, <2>3, ShapeKept DEF Revert
<1>10. CASE SetInstance(w)
  <2>1. inv[w].runner \in Runners /\ inv[w].pc \in Owning
    BY <1>1, <1>10 DEF SetInstance, At, Owning
  <2>2. TableTypeOK' /\ jobs' = jobs
    BY <1>10, <2>1, SetInstanceEffect DEF SetInstance
  <2>3. QED
    BY <1>3, <1>10, <2>1, <2>2, ShapeKept
    DEF SetInstance, Shape, queueVars, Steps, Section, Owning
<1>11. CASE Bind(w)
  <2>1. inv[w].runner \in Runners /\ inv[w].pc \in Owning
    BY <1>1, <1>11 DEF Bind, At, Owning
  <2>2. CASE /\ BindToJob(inv[w].runner, JobOf(w), inv[w].profile)
             /\ GoTo(w, "done") /\ UNCHANGED queueVars
    <3>1. /\ TableTypeOK' /\ SameJobsBut(JobOf(w))
          /\ jobs'[JobOf(w)] = [jobs[JobOf(w)] EXCEPT !.status = "ALLOCATED",
                                          !.runner = inv[w].runner, !.slot = 0]
      <4> DEFINE r == inv[w].runner
                 j == JobOf(w)
                 p == inv[w].profile
      <4>1. r \in Runners /\ j \in Jobs /\ p \in Profiles /\ BindToJob(r, j, p)
        BY <1>1, <2>1, <2>2
      <4> HIDE DEF r, j, p
      <4>2. /\ TableTypeOK' /\ SameJobsBut(j)
            /\ jobs'[j] = [jobs[j] EXCEPT !.status = "ALLOCATED", !.runner = r, !.slot = 0]
        BY <4>1, <1>b, BindEffect
      <4>3. QED
        BY <4>2 DEF r, j, p
    <3>2. jobs'[JobOf(w)].profile = jobs[JobOf(w)].profile
      BY <1>2, <3>1 DEF JobRow
    <3>3. \A k \in Jobs : jobs'[k].status # "ABSENT" => jobs'[k].profile \in Profiles
      BY <1>1, <1>2, <3>1, <3>2, ProfilesKept
    <3>4. inv' \in [Workers -> Invocation] /\ SameInvBut(w) /\ Remembers(inv'[w])
      BY <1>d, <2>2
    <3>5. Shape'
      BY <3>3, <3>4, ShapeKept
    <3>6. QED
      BY <1>11, <2>2, <3>1, <3>4, <3>5 DEF Bind, queueVars
  <2>3. CASE GiveBack(w) /\ UNCHANGED table
    <3>1. Shape'
      BY <1>4, <2>3, ShapeKept DEF table, Shape
    <3>2. QED
      BY <1>4, <1>11, <2>3, <3>1 DEF Bind, table, TableTypeOK
  <2>4. QED
    BY <1>11, <2>2, <2>3 DEF Bind
<1>12. QED
  BY <1>5, <1>6, <1>7, <1>8, <1>9, <1>10, <1>11 DEF ProvisionRunner

LEMMA TypedCompleted ==
  ASSUME Typed, RowsThere, NEW w \in Workers, Completed(w)
  PROVE  Typed'
<1> USE DEF Typed
<1>1. /\ JobOf(w) \in Jobs /\ ~At(w, "idle") /\ inv[w].msg \in Messages
      /\ inv[w].msg.kind = "completed" /\ Remembers(inv[w])
  <2>1. inv[w].pc \in {"get", "complete", "free"}
    BY DEF Completed, Get, Complete, Free, At
  <2>2. ~At(w, "idle")
    BY <2>1 DEF At
  <2>3. QED
    BY <2>1, <2>2, JobOfType DEF Shape, Remembers
<1>2. ASSUME GoTo(w, "done")
      PROVE  inv' \in [Workers -> Invocation] /\ SameInvBut(w) /\ Remembers(inv'[w])
  <2>1. /\ inv' \in [Workers -> Invocation] /\ SameInvBut(w) /\ Keeps(w)
        /\ inv'[w].pc = "done" /\ "done" \in Steps
    BY <1>2, Moved DEF TypeOK, Steps
  <2>2. QED
    BY <1>1, <2>1, MovedRemembers
<1>3. CASE Get(w)
  <2>1. CASE GoTo(w, "done")
    BY <1>2, <1>3, <2>1, ShapeKept DEF Get, TypeOK, TableTypeOK, Shape, queueVars
  <2>2. CASE /\ jobs[JobOf(w)].status # "ABSENT"
             /\ inv' = [inv EXCEPT ![w] = [@ EXCEPT !.pc = "complete",
                          !.profile = jobs[JobOf(w)].profile,
                          !.runner = jobs[JobOf(w)].runner, !.slot = jobs[JobOf(w)].slot]]
    <3>1. jobs[JobOf(w)] \in JobRow /\ jobs[JobOf(w)].profile \in Profiles
      BY <1>1, <2>2 DEF TypeOK, TableTypeOK, Shape
    <3>2. /\ jobs[JobOf(w)].runner \in Runners \cup {NoRunner}
          /\ jobs[JobOf(w)].slot \in SlotIdx /\ "complete" \in Steps
      BY <3>1 DEF JobRow, Steps, ErrorReturned
    <3>3. /\ inv' \in [Workers -> Invocation] /\ SameInvBut(w)
          /\ inv'[w].pc = "complete" /\ inv'[w].msg = inv[w].msg
          /\ inv'[w].profile = jobs[JobOf(w)].profile
      <4> DEFINE job == jobs[JobOf(w)]
                 x == [inv[w] EXCEPT !.pc = "complete", !.profile = job.profile,
                                     !.runner = job.runner, !.slot = job.slot]
      <4>1. inv[w] \in Invocation /\ inv' = [inv EXCEPT ![w] = x]
        BY <2>2 DEF TypeOK
      <4>2. /\ x \in Invocation /\ x.pc = "complete" /\ x.msg = inv[w].msg
            /\ x.profile = job.profile
        <5> HIDE DEF job
        <5>1. job.profile \in Profiles /\ job.runner \in Runners \cup {NoRunner}
              /\ job.slot \in SlotIdx
          BY <3>1, <3>2 DEF job
        <5>2. QED
          BY <3>2, <4>1, <5>1 DEF Invocation
      <4> HIDE DEF x
      <4>3. QED
        BY <4>1, <4>2, Changed DEF TypeOK, job
    <3>4. Remembers(inv'[w])
      BY <1>1, <3>1, <3>3 DEF Remembers, Before, Section, Owning
    <3>5. QED
      BY <1>3, <3>3, <3>4, ShapeKept DEF Get, TypeOK, TableTypeOK, Shape, queueVars
  <2>3. QED
    BY <1>3, <2>1, <2>2 DEF Get
<1>4. CASE Complete(w)
  <2>1. jobs[JobOf(w)].status # "ABSENT" /\ jobs[JobOf(w)] \in JobRow
    BY <1>1, <1>4 DEF Complete, At, RowsThere, Known, TypeOK, TableTypeOK
  <2>2. /\ TableTypeOK' /\ SameJobsBut(JobOf(w))
        /\ jobs'[JobOf(w)] = [jobs[JobOf(w)] EXCEPT !.status = "COMPLETED"]
    BY <1>1, <1>4, CompleteEffect DEF Complete, TypeOK
  <2>3. \A k \in Jobs : jobs'[k].status # "ABSENT" => jobs'[k].profile \in Profiles
    BY <1>1, <2>1, <2>2, ProfilesKept DEF JobRow
  <2>4. CASE inv[w].runner = NoRunner
    BY <1>2, <1>4, <2>2, <2>3, <2>4, ShapeKept DEF Complete, TypeOK, queueVars
  <2>5. CASE inv[w].runner # NoRunner
    <3>1. inv[w].runner \in Runners
      BY <2>5 DEF TypeOK, Invocation
    <3>2. /\ inv' \in [Workers -> Invocation] /\ SameInvBut(w) /\ Keeps(w)
          /\ inv'[w].pc = "free"
      BY <1>4, <2>5, Moved DEF Complete, TypeOK, Steps, ErrorReturned
    <3>3. Remembers(inv'[w])
      BY <1>1, <1>4, <3>1, <3>2 DEF Complete, At, Keeps, Remembers, Before, Section, Owning
    <3>4. QED
      BY <1>4, <2>2, <2>3, <3>2, <3>3, ShapeKept DEF Complete, TypeOK, queueVars
  <2>6. QED
    BY <2>4, <2>5
<1>5. CASE Free(w)
  <2>1. inv[w].runner \in Runners /\ inv[w].slot \in SlotIdx /\ inv[w].profile \in Profiles
    BY <1>1, <1>5 DEF Free, At, Remembers, TypeOK, Invocation
  <2>2. MarkIdle(inv[w].runner, inv[w].slot, inv[w].profile)
    BY <1>5 DEF Free
  <2>3. TableTypeOK' /\ jobs' = jobs
    BY <2>1, <2>2, MarkIdleEffect DEF TypeOK
  <2>4. QED
    BY <1>2, <1>5, <2>3, ShapeKept DEF Free, TypeOK, Shape, queueVars
<1>6. QED
  BY <1>3, <1>4, <1>5 DEF Completed

\* Taking a message and being done with it.
LEMMA TypedMessage ==
  ASSUME Typed, NEW w \in Workers,
         \/ \E m \in Messages : Receive(w, m)
         \/ Ack(w) \/ Abandon(w)
  PROVE  Typed'
<1> USE DEF Typed
<1>1. ASSUME NEW m \in Messages, Receive(w, m) PROVE Typed'
  <2>1. PICK pc \in {"done", "create", "get"}, p \in Profiles \cup {NoPool} :
          /\ inv' = [inv EXCEPT ![w] = [@ EXCEPT !.msg = m, !.pc = pc, !.profile = p]]
          /\ pc = "create" => m.kind = "queued" /\ p \in Profiles
          /\ pc = "get" => m.kind = "completed"
    <3>1. inv[w].profile \in Profiles \cup {NoPool} /\ m.job \in Jobs
      BY DEF TypeOK, Invocation, Messages
    <3>2. CASE \E p \in Matching[m.job] : m.kind = "queued"
                 /\ inv' = [inv EXCEPT ![w] = [@ EXCEPT !.msg = m, !.pc = "create", !.profile = p]]
      BY <3>1, <3>2, MatchingAssumption
    <3>3. CASE \/ inv' = [inv EXCEPT ![w] = [@ EXCEPT !.msg = m, !.pc = "done"]]
               \/ /\ m.kind = "completed"
                  /\ inv' = [inv EXCEPT ![w] = [@ EXCEPT !.msg = m, !.pc = "get"]]
      <4>1. inv[w] \in Invocation
        BY DEF TypeOK
      <4>2. ASSUME NEW pc \in {"done", "get"}
            PROVE  [inv[w] EXCEPT !.msg = m, !.pc = pc]
                     = [inv[w] EXCEPT !.msg = m, !.pc = pc, !.profile = inv[w].profile]
        BY <4>1 DEF Invocation
      <4>3. QED
        BY <3>1, <3>3, <4>2
    <3>4. QED
      BY <1>1, <3>2, <3>3 DEF Receive
  <2>2. pc \in Steps
    BY DEF Steps, ErrorReturned
  <2>3. /\ inv' \in [Workers -> Invocation] /\ SameInvBut(w)
        /\ inv'[w].pc = pc /\ inv'[w].msg = m /\ inv'[w].profile = p
    <3> DEFINE x == [inv[w] EXCEPT !.msg = m, !.pc = pc, !.profile = p]
    <3>1. inv[w] \in Invocation /\ inv' = [inv EXCEPT ![w] = x]
      BY <2>1 DEF TypeOK
    <3>2. x \in Invocation /\ x.pc = pc /\ x.msg = m /\ x.profile = p
      BY <2>2, <3>1 DEF Invocation
    <3> HIDE DEF x
    <3>3. QED
      BY <3>1, <3>2, Changed DEF TypeOK
  <2>4. Remembers(inv'[w])
    BY <2>1, <2>3 DEF Remembers, Before, Section, Owning
  <2>5. queue' \in SUBSET Messages /\ deliveries' \in [Messages -> Nat]
    <3>1. queue' = queue \ {m} \/ queue' = queue
      BY <1>1 DEF Receive
    <3>2. deliveries' = [deliveries EXCEPT ![m] = @ + 1]
      BY <1>1 DEF Receive
    <3>3. queue \in SUBSET Messages /\ deliveries \in [Messages -> Nat]
      BY DEF TypeOK
    <3>4. QED
      BY <3>1, <3>2, <3>3
  <2>6. QED
    BY <1>1, <2>3, <2>4, <2>5, ShapeKept DEF Receive, TypeOK, TableTypeOK, Shape
<1>2. CASE Ack(w)
  <2>1. inv' \in [Workers -> Invocation] /\ SameInvBut(w) /\ inv'[w].pc = "idle"
    BY <1>2, Ended DEF Ack, TypeOK
  <2>2. QED
    BY <1>2, <2>1, IdleRemembers, ShapeKept DEF Ack, TypeOK, TableTypeOK, Shape, queueVars
<1>3. CASE Abandon(w)
  <2>1. ~At(w, "idle")
    BY <1>3 DEF Abandon, At, ErrorReturned
  <2>2. /\ inv' \in [Workers -> Invocation] /\ SameInvBut(w) /\ inv'[w].pc = "idle"
        /\ queue' \in SUBSET Messages /\ sent' = sent /\ deliveries' = deliveries
    BY <1>3, <2>1, JobOfType, GivenBack DEF Abandon
  <2>3. QED
    BY <1>3, <2>2, IdleRemembers, ShapeKept DEF Abandon, TypeOK, TableTypeOK, Shape
<1>4. QED
  BY <1>1, <1>2, <1>3

LEMMA TypedStep ==
  ASSUME Typed, RowsThere, [Next]_vars
  PROVE  Typed'
<1>1. ASSUME NEW m \in Messages, Send(m) PROVE Typed'
  BY <1>1 DEF Send, Typed, TypeOK, TableTypeOK, Shape
<1>2. CASE UNCHANGED vars
  BY <1>2 DEF vars, Typed, TypeOK, TableTypeOK, Shape
<1>3. QED
  BY <1>1, <1>2, TypedQueued, TypedProvision, TypedCompleted, TypedMessage
  DEF Next, Work, Quiescent

-----------------------------------------------------------------------------
(***************************************************************************)
(* The ways of a job.                                                      *)
(***************************************************************************)

\* How the row of a job j may change: the status it had and the row it gets.
JobBecomes(j) ==
  \/ jobs[j].status = "ABSENT" /\ jobs'[j].status = "QUEUED" /\ jobs'[j].runner = NoRunner
  \/ jobs[j].status = "QUEUED" /\ jobs'[j] = [jobs[j] EXCEPT !.status = "PROVISIONING"]
  \/ jobs[j].status \in {"QUEUED", "PROVISIONING"} /\ jobs'[j].status = "ALLOCATED"
  \/ /\ jobs'[j].status \in {"COMPLETED", "FAILED"}
     /\ jobs'[j].runner = jobs[j].runner /\ jobs'[j].slot = jobs[j].slot
  \/ /\ jobs[j].status = "PROVISIONING" /\ jobs'[j].status = "QUEUED"
     /\ jobs'[j].runner = jobs[j].runner
  \/ jobs'[j] = jobs[j]

\* A step of invocation w: where it goes is justified by where it comes from and by
\* the row of its job before and after.
Justified(w) ==
  /\ inv'[w].pc \in Known =>
       /\ inv'[w].msg = inv[w].msg /\ JobOf(w) \in Jobs
       /\ inv[w].pc \in Known \/ jobs'[JobOf(w)].status # "ABSENT"
  /\ inv'[w].pc \in Section =>
       /\ inv'[w].msg = inv[w].msg
       /\ \/ inv[w].pc \in Section /\ jobs' = jobs
          \/ jobs[JobOf(w)].status = "QUEUED" /\ jobs'[JobOf(w)].status = "PROVISIONING"

\* Outside its section an invocation only touches a job that is in nobody's section,
\* or completes it.
Respects(w) ==
  \/ jobs' = jobs
  \/ /\ JobOf(w) \in Jobs /\ SameJobsBut(JobOf(w)) /\ JobBecomes(JobOf(w))
     /\ \/ inv[w].pc \in Section
        \/ /\ jobs[JobOf(w)].status \in {"ABSENT", "QUEUED"}
           /\ jobs'[JobOf(w)].status \notin {"COMPLETED", "FAILED"}
        \/ inv[w].pc = "complete" /\ jobs'[JobOf(w)].status = "COMPLETED"

JobStep(w) == SameInvBut(w) /\ Justified(w) /\ Respects(w)

LEMMA QueuedJob ==
  ASSUME Typed, NEW w \in Workers, Queued(w)
  PROVE  JobStep(w)
<1> USE DEF Typed
<1>1. /\ JobOf(w) \in Jobs /\ inv[w].pc \in Before /\ inv[w].profile \in Profiles
      /\ inv[w].cands \in SUBSET Candidate /\ TableTypeOK /\ inv \in [Workers -> Invocation]
      /\ jobs[JobOf(w)] \in JobRow
  <2>1. inv[w].pc \in Before
    BY DEF Queued, Create, Query, Allocate, RetryQuery, StopRetrying, Claim, At, Before
  <2>2. ~At(w, "idle")
    BY <2>1 DEF At, Before
  <2>3. QED
    BY <2>1, <2>2, JobOfType DEF TypeOK, TableTypeOK, Shape, Remembers, Invocation
<1>2. ASSUME NEW s \in {"query", "claim", "done", "createRow"}, GoTo(w, s)
      PROVE  SameInvBut(w) /\ inv'[w].msg = inv[w].msg /\ inv'[w].pc = s
  <2>1. s \in Steps
    BY DEF Steps, Section, ErrorReturned
  <2>2. QED
    BY <1>1, <1>2, <2>1, Moved DEF Keeps
<1>3. CASE Create(w)
  <2>1. CASE CreateJob(JobOf(w), inv[w].profile) /\ GoTo(w, "query")
    <3>1. /\ SameJobsBut(JobOf(w)) /\ jobs[JobOf(w)].status = "ABSENT"
          /\ jobs'[JobOf(w)].status = "QUEUED" /\ jobs'[JobOf(w)].runner = NoRunner
      BY <1>1, <2>1, CreateJobEffect
    <3>2. SameInvBut(w) /\ inv'[w].msg = inv[w].msg /\ inv'[w].pc = "query"
      BY <1>2, <2>1
    <3>3. QED
      BY <1>1, <3>1, <3>2 DEF JobStep, Justified, Respects, JobBecomes, Section
  <2>2. CASE /\ jobs[JobOf(w)].status = "QUEUED" /\ UNCHANGED table
             /\ inv' = [inv EXCEPT ![w].pc = "query", ![w].retry = jobs[JobOf(w)].retry]
    <3>1. SameInvBut(w) /\ inv'[w].msg = inv[w].msg /\ inv'[w].pc = "query"
      BY <1>1, <2>2 DEF SameInvBut, Invocation
    <3>2. QED
      BY <1>1, <2>2, <3>1 DEF JobStep, Justified, Respects, Section, table
  <2>3. CASE GoTo(w, "done") /\ UNCHANGED table
    <3>1. SameInvBut(w) /\ inv'[w].pc = "done"
      BY <1>2, <2>3
    <3>2. QED
      BY <2>3, <3>1 DEF JobStep, Justified, Respects, Known, Section, table
  <2>4. QED
    BY <1>3, <2>1, <2>2, <2>3 DEF Create
<1>4. CASE Query(w)
  <2>1. SameInvBut(w) /\ inv'[w].msg = inv[w].msg /\ inv'[w].pc = "allocate"
    BY <1>1, <1>4 DEF Query, SameInvBut, Invocation
  <2>2. inv[w].pc \in Known /\ jobs' = jobs
    BY <1>4 DEF Query, At, Known
  <2>3. QED
    BY <1>1, <2>1, <2>2 DEF JobStep, Justified, Respects, Section
<1>5. CASE Allocate(w)
  <2>1. PICK c \in inv[w].cands :
          \/ /\ AllocateIdleRunner(c, JobOf(w))
             /\ inv' = [inv EXCEPT ![w].pc = "done", ![w].cands = {}]
          \/ inv' = [inv EXCEPT ![w].cands = @ \ {c}] /\ UNCHANGED table
    BY <1>5 DEF Allocate
  <2>2. CASE /\ AllocateIdleRunner(c, JobOf(w))
             /\ inv' = [inv EXCEPT ![w].pc = "done", ![w].cands = {}]
    <3>1. c \in Candidate
      BY <1>1
    <3>2. /\ SameJobsBut(JobOf(w)) /\ CanAllocate(c, JobOf(w))
          /\ jobs'[JobOf(w)] = [jobs[JobOf(w)] EXCEPT !.status = "ALLOCATED",
                                          !.runner = c.runner, !.slot = c.slot]
      BY <1>1, <2>2, <3>1, AllocateEffect
    <3>3. jobs[JobOf(w)].status = "QUEUED" /\ jobs'[JobOf(w)].status = "ALLOCATED"
      BY <1>1, <3>2 DEF CanAllocate, JobRow
    <3>4. SameInvBut(w) /\ inv'[w].pc = "done"
      BY <1>1, <2>2 DEF SameInvBut, Invocation
    <3>5. QED
      BY <1>1, <3>2, <3>3, <3>4 DEF JobStep, Justified, Respects, JobBecomes, Known, Section
  <2>3. CASE inv' = [inv EXCEPT ![w].cands = @ \ {c}] /\ UNCHANGED table
    <3>1. SameInvBut(w) /\ inv'[w].msg = inv[w].msg /\ inv'[w].pc = "allocate"
      BY <1>1, <1>5, <2>3 DEF Allocate, At, SameInvBut, Invocation
    <3>2. QED
      BY <1>1, <1>5, <2>3, <3>1 DEF Allocate, At, JobStep, Justified, Respects, Known, Section, table
  <2>4. QED
    BY <2>1, <2>2, <2>3
<1>6. ASSUME RetryQuery(w) \/ StopRetrying(w) PROVE JobStep(w)
  <2>1. PICK s \in {"query", "claim"} : GoTo(w, s)
    BY <1>6 DEF RetryQuery, StopRetrying
  <2>2. SameInvBut(w) /\ inv'[w].msg = inv[w].msg /\ inv'[w].pc = s
    BY <1>2, <2>1
  <2>3. inv[w].pc \in Known /\ jobs' = jobs
    BY <1>6 DEF RetryQuery, StopRetrying, At, Known
  <2>4. QED
    BY <1>1, <2>2, <2>3 DEF JobStep, Justified, Respects, Section
<1>7. CASE Claim(w)
  <2>1. CASE ClaimForProvisioning(JobOf(w)) /\ GoTo(w, "createRow")
    <3>1. /\ SameJobsBut(JobOf(w)) /\ jobs[JobOf(w)].status = "QUEUED"
          /\ jobs'[JobOf(w)] = [jobs[JobOf(w)] EXCEPT !.status = "PROVISIONING"]
      BY <1>1, <2>1, ClaimEffect
    <3>2. jobs'[JobOf(w)].status = "PROVISIONING"
      BY <1>1, <3>1 DEF JobRow
    <3>3. SameInvBut(w) /\ inv'[w].msg = inv[w].msg /\ inv'[w].pc = "createRow"
      BY <1>2, <2>1
    <3>4. QED
      BY <1>1, <1>7, <3>1, <3>2, <3>3 DEF Claim, At, JobStep, Justified, Respects, JobBecomes, Known
  <2>2. CASE GoTo(w, "done") /\ UNCHANGED table
    <3>1. SameInvBut(w) /\ inv'[w].pc = "done"
      BY <1>2, <2>2
    <3>2. QED
      BY <2>2, <3>1 DEF JobStep, Justified, Respects, Known, Section, table
  <2>3. QED
    BY <1>7, <2>1, <2>2 DEF Claim
<1>8. QED
  BY <1>3, <1>4, <1>5, <1>6, <1>7 DEF Queued

LEMMA ProvisionJob ==
  ASSUME Typed, NEW w \in Workers, ProvisionRunner(w)
  PROVE  JobStep(w)
<1> USE DEF Typed
<1>1. /\ JobOf(w) \in Jobs /\ inv[w].pc \in Section /\ inv[w].msg \in Messages
      /\ inv[w].profile \in Profiles /\ inv[w].retry \in Nat /\ TableTypeOK
      /\ inv \in [Workers -> Invocation] /\ jobs[JobOf(w)] \in JobRow
      /\ (inv[w].pc \in Owning => inv[w].runner \in Runners)
  <2>1. inv[w].pc \in Section
    BY DEF ProvisionRunner, CreateRow, CreateRowFails, Launch, LaunchFails, FailRow, Revert,
           SetInstance, Bind, At, Section
  <2>2. ~At(w, "idle")
    BY <2>1 DEF At, Section
  <2>3. QED
    BY <2>1, <2>2, JobOfType DEF TypeOK, TableTypeOK, Shape, Remembers, Invocation
<1>2. ASSUME NEW s \in Section \cup {"done"}, GoTo(w, s)
      PROVE  SameInvBut(w) /\ inv'[w].msg = inv[w].msg /\ inv'[w].pc = s
  <2>1. s \in Steps
    BY DEF Steps
  <2>2. QED
    BY <1>1, <1>2, <2>1, Moved DEF Keeps
<1>3. ASSUME inv' = [inv EXCEPT ![w] = Idle]
      PROVE  SameInvBut(w) /\ inv'[w].pc \notin Known \cup Section
  BY <1>1, <1>3, Ended DEF Known, Section
<1>4. ASSUME NEW s \in Section, GoTo(w, s), jobs' = jobs PROVE JobStep(w)
  <2>1. SameInvBut(w) /\ inv'[w].msg = inv[w].msg /\ inv'[w].pc = s
    BY <1>2, <1>4
  <2>2. QED
    BY <1>1, <1>4, <2>1 DEF JobStep, Justified, Respects, Known
<1>5. CASE CreateRow(w)
  <2>1. PICK r \in Runners :
          /\ CreateProvisioning(r, inv[w].profile)
          /\ inv' = [inv EXCEPT ![w].pc = "launch", ![w].runner = r]
    BY <1>5 DEF CreateRow
  <2>2. SameInvBut(w) /\ inv'[w].msg = inv[w].msg /\ inv'[w].pc = "launch"
    BY <1>1, <2>1 DEF SameInvBut, Invocation
  <2>3. jobs' = jobs
    BY <2>1 DEF CreateProvisioning
  <2>4. QED
    BY <1>1, <2>2, <2>3 DEF JobStep, Justified, Respects, Known
<1>6. ASSUME \/ CreateRowFails(w) \/ Launch(w) \/ LaunchFails(w) \/ FailRow(w)
             \/ SetInstance(w)
      PROVE JobStep(w)
  <2>1. PICK s \in {"revert", "setInstance", "failRow", "bind"} : GoTo(w, s)
    BY <1>6 DEF CreateRowFails, Launch, LaunchFails, FailRow, SetInstance
  <2>2. jobs' = jobs
    BY <1>6 DEF CreateRowFails, Launch, LaunchFails, FailRow, SetInstance, CreateProvisioning,
                MarkRunnerFailed, SetInstanceID, table
  <2>3. s \in Section
    BY DEF Section
  <2>4. QED
    BY <1>4, <2>1, <2>2, <2>3
<1>7. CASE Revert(w)
  <2>1. SameInvBut(w) /\ inv'[w].pc \notin Known \cup Section
    BY <1>3, <1>7 DEF Revert, GiveBack
  <2>2. CASE RevertProvisioning(JobOf(w), inv[w].retry)
    <3> DEFINE n == inv[w].retry
    <3>1. /\ SameJobsBut(JobOf(w))
          /\ \/ jobs'[JobOf(w)] = [jobs[JobOf(w)] EXCEPT !.status = "FAILED", !.retry = n + 1]
             \/ /\ jobs[JobOf(w)].status = "PROVISIONING"
                /\ jobs'[JobOf(w)] = [jobs[JobOf(w)] EXCEPT !.status = "QUEUED", !.retry = n + 1]
             \/ jobs' = jobs
      BY <1>1, <2>2, RevertEffect
    <3> HIDE DEF n
    <3>2. JobBecomes(JobOf(w))
      BY <1>1, <3>1 DEF JobBecomes, JobRow
    <3>3. QED
      BY <1>1, <2>1, <3>1, <3>2 DEF JobStep, Justified, Respects
  <2>3. CASE UNCHANGED table
    BY <2>1, <2>3 DEF JobStep, Justified, Respects, table
  <2>4. QED
    BY <1>7, <2>2, <2>3 DEF Revert
<1>8. CASE Bind(w)
  <2>1. inv[w].runner \in Runners
    BY <1>1, <1>8 DEF Bind, At, Owning
  <2>2. CASE BindToJob(inv[w].runner, JobOf(w), inv[w].profile) /\ GoTo(w, "done")
    <3> DEFINE r == inv[w].runner
               j == JobOf(w)
               p == inv[w].profile
    <3>1. r \in Runners /\ j \in Jobs /\ p \in Profiles /\ BindToJob(r, j, p)
      BY <1>1, <2>1, <2>2
    <3> HIDE DEF r, j, p
    <3>2. /\ SameJobsBut(j) /\ jobs[j].status = "PROVISIONING"
          /\ jobs'[j] = [jobs[j] EXCEPT !.status = "ALLOCATED", !.runner = r, !.slot = 0]
      BY <1>1, <3>1, BindEffect
    <3>3. JobBecomes(j)
      BY <1>1, <3>1, <3>2 DEF JobBecomes, TableTypeOK, JobRow
    <3>4. SameInvBut(w) /\ inv'[w].pc = "done"
      BY <1>2, <2>2
    <3>5. QED
      BY <1>1, <3>2, <3>3, <3>4 DEF JobStep, Justified, Respects, Known, Section, j
  <2>3. CASE GiveBack(w) /\ UNCHANGED table
    <3>1. SameInvBut(w) /\ inv'[w].pc \notin Known \cup Section
      BY <1>3, <2>3 DEF GiveBack
    <3>2. QED
      BY <2>3, <3>1 DEF JobStep, Justified, Respects, table
  <2>4. QED
    BY <1>8, <2>2, <2>3 DEF Bind
<1>9. QED
  BY <1>5, <1>6, <1>7, <1>8 DEF ProvisionRunner

LEMMA CompletedJob ==
  ASSUME Typed, NEW w \in Workers, Completed(w)
  PROVE  JobStep(w)
<1> USE DEF Typed
<1>1. /\ JobOf(w) \in Jobs /\ TableTypeOK /\ inv \in [Workers -> Invocation]
      /\ jobs[JobOf(w)] \in JobRow
  <2>1. ~At(w, "idle")
    BY DEF Completed, Get, Complete, Free, At
  <2>2. QED
    BY <2>1, JobOfType DEF TypeOK, TableTypeOK
<1>2. ASSUME NEW s \in {"done", "free"}, GoTo(w, s)
      PROVE  SameInvBut(w) /\ inv'[w].msg = inv[w].msg /\ inv'[w].pc = s
  <2>1. s \in Steps
    BY DEF Steps, ErrorReturned
  <2>2. QED
    BY <1>1, <1>2, <2>1, Moved DEF Keeps
<1>3. CASE Get(w)
  <2>1. CASE GoTo(w, "done")
    BY <1>2, <1>3, <2>1 DEF Get, JobStep, Justified, Respects, Known, Section
  <2>2. CASE /\ jobs[JobOf(w)].status # "ABSENT"
             /\ inv' = [inv EXCEPT ![w] = [@ EXCEPT !.pc = "complete",
                          !.profile = jobs[JobOf(w)].profile,
                          !.runner = jobs[JobOf(w)].runner, !.slot = jobs[JobOf(w)].slot]]
    <3>1. SameInvBut(w) /\ inv'[w].msg = inv[w].msg /\ inv'[w].pc = "complete"
      BY <1>1, <2>2 DEF SameInvBut, Invocation
    <3>2. jobs' = jobs
      BY <1>3 DEF Get
    <3>3. QED
      BY <1>1, <2>2, <3>1, <3>2 DEF JobStep, Justified, Respects, Section
  <2>3. QED
    BY <1>3, <2>1, <2>2 DEF Get
<1>4. CASE Complete(w)
  <2>1. /\ SameJobsBut(JobOf(w))
        /\ jobs'[JobOf(w)] = [jobs[JobOf(w)] EXCEPT !.status = "COMPLETED"]
    BY <1>1, <1>4, CompleteEffect DEF Complete
  <2>2. JobBecomes(JobOf(w)) /\ jobs'[JobOf(w)].status = "COMPLETED"
    BY <1>1, <2>1 DEF JobBecomes, JobRow
  <2>3. PICK s \in {"done", "free"} : GoTo(w, s)
    BY <1>4 DEF Complete
  <2>4. SameInvBut(w) /\ inv'[w].msg = inv[w].msg /\ inv'[w].pc = s
    BY <1>2, <2>3
  <2>5. QED
    BY <1>1, <1>4, <2>1, <2>2, <2>4
    DEF Complete, At, JobStep, Justified, Respects, Known, Section
<1>5. CASE Free(w)
  <2>1. SameInvBut(w) /\ inv'[w].pc = "done"
    BY <1>2, <1>5 DEF Free
  <2>2. jobs' = jobs
    BY <1>5 DEF Free, MarkIdle
  <2>3. QED
    BY <2>1, <2>2 DEF JobStep, Justified, Respects, Known, Section
<1>6. QED
  BY <1>3, <1>4, <1>5 DEF Completed

LEMMA MessageJob ==
  ASSUME Typed, NEW w \in Workers,
         \/ \E m \in Messages : Receive(w, m)
         \/ Ack(w) \/ Abandon(w)
  PROVE  JobStep(w)
<1>1. inv \in [Workers -> Invocation] /\ jobs' = jobs
  BY DEF Typed, TypeOK, Receive, Ack, Abandon
<1>2. CASE \E m \in Messages : Receive(w, m)
  <2>1. SameInvBut(w) /\ inv'[w].pc \in {"done", "create", "get"}
    <3>1. PICK m \in Messages, p \in Profiles \cup {NoPool} :
            \/ inv' = [inv EXCEPT ![w] = [@ EXCEPT !.msg = m, !.pc = "done"]]
            \/ inv' = [inv EXCEPT ![w] = [@ EXCEPT !.msg = m, !.pc = "create", !.profile = p]]
            \/ inv' = [inv EXCEPT ![w] = [@ EXCEPT !.msg = m, !.pc = "get"]]
      <4>1. PICK m \in Messages : Receive(w, m)
        BY <1>2
      <4>2. m.job \in Jobs /\ Matching[m.job] \subseteq Profiles
        BY MatchingAssumption DEF Messages
      <4>3. QED
        BY <4>1, <4>2 DEF Receive
    <3>2. PICK x : /\ inv' = [inv EXCEPT ![w] = x]
                   /\ \/ x = [inv[w] EXCEPT !.msg = m, !.pc = "done"]
                      \/ x = [inv[w] EXCEPT !.msg = m, !.pc = "create", !.profile = p]
                      \/ x = [inv[w] EXCEPT !.msg = m, !.pc = "get"]
      BY <3>1
    <3>3. x.pc \in {"done", "create", "get"}
      BY <1>1, <3>2 DEF Invocation
    <3>4. QED
      BY <1>1, <3>2, <3>3 DEF SameInvBut
  <2>2. QED
    BY <1>1, <2>1 DEF JobStep, Justified, Respects, Known, Section
<1>3. CASE Ack(w) \/ Abandon(w)
  <2>1. inv' = [inv EXCEPT ![w] = Idle]
    BY <1>3 DEF Ack, Abandon, GiveBack
  <2>2. SameInvBut(w) /\ inv'[w].pc = "idle"
    BY <1>1, <2>1, Ended
  <2>3. QED
    BY <1>1, <2>2 DEF JobStep, Justified, Respects, Known, Section
<1>4. QED
  BY <1>2, <1>3

\* Every step that changes an invocation or a job row is a step of one invocation.
LEMMA JobSteps ==
  ASSUME Typed, [Next]_vars
  PROVE  (\E w \in Workers : JobStep(w)) \/ (jobs' = jobs /\ inv' = inv)
<1>1. CASE UNCHANGED vars \/ \E m \in Messages : Send(m)
  BY <1>1 DEF vars, Send
<1>2. CASE \E w \in Workers, m \in Messages : Receive(w, m)
  BY <1>2, MessageJob
<1>3. CASE \E w \in Workers : Work(w) \/ Abandon(w)
  BY <1>3, QueuedJob, ProvisionJob, CompletedJob, MessageJob DEF Work
<1>4. QED
  BY <1>1, <1>2, <1>3 DEF Next, Quiescent

\* ProvisioningLock with what makes it inductive: an invocation past its first call
\* knows that the row of its job exists, and an unstarted job is bound to nothing.
Unstarted == {"ABSENT", "QUEUED", "PROVISIONING"}
Unbound == \A j \in Jobs : jobs[j].status \in Unstarted => jobs[j].runner = NoRunner

JobInv == RowsThere /\ ProvisioningLock /\ Unbound

LEMMA JobInvInit == Init => JobInv
<1>1. Idle.pc = "idle" /\ NoJobRow.runner = NoRunner
  BY DEF Idle, NoJobRow, UnboundJob
<1>2. QED
  BY <1>1 DEF Init, TableInit, JobInv, RowsThere, ProvisioningLock, Unbound, InSection, Known,
             Section

\* A row that exists stays; so does what an invocation knows of it.
LEMMA RowsThereStep ==
  ASSUME Typed, RowsThere, [Next]_vars
  PROVE  /\ RowsThere'
         /\ \A j \in Jobs : jobs[j].status # "ABSENT" => jobs'[j].status # "ABSENT"
<1>1. CASE jobs' = jobs /\ inv' = inv
  BY <1>1 DEF RowsThere, JobOf
<1>2. CASE \E w \in Workers : JobStep(w)
  <2>1. PICK w \in Workers : SameInvBut(w) /\ Justified(w) /\ Respects(w)
    BY <1>2 DEF JobStep
  <2>2. \A j \in Jobs : jobs[j] \in JobRow /\ JobBecomes(j)
    BY <2>1 DEF Respects, SameJobsBut, JobBecomes, Typed, TypeOK, TableTypeOK
  <2>3. \A j \in Jobs : jobs[j].status # "ABSENT" => jobs'[j].status # "ABSENT"
    BY <2>2 DEF JobBecomes, JobRow
  <2>4. ASSUME NEW v \in Workers, inv'[v].pc \in Known
        PROVE  jobs'[inv'[v].msg.job].status # "ABSENT"
    <3>1. v = w \/ inv'[v] = inv[v]
      BY <2>1 DEF SameInvBut
    <3>2. inv'[v].msg = inv[v].msg
      BY <2>1, <2>4, <3>1 DEF Justified
    <3>3. inv[v].pc \in Known \/ jobs'[JobOf(v)].status # "ABSENT"
      BY <2>1, <2>4, <3>1 DEF Justified
    <3>4. JobOf(v) \in Jobs \/ jobs'[JobOf(v)].status # "ABSENT"
      BY <3>3, JobOfType DEF At, Known, Section
    <3>5. QED
      BY <2>3, <3>2, <3>3, <3>4 DEF RowsThere, JobOf
  <2>5. QED
    BY <2>3, <2>4 DEF RowsThere, JobOf
<1>3. QED
  BY <1>1, <1>2, JobSteps

LEMMA JobInvStep ==
  ASSUME Typed, JobInv, [Next]_vars
  PROVE  JobInv'
<1>1. CASE jobs' = jobs /\ inv' = inv
  BY <1>1 DEF JobInv, RowsThere, ProvisioningLock, Unbound, InSection, JobOf
<1>2. CASE \E w \in Workers : JobStep(w)
  <2>1. PICK w \in Workers : SameInvBut(w) /\ Justified(w) /\ Respects(w)
    BY <1>2 DEF JobStep
  <2>2. \A j \in Jobs : jobs[j] \in JobRow /\ JobBecomes(j)
    BY <2>1 DEF Respects, SameJobsBut, JobBecomes, Typed, TypeOK, TableTypeOK
  <2>3. ASSUME NEW v \in Workers, InSection(v)'
        PROVE  /\ inv'[v].msg = inv[v].msg /\ JobOf(v) \in Jobs
               /\ jobs'[JobOf(v)].status \in {"PROVISIONING", "COMPLETED"}
               /\ v # w => InSection(v)
    <3>1. v = w \/ inv'[v] = inv[v]
      BY <2>1 DEF SameInvBut
    <3>2. inv'[v].msg = inv[v].msg
      BY <2>1, <2>3, <3>1 DEF Justified, InSection
    <3>3. JobOf(v) \in Jobs
      <4>1. inv'[v].pc \in Known
        BY <2>3 DEF InSection, Known
      <4>2. CASE v = w
        BY <2>1, <4>1, <4>2 DEF Justified
      <4>3. CASE inv'[v] = inv[v]
        BY <2>3, <4>3, JobOfType DEF InSection, At, Section
      <4>4. QED
        BY <3>1, <4>2, <4>3
    <3> QED
      BY <2>1, <2>3, <3>1, <3>2, <3>3
      DEF JobInv, ProvisioningLock, InSection, JobOf, Justified, Respects, SameJobsBut
  <2>4. Unbound'
    BY <2>2 DEF JobInv, Unbound, JobBecomes, Unstarted, JobRow
  <2>5. RowsThere'
    BY RowsThereStep DEF JobInv
  <2>6. ProvisioningLock'
    <3>1. ASSUME NEW v \in Workers, NEW u \in Workers \ {v}, InSection(v)', InSection(u)'
          PROVE  JobOf(v)' # JobOf(u)'
      <4>1. JobOf(v)' = JobOf(v) /\ JobOf(u)' = JobOf(u)
        BY <2>3, <3>1 DEF JobOf
      <4>2. CASE InSection(v) /\ InSection(u)
        BY <4>1, <4>2 DEF JobInv, ProvisioningLock
      <4>3. ASSUME NEW x \in {u, v}, NEW y \in {u, v} \ {x}, x = w, InSection(y), ~InSection(x)
            PROVE  JobOf(x) # JobOf(y)
        BY <2>1, <3>1, <4>3 DEF JobInv, ProvisioningLock, Justified, InSection, JobOf
      <4>4. QED
        BY <2>3, <3>1, <4>1, <4>2, <4>3
    <3>2. QED
      BY <2>3, <3>1 DEF ProvisioningLock, JobOf
  <2>7. QED
    BY <2>4, <2>5, <2>6 DEF JobInv
<1>3. QED
  BY <1>1, <1>2, JobSteps

IInv == Typed /\ JobInv

LEMMA Inductive == Spec => []IInv
<1>1. Init => IInv
  BY TypedInit, JobInvInit DEF IInv
<1>2. IInv /\ [Next]_vars => IInv'
  BY TypedStep, JobInvStep DEF IInv, JobInv
<1>3. QED
  BY <1>1, <1>2, PTL DEF Spec

\* Every row, message and invocation keeps its type, whatever is interleaved, lost,
\* repeated or fails: in particular handleCompleted never works on a row that does not
\* exist, and provisionRunner never launches without the ID of a runner.
THEOREM TypeCorrect == Spec => []TypeOK
<1>1. IInv => TypeOK
  BY DEF IInv, Typed
<1>2. QED
  BY <1>1, Inductive, PTL

\* The condition of ClaimForProvisioning alone makes it a lock, for any number of
\* invocations and of deliveries of the same message: between the claim and the end of
\* provisionRunner no other invocation is inside provisionRunner for the job.
THEOREM LockHeld == Spec => []ProvisioningLock
<1>1. IInv => ProvisioningLock
  BY DEF IInv, JobInv
<1>2. QED
  BY <1>1, Inductive, PTL

\* What a job keeps in every step.
LEMMA JobKept ==
  ASSUME Typed, Unbound, [Next]_vars, NEW j \in Jobs
  PROVE  /\ JobBecomes(j)
         /\ jobs'[j].status \in Unstarted => jobs'[j].runner = NoRunner
         /\ Over(j) => Over(j)'
         /\ jobs[j].runner # NoRunner =>
              jobs'[j].runner = jobs[j].runner /\ jobs'[j].slot = jobs[j].slot
<1>1. JobBecomes(j)
  <2>1. CASE jobs' = jobs
    BY <2>1 DEF JobBecomes
  <2>2. CASE \E w \in Workers : JobStep(w)
    BY <2>2 DEF JobStep, Respects, SameJobsBut, JobBecomes
  <2>3. QED
    BY <2>1, <2>2, JobSteps
<1>2. jobs[j] \in JobRow /\ (jobs[j].status \in Unstarted => jobs[j].runner = NoRunner)
  BY DEF Unbound, Typed, TypeOK, TableTypeOK
<1>3. Over(j) => Over(j)'
  BY <1>1, <1>2 DEF JobBecomes, Over, JobRow
<1>4. ASSUME jobs[j].runner # NoRunner
      PROVE  jobs'[j].runner = jobs[j].runner /\ jobs'[j].slot = jobs[j].slot
  BY <1>1, <1>2, <1>4 DEF JobBecomes, JobRow, Unstarted
<1>5. jobs'[j].status \in Unstarted => jobs'[j].runner = NoRunner
  BY <1>1, <1>2 DEF JobBecomes, JobRow, Unstarted
<1>6. QED
  BY <1>1, <1>3, <1>4, <1>5

\* A COMPLETED or FAILED job never runs again and no job ever changes its slot, although
\* MarkCompleted and the last RevertProvisioning write the row without a condition.
THEOREM NeverRevived == Spec => NoRevival
<1> DEFINE Step == \A j \in Jobs :
               /\ Over(j) => Over(j)'
               /\ jobs[j].runner # NoRunner =>
                    jobs'[j].runner = jobs[j].runner /\ jobs'[j].slot = jobs[j].slot
<1>1. IInv /\ [Next]_vars => [Step]_vars
  BY JobKept DEF IInv, JobInv
<1>2. QED
  BY <1>1, Inductive, PTL DEF Spec, NoRevival
=============================================================================
