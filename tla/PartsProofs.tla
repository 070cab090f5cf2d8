----------------------------- MODULE PartsProofs -----------------------------
(***************************************************************************)
(* Proofs about the parts that share no state: the clocks of an instance,  *)
(* the process check of a sweep, the AMI of a launch, the configuration,   *)
(* and the types of them all side by side.                                 *)
(***************************************************************************)
EXTENDS MCParts, SequenceTheorems, FiniteSetTheorems,
        WellFoundedInduction, TLAPS

\* A set of numbers has a least one.
LEMMA LeastOf ==
  ASSUME NEW S, S \subseteq Nat, S # {}
  PROVE  \E a \in S : \A b \in S : a <= b
<1> DEFINE Less == {pair \in Nat \X Nat : pair[1] < pair[2]}
<1>1. PICK a \in S : \A b \in S : <<b, a>> \notin Less
  <2>1. IsWellFoundedOn(Less, Nat)
    BY NatLessThanWellFounded, Zenon DEF OpToRel
  <2> HIDE DEF Less
  <2> QED BY <2>1, WFMin
<1>2. ASSUME NEW b \in S, b < a PROVE FALSE
  <2>1. a \in Nat /\ b \in Nat
    OBVIOUS
  <2>2. <<b, a>> \in Less
    BY <1>2, <2>1
  <2> QED BY <1>1, <2>2
<1>3. a \in Nat /\ \A b \in S : b \in Nat
  OBVIOUS
<1> QED BY <1>2, <1>3

-----------------------------------------------------------------------------
(***************************************************************************)
(* Lifetime.                                                               *)
(***************************************************************************)

\* The histories and the clock: each is the last moment of what it stands for, so a
\* thing that is so now was last so now.
Clocks ==
  /\ age <= swept + SweepPeriod
  /\ swept <= age
  /\ ran <= age /\ worked <= age /\ held <= age /\ given <= age
  /\ Running => ran = age
  /\ Running => working
  /\ working => worked = age
  /\ (\E i \in Slots : slot[i].status = "BUSY") => held = age
  /\ \A i \in Slots :
       /\ slot[i].allocated <= given
       /\ slot[i].status = "IDLE" => slot[i].after # Unset /\ slot[i].after <= held + IdleTimeout

\* What the last sweep found that made it leave the instance, or that came after it.
Spared ==
  swept <= ran \/ (swept <= worked /\ swept <= Created + ProcessBusyCeiling)

SweptRunning ==
  Up => Spared \/ swept <= Created + AutoTerminatingTime \/ swept <= given + StaleBusyAfter
SweptIdle ==
  Up /\ (\A i \in Slots : slot[i].status = "IDLE") => Spared \/ swept <= held + IdleTimeout
SweptBooting ==
  status = "ACTIVE" =>
    \A i \in Slots : slot[i].starting # Unset => swept <= slot[i].starting + BootTimeout

LifetimeInv == LifetimeTypeOK /\ Clocks /\ SweptRunning /\ SweptIdle /\ SweptBooting

LEMMA LifetimeNumbers ==
  /\ SlotCount \in Nat \ {0} /\ IdleTimeout \in Nat \ {0} /\ AutoTerminatingTime \in Nat \ {0}
  /\ BootTimeout \in Nat \ {0} /\ SweepPeriod \in Nat \ {0}
  /\ StaleBusyAfter \in Nat /\ ProcessBusyCeiling \in Nat /\ MaxAge \in Nat \ {0}
  /\ 0 \in Slots
  BY SlotCountAssumption, TimesAssumption, ThresholdsAssumption DEF Slots

LEMMA LifetimeFields ==
  ASSUME LifetimeTypeOK
  PROVE  /\ age \in Nat /\ swept \in Nat /\ ran \in Nat /\ worked \in Nat /\ held \in Nat
         /\ given \in Nat
         /\ \A i \in Slots : /\ slot[i] \in Slot
                             /\ slot[i].status \in {"IDLE", "BUSY"} /\ slot[i].after \in Nat
                             /\ slot[i].starting \in Nat /\ slot[i].allocated \in Nat
<1>1. \A i \in Slots : slot[i] \in Slot
  BY DEF LifetimeTypeOK
<1> QED BY <1>1, LifetimeNumbers DEF LifetimeTypeOK, Slot, Later, Times, Unset, Created

LEMMA LifetimeInitial == LifetimeInit => LifetimeInv
<1> SUFFICES ASSUME LifetimeInit PROVE LifetimeInv
  OBVIOUS
<1> USE LifetimeNumbers DEF LifetimeInit, Created, Unset
<1>1. LifetimeTypeOK
  <2>1. slot \in [Slots -> Slot]
    BY DEF Slot, Later, Times
  <2>2. github \in [Slots -> {"unborn", "idle", "busy", "gone"}]
    OBVIOUS
  <2>3. {swept, given, held, ran, worked} \subseteq Times
    BY DEF Times
  <2>4. age \in Created .. MaxAge /\ status = "ACTIVE" /\ working = FALSE
    OBVIOUS
  <2> HIDE DEF LifetimeInit, Created, Unset
  <2> QED BY <2>1, <2>2, <2>3, <2>4 DEF LifetimeTypeOK
<1>2. Clocks
  BY DEF Clocks, Running, Slots
<1>3. SweptRunning /\ SweptIdle /\ SweptBooting
  BY DEF SweptRunning, SweptIdle, SweptBooting, Slots
<1> QED BY <1>1, <1>2, <1>3 DEF LifetimeInv

\* The clock ticks.
LEMMA GrowKeeps == ASSUME LifetimeInv, Grow PROVE LifetimeInv'
<1> USE LifetimeNumbers
<1>0. LifetimeTypeOK /\ Clocks
  BY DEF LifetimeInv
<1>1. /\ ran' = (IF Running THEN age + 1 ELSE ran)
      /\ worked' = (IF working THEN age + 1 ELSE worked)
      /\ held' = (IF \E i \in Slots : slot[i].status = "BUSY" THEN age + 1 ELSE held)
      /\ age' = age + 1 /\ age + 1 <= MaxAge /\ age + 1 <= swept + SweepPeriod
      /\ given' = given /\ swept' = swept /\ slot' = slot /\ github' = github
      /\ working' = working /\ status' = status
  BY <1>0, LifetimeFields DEF Grow
<1>2. ran' >= ran /\ worked' >= worked /\ held' >= held
  BY <1>0, <1>1, LifetimeFields DEF Clocks
<1>3. LifetimeTypeOK'
  BY <1>0, <1>1, LifetimeFields DEF LifetimeTypeOK, Times, Created, Unset
<1>4. Clocks'
  <2>1. Running' = Running
    BY <1>1 DEF Running
  <2> QED BY <1>0, <1>1, <1>2, <2>1, LifetimeFields DEF Clocks
<1>5. SweptRunning' /\ SweptIdle' /\ SweptBooting'
  BY <1>0, <1>1, <1>2, LifetimeFields
  DEF LifetimeInv, SweptRunning, SweptIdle, SweptBooting, Spared, Up
<1> QED BY <1>3, <1>4, <1>5 DEF LifetimeInv

\* What GitHub and the instance do.
LEMMA JobsKeep ==
  ASSUME LifetimeInv,
         WorkerDies \/ \E i \in Slots : Register(i) \/ StartJob(i) \/ EndJob(i)
  PROVE  LifetimeInv'
<1> USE LifetimeNumbers
<1>0. LifetimeTypeOK /\ Clocks
  BY DEF LifetimeInv
<1>1. /\ age' = age /\ status' = status /\ slot' = slot /\ swept' = swept
      /\ given' = given /\ held' = held
      /\ ran' \in {ran, age} /\ worked' \in {worked, age}
      /\ Running' => ran' = age /\ working'
      /\ working' => worked' = age
      /\ github' \in [Slots -> {"unborn", "idle", "busy", "gone"}] /\ working' \in BOOLEAN
  <2>1. CASE WorkerDies
    BY <1>0, <2>1 DEF WorkerDies, histories, Clocks, Running, LifetimeTypeOK
  <2>2. ASSUME NEW i \in Slots, Register(i) PROVE <1>1!:
    BY <1>0, <2>2 DEF Register, histories, Clocks, Running, LifetimeTypeOK
  <2>3. ASSUME NEW i \in Slots, StartJob(i) PROVE <1>1!:
    BY <1>0, <2>3 DEF StartJob, Clocks, Running, LifetimeTypeOK
  <2>4. ASSUME NEW i \in Slots, EndJob(i) PROVE <1>1!:
    <3>1. Running /\ ran = age /\ worked = age
      BY <1>0, <2>4 DEF EndJob, Clocks, Running
    <3>2. github' \in [Slots -> {"unborn", "idle", "busy", "gone"}]
      BY <1>0, <2>4 DEF EndJob, LifetimeTypeOK
    <3>3. Running' => \E k \in Slots \ {i} : github[k] = "busy"
      BY <1>0, <2>4 DEF EndJob, Running, LifetimeTypeOK
    <3>4. working' \in BOOLEAN /\ (Running' => working')
      BY <2>4, <3>3 DEF EndJob
    <3> QED BY <2>4, <3>1, <3>2, <3>4 DEF EndJob, histories
  <2> QED BY <2>1, <2>2, <2>3, <2>4
<1>2. LifetimeTypeOK'
  BY <1>0, <1>1, LifetimeFields DEF LifetimeTypeOK, Times, Created, Unset
<1>3. Clocks'
  BY <1>0, <1>1, LifetimeFields DEF Clocks
<1>4. ran' >= ran /\ worked' >= worked
  BY <1>0, <1>1, LifetimeFields DEF Clocks
<1>5. SweptRunning' /\ SweptIdle' /\ SweptBooting'
  BY <1>0, <1>1, <1>4, LifetimeFields
  DEF LifetimeInv, SweptRunning, SweptIdle, SweptBooting, Spared, Up
<1> QED BY <1>2, <1>3, <1>5 DEF LifetimeInv

\* The writes to a slot: a slot that becomes BUSY is BUSY now, and one that becomes IDLE
\* was so until now.
SlotWrite(i) ==
  \E new \in Slot :
    /\ slot' = [slot EXCEPT ![i] = new]
    /\ new.allocated \in {slot[i].allocated, Unset} \/ (new.allocated = age /\ given' = age)
    /\ new.starting \in {slot[i].starting, Unset}
    /\ given' \in {given, age} /\ held' \in {held, age}
    /\ new.status = "BUSY" => held' = age
    /\ new.status = "IDLE" =>
         \/ slot[i].status = "IDLE" /\ new.after = slot[i].after
         \/ slot[i].status = "BUSY" /\ new.after = age + IdleTimeout

LEMMA SlotWrites ==
  ASSUME LifetimeInv, NEW i \in Slots,
         AllocateSlot(i) \/ CompletedOnly(i) \/ FreeSlot(i) \/ Callback(i)
  PROVE  SlotWrite(i) /\ UNCHANGED <<age, status, github, working, swept, ran, worked>>
<1> USE LifetimeNumbers
<1>0. LifetimeTypeOK /\ Clocks /\ slot[i] \in Slot /\ age \in Times
  BY LifetimeFields DEF LifetimeInv, LifetimeTypeOK, Times, Created, Unset
<1>1. CASE AllocateSlot(i)
  <2>0. Unset \in Later
    BY LifetimeNumbers DEF Later, Unset
  <2> DEFINE s == slot[i]
             new == [slot[i] EXCEPT !.status = "BUSY", !.after = Unset, !.allocated = age]
  <2>1. s \in Slot /\ new = [s EXCEPT !.status = "BUSY", !.after = Unset, !.allocated = age]
    BY <1>0
  <2>2. slot' = [slot EXCEPT ![i] = new]
    BY <1>1 DEF AllocateSlot, Write
  <2> HIDE DEF s, new
  <2>3. /\ new \in Slot
        /\ new.status = "BUSY" /\ new.allocated = age
        /\ new.starting = s.starting
    BY <1>0, <2>0, <2>1 DEF Slot
  <2> QED BY <1>1, <2>2, <2>3 DEF s, SlotWrite, AllocateSlot, Write
<1>2. CASE CompletedOnly(i)
  <2> DEFINE new == [slot[i] EXCEPT !.allocated = Unset]
  <2>1. new \in Slot /\ new.status = "BUSY" /\ new.allocated = Unset
          /\ new.starting = slot[i].starting
    BY <1>0, <1>2 DEF CompletedOnly, Slot, Times, Unset
  <2>2. slot' = [slot EXCEPT ![i] = new] /\ given' = given /\ held' = held /\ held = age
    BY <1>0, <1>2 DEF CompletedOnly, Write, Clocks
  <2> HIDE DEF new
  <2> QED BY <1>2, <2>1, <2>2 DEF SlotWrite, CompletedOnly, Write
<1>3. CASE FreeSlot(i)
  <2>0. age + IdleTimeout \in Later /\ Unset \in Times
    BY <1>0 DEF Later, Times, Unset
  <2> DEFINE s == slot[i]
             new == [slot[i] EXCEPT !.status = "IDLE", !.after = age + IdleTimeout, !.allocated = Unset]
  <2>1. s \in Slot /\ new = [s EXCEPT !.status = "IDLE", !.after = age + IdleTimeout, !.allocated = Unset]
    BY <1>0
  <2>2. slot' = [slot EXCEPT ![i] = new]
    BY <1>3 DEF FreeSlot, Write
  <2> HIDE DEF s, new
  <2>3. /\ new \in Slot
        /\ new.status = "IDLE" /\ new.after = age + IdleTimeout /\ new.allocated = Unset
        /\ new.starting = s.starting
    BY <1>0, <2>0, <2>1 DEF Slot
  <2> QED BY <1>3, <2>2, <2>3 DEF s, SlotWrite, FreeSlot, Write
<1>4. CASE Callback(i)
  <2> DEFINE new == [slot[i] EXCEPT !.starting = Unset]
  <2>1. new \in Slot /\ new.status = slot[i].status /\ new.allocated = slot[i].allocated
          /\ new.starting = Unset /\ new.after = slot[i].after
    BY <1>0 DEF Slot, Times, Unset
  <2>2. slot' = [slot EXCEPT ![i] = new] /\ given' = given /\ held' = held
          /\ (slot[i].status = "BUSY" => held = age)
    BY <1>0, <1>4 DEF Callback, Write, Clocks
  <2> HIDE DEF new
  <2> QED BY <1>4, <2>1, <2>2 DEF SlotWrite, Callback, Write
<1> QED BY <1>1, <1>2, <1>3, <1>4

LEMMA WritesKeep ==
  ASSUME LifetimeInv, NEW i \in Slots,
         AllocateSlot(i) \/ CompletedOnly(i) \/ FreeSlot(i) \/ Callback(i)
  PROVE  LifetimeInv'
<1> USE LifetimeNumbers
<1>0. LifetimeTypeOK /\ Clocks
  BY DEF LifetimeInv
<1>1. PICK new \in Slot :
    /\ slot' = [slot EXCEPT ![i] = new]
    /\ new.allocated \in {slot[i].allocated, Unset} \/ (new.allocated = age /\ given' = age)
    /\ new.starting \in {slot[i].starting, Unset}
    /\ given' \in {given, age} /\ held' \in {held, age}
    /\ new.status = "BUSY" => held' = age
    /\ new.status = "IDLE" =>
         \/ slot[i].status = "IDLE" /\ new.after = slot[i].after
         \/ slot[i].status = "BUSY" /\ new.after = age + IdleTimeout
  BY SlotWrites DEF SlotWrite
<1>2. UNCHANGED <<age, status, github, working, swept, ran, worked>>
  BY SlotWrites
<1>3. /\ slot' \in [Slots -> Slot]
      /\ slot'[i] = new
      /\ \A k \in Slots : k # i => slot'[k] = slot[k]
  BY <1>0, <1>1 DEF LifetimeTypeOK
<1>4. LifetimeTypeOK'
  BY <1>0, <1>1, <1>2, <1>3, LifetimeFields DEF LifetimeTypeOK, Times, Created, Unset
<1>5. held' >= held /\ given' >= given /\ held' <= age /\ given' <= age
  BY <1>0, <1>1, LifetimeFields DEF Clocks
<1>6. new.status \in {"IDLE", "BUSY"} /\ new.after \in Nat /\ new.starting \in Nat
        /\ new.allocated \in Nat
  BY DEF Slot, Later, Times, Unset
<1>7. Clocks'
  <2>1. (\E k \in Slots : slot'[k].status = "BUSY") => held' = age
    BY <1>0, <1>1, <1>3, LifetimeFields DEF Clocks
  <2>2. ASSUME NEW k \in Slots
        PROVE  /\ slot'[k].allocated <= given'
               /\ slot'[k].status = "IDLE" =>
                    slot'[k].after # Unset /\ slot'[k].after <= held' + IdleTimeout
    <3>1. CASE k # i
      BY <1>0, <1>1, <1>3, <1>5, <3>1, LifetimeFields DEF Clocks
    <3>2. CASE k = i
      <4>1. new.allocated <= given'
        BY <1>0, <1>1, <1>5, LifetimeFields DEF Clocks, Unset
      <4>2. slot[i].status = "BUSY" => held' = age
        BY <1>0, <1>1, LifetimeFields DEF Clocks
      <4>3. new.status = "IDLE" => new.after # Unset /\ new.after <= held' + IdleTimeout
        BY <1>0, <1>1, <1>5, <4>2, LifetimeFields DEF Clocks, Unset
      <4> QED BY <1>3, <3>2, <4>1, <4>3
    <3> QED BY <3>1, <3>2
  <2> QED BY <1>0, <1>2, <1>5, <2>1, <2>2 DEF Clocks, Running
<1>8. SweptRunning'
  BY <1>0, <1>1, <1>2, <1>5, LifetimeFields DEF LifetimeInv, SweptRunning, Spared, Up
<1>9. SweptIdle'
  <2>1. CASE slot[i].status = "IDLE" /\ new.status = "IDLE"
    <3>1. \A k \in Slots : slot'[k].status = slot[k].status
      BY <1>3, <2>1
    <3> QED BY <1>0, <1>1, <1>2, <1>5, <3>1, LifetimeFields
            DEF LifetimeInv, SweptIdle, Spared, Up
  <2>2. CASE slot[i].status = "BUSY" \/ new.status = "BUSY"
    <3>1. held' = age /\ swept' <= held'
      BY <1>0, <1>1, <1>2, <2>2, LifetimeFields DEF Clocks
    <3> QED BY <1>2, <3>1, <1>0, LifetimeFields DEF SweptIdle
  <2> QED BY <2>1, <2>2, <1>0, <1>6, LifetimeFields
<1>10. SweptBooting'
  BY <1>1, <1>2, <1>3 DEF LifetimeInv, SweptBooting
<1> QED BY <1>4, <1>7, <1>8, <1>9, <1>10 DEF LifetimeInv

\* A sweep that leaves the instance up had a reason to.
LEMMA SweptKeeps == ASSUME LifetimeInv, Swept PROVE LifetimeInv'
<1> USE LifetimeNumbers
<1>0. LifetimeTypeOK /\ Clocks
  BY DEF LifetimeInv
<1>1. UNCHANGED <<age, slot, given, held, ran, worked>> /\ swept' = age /\ Up
  BY DEF Swept, histories
<1>2. PICK found \in {FALSE, working} :
    \/ status = "TERMINATING" /\ FinishTermination(WorkerRunning(found))
    \/ status = "ACTIVE" /\ (Expired(found) \/ StuckStarting) /\ FinishTermination(FALSE)
    \/ status = "ACTIVE" /\ ~(Expired(found) \/ StuckStarting) /\ LeaveAlone
  BY DEF Swept
<1>3. WorkerRunning(found) \/ Running =>
        swept' <= ran' \/ (swept' <= worked' /\ swept' <= Created + ProcessBusyCeiling)
  <2>1. WorkerRunning(found) => working /\ age - Created <= ProcessBusyCeiling
    BY <1>2 DEF WorkerRunning
  <2>2. (Running => ran = age) /\ (working => worked = age)
    BY <1>0 DEF Clocks
  <2> QED BY <1>0, <1>1, <2>1, <2>2, LifetimeFields DEF Created
<1>4. /\ github' \in [Slots -> {"unborn", "idle", "busy", "gone"}] /\ working' \in BOOLEAN
      /\ status' \in {"ACTIVE", "TERMINATING", "TERMINATED"}
      /\ Running' => Running /\ working'
      /\ working' => working
  <2>1. CASE LeaveAlone
    BY <1>0, <2>1 DEF LeaveAlone, Running, LifetimeTypeOK, Clocks
  <2>2. ASSUME NEW spared, FinishTermination(spared) PROVE <1>4!:
    BY <1>0, <2>2 DEF FinishTermination, Running, LifetimeTypeOK, Clocks
  <2> QED BY <1>2, <2>1, <2>2
<1>5. LifetimeTypeOK'
  BY <1>0, <1>1, <1>4, LifetimeFields DEF LifetimeTypeOK, Times, Created, Unset
<1>6. Clocks'
  BY <1>0, <1>1, <1>4, LifetimeFields DEF Clocks
<1>7. CASE status' = "TERMINATED"
  BY <1>5, <1>6, <1>7 DEF LifetimeInv, SweptRunning, SweptIdle, SweptBooting, Up
<1>8. CASE status' = "TERMINATING"
  <2>1. WorkerRunning(found) \/ Running
    BY <1>2, <1>8 DEF FinishTermination, LeaveAlone
  <2> QED BY <1>3, <1>5, <1>6, <1>8, <2>1
          DEF LifetimeInv, SweptRunning, SweptIdle, SweptBooting, Spared
<1>9. CASE status' = "ACTIVE"
  <2>1. ~Expired(found) /\ ~StuckStarting
    BY <1>2, <1>9 DEF FinishTermination
  <2>2. CASE WorkerRunning(found) \/ Running
    <3>1. SweptBooting'
      BY <1>0, <1>1, <2>1, LifetimeFields DEF SweptBooting, StuckStarting
    <3> QED BY <1>3, <1>5, <1>6, <2>2, <3>1 DEF LifetimeInv, SweptRunning, SweptIdle, Spared
  <2>3. CASE ~EligibleForTermination
    <3>1. SweptRunning'
      BY <1>0, <1>1, <2>3, LifetimeFields DEF SweptRunning, EligibleForTermination, Created
    <3>2. SweptIdle'
      BY <1>0, <1>1, <2>3, LifetimeFields DEF SweptIdle, EligibleForTermination, Clocks
    <3>3. SweptBooting'
      BY <1>0, <1>1, <2>1, LifetimeFields DEF SweptBooting, StuckStarting
    <3> QED BY <1>5, <1>6, <3>1, <3>2, <3>3 DEF LifetimeInv
  <2>4. CASE HasFreshBusySlot
    <3>1. SweptRunning'
      BY <1>0, <1>1, <2>4, LifetimeFields DEF SweptRunning, HasFreshBusySlot, Clocks
    <3>2. SweptIdle'
      BY <1>1, <2>4 DEF SweptIdle, HasFreshBusySlot
    <3>3. SweptBooting'
      BY <1>0, <1>1, <2>1, LifetimeFields DEF SweptBooting, StuckStarting
    <3> QED BY <1>5, <1>6, <3>1, <3>2, <3>3 DEF LifetimeInv
  <2> QED BY <2>1, <2>2, <2>3, <2>4 DEF Expired
<1> QED BY <1>4, <1>7, <1>8, <1>9

LEMMA LifetimeStep == LifetimeInv /\ [LifetimeNext]_lifetimeVars => LifetimeInv'
<1> SUFFICES ASSUME LifetimeInv, [LifetimeNext]_lifetimeVars PROVE LifetimeInv'
  OBVIOUS
<1>1. CASE UNCHANGED lifetimeVars
  BY <1>1 DEF lifetimeVars, histories, LifetimeInv, LifetimeTypeOK, Clocks, Running, SweptRunning,
     SweptIdle, SweptBooting, Spared, Up
<1> QED BY <1>1, GrowKeeps, JobsKeep, WritesKeep, SweptKeeps DEF LifetimeNext

LEMMA LifetimeInductive == LifetimeSpec => []LifetimeInv
  BY LifetimeInitial, LifetimeStep, PTL DEF LifetimeSpec

\* An instance is swept away when auto_terminating_time is over, unless it was given
\* jobs, GitHub had jobs on it, or a worker ran there below the ceiling (service.go:27-30).
THEOREM AgeIsCapped == LifetimeSpec => []LifeCapped
<1>1. LifetimeInv => LifeCapped
  <2> SUFFICES ASSUME LifetimeInv, Up,
                      Overdue(SparedUntil \cup {Created + AutoTerminatingTime,
                                                given + StaleBusyAfter})
               PROVE  FALSE
    BY DEF LifeCapped
  <2>1. /\ age > ran + SweepPeriod /\ age > Earlier(worked, Created + ProcessBusyCeiling) + SweepPeriod
        /\ age > Created + AutoTerminatingTime + SweepPeriod
        /\ age > given + StaleBusyAfter + SweepPeriod
    BY DEF Overdue, SparedUntil
  <2> QED BY <2>1, LifetimeNumbers, LifetimeFields
          DEF LifetimeInv, Clocks, SweptRunning, Spared, Earlier, Created
<1> QED BY <1>1, LifetimeInductive, PTL

\* An instance all of whose slots are free is swept away when idle_timeout is over.
THEOREM IdleIsReaped == LifetimeSpec => []IdleReaped
<1>1. LifetimeInv => IdleReaped
  <2> SUFFICES ASSUME LifetimeInv, Up, \A i \in Slots : slot[i].status = "IDLE",
                      Overdue(SparedUntil \cup {held + IdleTimeout})
               PROVE  FALSE
    BY DEF IdleReaped
  <2>1. /\ age > ran + SweepPeriod /\ age > Earlier(worked, Created + ProcessBusyCeiling) + SweepPeriod
        /\ age > held + IdleTimeout + SweepPeriod
    BY DEF Overdue, SparedUntil
  <2> QED BY <2>1, LifetimeNumbers, LifetimeFields
          DEF LifetimeInv, Clocks, SweptIdle, Spared, Earlier, Created
<1> QED BY <1>1, LifetimeInductive, PTL

\* An instance does not serve on with a slot that did not call back by boot_timeout
\* (service.go:226-232).
THEOREM BootIsReaped == LifetimeSpec => []BootReaped
<1>1. LifetimeInv => BootReaped
  BY LifetimeNumbers, LifetimeFields DEF LifetimeInv, Clocks, SweptBooting, BootReaped
<1> QED BY <1>1, LifetimeInductive, PTL

-----------------------------------------------------------------------------
(***************************************************************************)
(* ProcessCheck.                                                           *)
(***************************************************************************)

\* What SSM and the check know was so: a worker that is there has been seen by `was', and
\* so has whatever a command found.
HeardWasSo ==
  \A h \in Instances :
    /\ checkPc # "idle" => worker[h] \in was[h]
    /\ checkPc = "idle" => answer[h] = "none" /\ results[h] = "unknown"
    /\ answer[h] = "busy" => TRUE \in was[h]
    /\ answer[h] = "idle" => FALSE \in was[h]
    /\ results[h] = "busy" => TRUE \in was[h]
    /\ results[h] = "idle" => FALSE \in was[h]

\* The loops over the batches: online names instances of the batches that were described,
\* each once, and the commands are those of the batches that were sent.
Listing ==
  /\ IsInjective(online)
  /\ checkPc = "idle" => online = <<>>
  /\ checkPc \in {"idle", "describe"} =>
       /\ commands = <<>>
       /\ \A k \in DOMAIN online : \E n \in DOMAIN Ids : n <= start /\ online[k] = Ids[n]

Asking ==
  /\ \A c \in DOMAIN commands : \A h \in commands[c] :
       /\ answer[h] # "none"
       /\ \E k \in DOMAIN online : online[k] = h /\ (checkPc = "send" => k <= start)
  /\ checkPc \notin {"idle", "describe", "done"} =>
       \A k \in DOMAIN online :
         \/ checkPc = "send" /\ k > start
         \/ \E c \in DOMAIN commands : online[k] \in commands[c]
  /\ \A c, d \in DOMAIN commands : c # d => commands[c] \cap commands[d] = {}

CheckInv == CheckTypeOK /\ HeardWasSo /\ Listing /\ Asking

LEMMA BatchContents ==
  ASSUME NEW ids \in Seq(Instances), start \in Nat
  PROVE  ToSet(BatchOf(ids)) = {ids[n] : n \in {k \in DOMAIN ids : start < k /\ k <= start + SendCommandBatch}}
<1> DEFINE last == Min2(start + SendCommandBatch, Len(ids))
           batch == SubSeq(ids, start + 1, last)
<1>1. last \in Int /\ start + 1 \in Int /\ last <= Len(ids) /\ last <= start + SendCommandBatch
        /\ (last = Len(ids) \/ last = start + SendCommandBatch) /\ Len(ids) \in Nat
        /\ SendCommandBatch \in Nat /\ start \in Nat
  BY BatchAssumption DEF Min2
<1>2. \A n \in start + 1 .. last : n \in DOMAIN ids /\ ids[n] \in Instances
  BY <1>1
<1>3. /\ batch \in Seq(Instances)
      /\ Len(batch) = IF start + 1 <= last THEN last - start ELSE 0
      /\ \A n \in 1 .. last - start : batch[n] = ids[start + n]
  <2>1. /\ batch \in Seq(Instances)
        /\ Len(batch) = IF start + 1 <= last THEN last - (start + 1) + 1 ELSE 0
        /\ \A n \in 1 .. last - (start + 1) + 1 : batch[n] = ids[(start + 1) + n - 1]
    <3> HIDE DEF last
    <3> QED BY <1>1, <1>2, SubSeqProperties
  <2> HIDE DEF last, batch
  <2>2. \A n \in Int : (start + 1) + n - 1 = start + n
    OBVIOUS
  <2> QED BY <1>1, <2>1, <2>2
<1>4. DOMAIN ids = 1 .. Len(ids) /\ DOMAIN batch = 1 .. Len(batch)
  BY <1>3
<1> HIDE DEF last, batch
<1>5. ASSUME NEW k \in DOMAIN batch PROVE start + k \in DOMAIN ids /\ batch[k] = ids[start + k] /\ start < start + k /\ start + k <= start + SendCommandBatch
  <2>1. k \in 1 .. Len(batch)
    BY <1>4
  <2>2. start + 1 <= last
    BY <1>3, <2>1
  <2>3. k \in 1 .. last - start /\ k \in Int
    BY <1>3, <2>1, <2>2
  <2>4. start + k \in 1 .. Len(ids) /\ start < start + k /\ start + k <= start + SendCommandBatch
    BY <1>1, <2>3
  <2> QED BY <1>3, <1>4, <2>3, <2>4
<1>6. ASSUME NEW n \in DOMAIN ids, start < n, n <= start + SendCommandBatch
      PROVE  n - start \in DOMAIN batch /\ batch[n - start] = ids[n]
  <2>0. n \in 1 .. Len(ids) /\ n \in Int /\ start < n /\ n <= start + SendCommandBatch
    BY <1>4, <1>6
  <2>1. n <= last
    BY <1>1, <2>0
  <2>2. n - start \in 1 .. last - start /\ start + 1 <= last /\ start + (n - start) = n
    BY <1>1, <2>0, <2>1
  <2> QED BY <1>3, <1>4, <2>2
<1>7. ToSet(batch) = {ids[n] : n \in {k \in DOMAIN ids : start < k /\ k <= start + SendCommandBatch}}
  <2>1. ToSet(batch) = {batch[k] : k \in DOMAIN batch}
    BY DEF ToSet
  <2> QED BY <2>1, <1>5, <1>6
<1> QED BY <1>7 DEF batch, last, BatchOf

\* The answers of one batch of DescribeInstanceInformation.
LEMMA ListContents ==
  ASSUME NEW S, IsFiniteSet(S), NEW list \in SetToAllKPermutations(S)
  PROVE  list \in Seq(S) /\ IsInjective(list)
<1>1. PICK T \in SUBSET S : list \in SetToSeqs(T)
  BY DEF SetToAllKPermutations
<1>2. Cardinality(T) \in Nat
  BY FS_Subset, FS_CardinalityType
<1>3. list \in [1 .. Cardinality(T) -> T]
        /\ \A a, b \in 1 .. Cardinality(T) : a # b => list[a] # list[b]
  BY <1>1 DEF SetToSeqs
<1>4. list \in [1 .. Cardinality(T) -> S]
  BY <1>3
<1>5. list \in Seq(S)
  BY <1>2, <1>4
<1> QED BY <1>3, <1>5 DEF IsInjective

LEMMA CheckInitial == CheckInit => CheckInv
<1> SUFFICES ASSUME CheckInit PROVE CheckInv
  OBVIOUS
<1>1. CheckTypeOK
  <2>1. online \in Seq(Instances) /\ commands \in Seq(SUBSET Instances) /\ Len(commands) = 0
    BY EmptySeq DEF CheckInit
  <2>2. /\ worker \in [Instances -> BOOLEAN] /\ answer \in [Instances -> Status]
        /\ results \in [Instances -> {"unknown", "idle", "busy"}]
        /\ was \in [Instances -> SUBSET BOOLEAN]
    BY DEF CheckInit, Status
  <2>3. /\ checkPc = "idle" /\ start = 0 /\ turn = 0 /\ pending \subseteq ToSet(online)
        /\ late \in BOOLEAN
    BY DEF CheckInit
  <2> QED BY <2>1, <2>2, <2>3 DEF CheckTypeOK
<1>2. HeardWasSo
  BY DEF CheckInit, HeardWasSo
<1>3. Listing /\ Asking
  BY DEF CheckInit, Listing, Asking, IsInjective
<1> QED BY <1>1, <1>2, <1>3 DEF CheckInv

\* The steps of the instances, SSM and the clock.
LEMMA OutsideKeeps ==
  ASSUME CheckInv,
         DeadlinePasses \/ Begin \/ \E h \in Instances : WorkerChanges(h) \/ CommandEnds(h)
  PROVE  CheckInv'
<1>0. CheckTypeOK /\ HeardWasSo /\ Listing /\ Asking
  BY DEF CheckInv
<1>1. CASE DeadlinePasses
  <2>1. CheckTypeOK' /\ HeardWasSo'
    BY <1>0, <1>1 DEF DeadlinePasses, loopVars, CheckTypeOK, HeardWasSo
  <2>2. Listing' /\ Asking'
    BY <1>0, <1>1 DEF DeadlinePasses, loopVars, Listing, Asking
  <2> QED BY <2>1, <2>2 DEF CheckInv
<1>2. CASE Begin
  <2>1. CheckTypeOK'
    BY <1>0, <1>2 DEF Begin, CheckTypeOK
  <2>2. HeardWasSo'
    BY <1>0, <1>2 DEF Begin, HeardWasSo, CheckTypeOK
  <2>3. Listing' /\ Asking'
    BY <1>0, <1>2 DEF Begin, Listing, Asking
  <2> QED BY <2>1, <2>2, <2>3 DEF CheckInv
<1>3. ASSUME NEW h \in Instances, WorkerChanges(h) PROVE CheckInv'
  <2>1. /\ worker' = [worker EXCEPT ![h] = ~@]
        /\ was' = [was EXCEPT ![h] = @ \cup {worker'[h]}]
        /\ UNCHANGED <<answer, loopVars, late>>
    BY <1>3 DEF WorkerChanges
  <2>2. worker'[h] \in BOOLEAN /\ worker'[h] \in was'[h]
    BY <1>0, <2>1 DEF CheckTypeOK
  <2>3. \A k \in Instances : was[k] \subseteq was'[k] /\ (k # h => worker'[k] = worker[k])
    BY <1>0, <2>1 DEF CheckTypeOK
  <2>4. CheckTypeOK'
    <3>1. worker' \in [Instances -> BOOLEAN]
      BY <1>0, <2>1 DEF CheckTypeOK
    <3>2. was' \in [Instances -> SUBSET BOOLEAN]
      BY <1>0, <2>1, <2>2 DEF CheckTypeOK
    <3> QED BY <1>0, <2>1, <3>1, <3>2 DEF loopVars, CheckTypeOK
  <2>5. HeardWasSo'
    BY <1>0, <2>1, <2>2, <2>3 DEF loopVars, HeardWasSo
  <2>6. Listing' /\ Asking'
    BY <1>0, <2>1 DEF loopVars, Listing, Asking
  <2> QED BY <2>4, <2>5, <2>6 DEF CheckInv
<1>4. ASSUME NEW h \in Instances, CommandEnds(h) PROVE CheckInv'
  <2>1. PICK a \in {"Failed", IF worker[h] THEN "busy" ELSE "idle"} :
          answer' = [answer EXCEPT ![h] = a]
    BY <1>4 DEF CommandEnds
  <2>2. UNCHANGED <<worker, loopVars, late, was>> /\ answer[h] = "Pending"
    BY <1>4 DEF CommandEnds
  <2>3. answer'[h] = a /\ a \in {"Failed", "busy", "idle"}
          /\ \A k \in Instances : k # h => answer'[k] = answer[k]
    BY <1>0, <2>1 DEF CheckTypeOK
  <2>4. /\ a = "busy" => TRUE \in was[h]
        /\ a = "idle" => FALSE \in was[h]
    <3>1. worker[h] \in was[h] /\ worker[h] \in BOOLEAN
      BY <1>0, <2>2 DEF HeardWasSo, CheckTypeOK
    <3>2. CASE worker[h] = TRUE
      BY <2>1, <3>1, <3>2
    <3>3. CASE worker[h] = FALSE
      BY <2>1, <3>1, <3>3
    <3> QED BY <3>1, <3>2, <3>3
  <2>5. CheckTypeOK'
    BY <1>0, <2>1, <2>2, <2>3 DEF loopVars, CheckTypeOK, Status
  <2>6. HeardWasSo'
    BY <1>0, <2>2, <2>3, <2>4 DEF loopVars, HeardWasSo
  <2>7. Listing' /\ Asking'
    BY <1>0, <2>2, <2>3 DEF loopVars, Listing, Asking, CheckTypeOK
  <2> QED BY <2>5, <2>6, <2>7 DEF CheckInv
<1> QED BY <1>1, <1>2, <1>3, <1>4

\* The steps that leave what was listed, sent and heard as it is.
LEMMA TurnsKeep ==
  ASSUME CheckInv, Described \/ Sent \/ Round \/ Listed \/ CallFails
  PROVE  CheckInv'
<1>0. CheckTypeOK /\ HeardWasSo /\ Listing /\ Asking
  BY DEF CheckInv
<1>1. UNCHANGED <<worker, answer, online, commands, results, late, was>>
        /\ checkPc # "idle" /\ checkPc' # "idle"
  BY DEF Described, Sent, Round, Listed, CallFails
<1>2. HeardWasSo'
  BY <1>0, <1>1 DEF HeardWasSo
<1>3. CheckTypeOK'
  BY <1>0 DEF Described, Sent, Round, Listed, CallFails, CheckTypeOK
<1>4. Listing'
  BY <1>0, <1>1 DEF Described, Sent, Round, Listed, CallFails, Listing
<1>5. Asking'
  <2>1. CASE Described
    BY <1>0, <2>1 DEF Described, Listing, Asking, CheckTypeOK
  <2>2. CASE Sent
    BY <1>0, <2>2 DEF Sent, Asking, CheckTypeOK
  <2>3. CASE Round \/ Listed \/ CallFails
    BY <1>0, <2>3 DEF Round, Listed, CallFails, Asking
  <2> QED BY <2>1, <2>2, <2>3
<1> QED BY <1>2, <1>3, <1>4, <1>5 DEF CheckInv

LEMMA DescribeKeeps == ASSUME CheckInv, Describe PROVE CheckInv'
<1>0. CheckTypeOK /\ HeardWasSo /\ Listing /\ Asking
  BY DEF CheckInv
<1> DEFINE batch == ToSet(BatchOf(Ids))
<1>1. PICK list \in SetToAllKPermutations(batch) : online' = online \o list
  BY DEF Describe
<1>2. /\ checkPc = "describe" /\ start' = start + SendCommandBatch
      /\ UNCHANGED <<worker, answer, checkPc, commands, turn, pending, results, late, was>>
  BY DEF Describe
<1>3. batch = {Ids[n] : n \in {k \in DOMAIN Ids : start < k /\ k <= start + SendCommandBatch}}
        /\ batch \subseteq Instances
  BY <1>0, BatchContents, IdsAssumption DEF CheckTypeOK
<1>4. IsFiniteSet(batch)
  <2> DEFINE K == {k \in DOMAIN Ids : start < k /\ k <= start + SendCommandBatch}
             f == [n \in K |-> Ids[n]]
  <2>1. IsFiniteSet(1 .. Len(Ids)) /\ K \in SUBSET (1 .. Len(Ids))
    BY IdsAssumption, FS_Interval
  <2>2. IsFiniteSet(K)
    BY <2>1, FS_Subset
  <2>3. f \in Surjection(K, batch)
    BY <1>3 DEF Surjection
  <2> HIDE DEF K, f
  <2> QED BY <2>2, <2>3, FS_Surjection
<1>5. list \in Seq(batch) /\ IsInjective(list)
  BY <1>4, ListContents
<1>6. /\ online' \in Seq(Instances)
      /\ \A k \in DOMAIN online' :
           \/ k \in DOMAIN online /\ online'[k] = online[k]
           \/ k - Len(online) \in DOMAIN list /\ online'[k] = list[k - Len(online)] /\ k \notin DOMAIN online
      /\ DOMAIN online \subseteq DOMAIN online'
      /\ \A k \in DOMAIN online : online'[k] = online[k]
  <2>1. list \in Seq(Instances) /\ online \in Seq(Instances) /\ Len(list) \in Nat /\ Len(online) \in Nat
    BY <1>0, <1>3, <1>5 DEF CheckTypeOK
  <2>2. /\ online' \in Seq(Instances) /\ Len(online') = Len(online) + Len(list)
        /\ \A k \in 1 .. Len(online) + Len(list) :
             online'[k] = IF k <= Len(online) THEN online[k] ELSE list[k - Len(online)]
    BY <1>1, <2>1, ConcatProperties
  <2>3. DOMAIN online' = 1 .. Len(online) + Len(list) /\ DOMAIN online = 1 .. Len(online)
          /\ DOMAIN list = 1 .. Len(list)
    BY <2>1, <2>2
  <2> QED BY <2>1, <2>2, <2>3
<1>7. \A k \in DOMAIN list : \E n \in DOMAIN Ids :
        start < n /\ n <= start + SendCommandBatch /\ list[k] = Ids[n]
  BY <1>3, <1>5
<1>8. Listing'
  <2>1. \A k \in DOMAIN online : \E n \in DOMAIN Ids : n <= start /\ online[k] = Ids[n]
    BY <1>0, <1>2 DEF Listing
  <2>2. start \in Nat /\ SendCommandBatch \in Nat /\ \A n \in DOMAIN Ids : n \in Int
    BY <1>0, BatchAssumption, IdsAssumption DEF CheckTypeOK
  <2>3. \A k \in DOMAIN online, m \in DOMAIN list : online[k] # list[m]
    BY <1>7, <2>1, <2>2, IdsAssumption DEF IsInjective
  <2>4. IsInjective(online')
    <3> SUFFICES ASSUME NEW a \in DOMAIN online', NEW b \in DOMAIN online', online'[a] = online'[b]
                 PROVE  a = b
      BY DEF IsInjective
    <3>1. CASE a \in DOMAIN online /\ b \in DOMAIN online
      BY <1>0, <1>6, <3>1 DEF Listing, IsInjective
    <3>2. CASE a \notin DOMAIN online /\ b \notin DOMAIN online
      <4>1. a - Len(online) = b - Len(online)
        BY <1>5, <1>6, <3>2 DEF IsInjective
      <4>2. a \in Int /\ b \in Int /\ Len(online) \in Int
        BY <1>0, <1>6 DEF CheckTypeOK
      <4> QED BY <4>1, <4>2
    <3>3. CASE (a \in DOMAIN online) # (b \in DOMAIN online)
      BY <1>6, <2>3, <3>3
    <3> QED BY <3>1, <3>2, <3>3
  <2>5. ASSUME NEW k \in DOMAIN online'
        PROVE  \E n \in DOMAIN Ids : n <= start' /\ online'[k] = Ids[n]
    <3>1. CASE k \in DOMAIN online
      BY <1>2, <1>6, <2>1, <2>2, <3>1
    <3>2. CASE k \notin DOMAIN online
      BY <1>2, <1>6, <1>7, <3>2
    <3> QED BY <3>1, <3>2
  <2> QED BY <1>0, <1>2, <2>4, <2>5 DEF Listing
<1>9. CheckTypeOK'
  <2>1. start' \in Nat
    BY <1>0, <1>2, BatchAssumption DEF CheckTypeOK
  <2>2. ToSet(online) \subseteq ToSet(online')
    BY <1>6 DEF ToSet
  <2> QED BY <1>0, <1>2, <1>6, <2>1, <2>2 DEF CheckTypeOK
<1>10. HeardWasSo'
  BY <1>0, <1>2 DEF HeardWasSo
<1>11. Asking'
  BY <1>0, <1>2 DEF Asking, Listing
<1> QED BY <1>8, <1>9, <1>10, <1>11 DEF CheckInv

LEMMA SendKeeps == ASSUME CheckInv, SendCommand PROVE CheckInv'
<1>0. CheckTypeOK /\ HeardWasSo /\ Listing /\ Asking
  BY DEF CheckInv
<1> DEFINE batch == ToSet(BatchOf(online))
<1>1. /\ checkPc = "send" /\ start' = start + SendCommandBatch
      /\ commands' = Append(commands, batch)
      /\ answer' = [h \in Instances |-> IF h \in batch THEN "Pending" ELSE answer[h]]
      /\ UNCHANGED <<worker, checkPc, online, turn, pending, results, late, was>>
  BY DEF SendCommand
<1>2. batch = {online[n] : n \in {k \in DOMAIN online : start < k /\ k <= start + SendCommandBatch}}
        /\ online \in Seq(Instances)
  BY <1>0, BatchContents DEF CheckTypeOK
<1>3. batch \subseteq Instances
  BY <1>2
<1> HIDE DEF batch
<1>4. /\ commands' \in Seq(SUBSET Instances)
      /\ DOMAIN commands' = DOMAIN commands \cup {Len(commands) + 1}
      /\ Len(commands) + 1 \notin DOMAIN commands
      /\ commands'[Len(commands) + 1] = batch
      /\ \A c \in DOMAIN commands : commands'[c] = commands[c]
      /\ Len(commands') = Len(commands) + 1 /\ Len(commands) \in Nat
  <2>1. commands \in Seq(SUBSET Instances)
    BY <1>0 DEF CheckTypeOK
  <2> QED BY <1>1, <1>3, <2>1
<1>5. /\ start \in Nat /\ SendCommandBatch \in Nat /\ start' >= start /\ start' \in Nat
      /\ \A k \in DOMAIN online : k \in Int
  BY <1>0, <1>1, <1>2, BatchAssumption DEF CheckTypeOK
<1>6. CheckTypeOK'
  <2>1. answer' \in [Instances -> Status]
    BY <1>0, <1>1 DEF CheckTypeOK, Status
  <2>2. turn' \in 0 .. Len(commands')
    BY <1>0, <1>1, <1>4 DEF CheckTypeOK
  <2> QED BY <1>0, <1>1, <1>4, <1>5, <2>1, <2>2 DEF CheckTypeOK
<1>7. HeardWasSo'
  BY <1>0, <1>1 DEF HeardWasSo
<1>8. Listing'
  BY <1>0, <1>1 DEF Listing
<1>9. Asking'
  <2>1. ASSUME NEW c \in DOMAIN commands', NEW h \in commands'[c]
        PROVE  answer'[h] # "none" /\ \E k \in DOMAIN online : online[k] = h /\ k <= start'
    <3>1. CASE c \in DOMAIN commands
      <4>1. answer[h] # "none" /\ \E k \in DOMAIN online : online[k] = h /\ k <= start
        BY <1>0, <1>1, <1>4, <3>1 DEF Asking
      <4>2. h \in Instances
        BY <1>2, <4>1
      <4> QED BY <1>1, <1>5, <4>1, <4>2
    <3>2. CASE c = Len(commands) + 1
      BY <1>1, <1>2, <1>3, <1>4, <3>2
    <3> QED BY <1>4, <3>1, <3>2
  <2>2. ASSUME NEW k \in DOMAIN online
        PROVE  k > start' \/ \E c \in DOMAIN commands' : online[k] \in commands'[c]
    <3>1. CASE k <= start
      BY <1>0, <1>1, <1>4, <1>5, <3>1 DEF Asking
    <3>2. CASE start < k /\ k <= start'
      BY <1>1, <1>2, <1>4, <3>2
    <3> QED BY <1>5, <3>1, <3>2
  <2>3. ASSUME NEW c \in DOMAIN commands PROVE commands[c] \cap batch = {}
    <3> SUFFICES ASSUME NEW h \in commands[c], h \in batch PROVE FALSE
      OBVIOUS
    <3>1. PICK k \in DOMAIN online : online[k] = h /\ k <= start
      BY <1>0, <1>1 DEF Asking
    <3>2. PICK n \in DOMAIN online : online[n] = h /\ start < n
      BY <1>2
    <3> QED BY <1>0, <1>5, <3>1, <3>2 DEF Listing, IsInjective
  <2>4. \A c, d \in DOMAIN commands' : c # d => commands'[c] \cap commands'[d] = {}
    BY <1>0, <1>4, <2>3 DEF Asking
  <2> QED BY <1>1, <2>1, <2>2, <2>4 DEF Asking
<1> QED BY <1>6, <1>7, <1>8, <1>9 DEF CheckInv

LEMMA ListKeeps == ASSUME CheckInv, List PROVE CheckInv'
<1>0. CheckTypeOK /\ HeardWasSo /\ Listing /\ Asking
  BY DEF CheckInv
<1> DEFINE ended == {h \in commands[turn + 1] \cap pending : answer[h] # "Pending"}
<1>1. /\ checkPc = "list" /\ turn < Len(commands) /\ turn' = turn + 1
      /\ results' = [h \in Instances |-> IF h \in ended THEN Parsed(h) ELSE results[h]]
      /\ pending' = pending \ ended
      /\ UNCHANGED <<worker, answer, checkPc, start, online, commands, late, was>>
  BY DEF List
<1>2. \A h \in ended : answer[h] \in {"Failed", "idle", "busy"}
  <2>1. turn + 1 \in DOMAIN commands
    BY <1>0, <1>1 DEF CheckTypeOK
  <2>2. ASSUME NEW h \in ended PROVE h \in Instances /\ answer[h] # "none"
    BY <1>0, <2>1 DEF Asking, CheckTypeOK
  <2> QED BY <1>0, <2>2 DEF CheckTypeOK, Status
<1> HIDE DEF ended
<1>3. \A h \in Instances : results'[h] \in {results[h], answer[h]} \cap {"unknown", "idle", "busy"}
  BY <1>0, <1>1, <1>2 DEF Parsed, CheckTypeOK
<1>4. CheckTypeOK'
  <2>1. results' \in [Instances -> {"unknown", "idle", "busy"}]
    BY <1>1, <1>3
  <2>2. turn' \in 0 .. Len(commands')
    BY <1>0, <1>1 DEF CheckTypeOK
  <2> QED BY <1>0, <1>1, <2>1, <2>2 DEF CheckTypeOK
<1>5. HeardWasSo'
  BY <1>0, <1>1, <1>3 DEF HeardWasSo
<1>6. Listing' /\ Asking'
  BY <1>0, <1>1 DEF Listing, Asking
<1> QED BY <1>4, <1>5, <1>6 DEF CheckInv

LEMMA CheckStep == CheckInv /\ [CheckNext]_checkVars => CheckInv'
<1> SUFFICES ASSUME CheckInv, [CheckNext]_checkVars PROVE CheckInv'
  OBVIOUS
<1>1. CASE UNCHANGED checkVars
  <2>1. CheckTypeOK'
    BY <1>1 DEF checkVars, CheckInv, CheckTypeOK
  <2>2. HeardWasSo'
    BY <1>1 DEF checkVars, CheckInv, HeardWasSo
  <2>3. Listing'
    BY <1>1 DEF checkVars, CheckInv, Listing
  <2>4. Asking'
    BY <1>1 DEF checkVars, CheckInv, Asking
  <2> QED BY <2>1, <2>2, <2>3, <2>4 DEF CheckInv
<1> QED BY <1>1, OutsideKeeps, TurnsKeep, DescribeKeeps, SendKeeps, ListKeeps
        DEF CheckNext, Checking

LEMMA CheckInductive == CheckSpec => []CheckInv
  BY CheckInitial, CheckStep, PTL DEF CheckSpec

\* What a sweep is told of an instance was so while it checked, and an instance that was
\* not heard from is never said to be idle (ssm.go:58-62).
THEOREM HeardTruly == CheckSpec => []ResultWasSo
<1>1. CheckInv => ResultWasSo
  <2> SUFFICES ASSUME CheckInv, NEW h \in Instances, results[h] # "unknown"
               PROVE  (results[h] = "busy") \in was[h]
    BY DEF ResultWasSo
  <2>1. results[h] \in {"idle", "busy"}
    BY DEF CheckInv, CheckTypeOK
  <2>2. CASE results[h] = "busy"
    <3>1. (results[h] = "busy") = TRUE
      BY <2>2
    <3> QED BY <2>2, <3>1 DEF CheckInv, HeardWasSo
  <2>3. CASE results[h] = "idle"
    <3>1. (results[h] = "busy") = FALSE
      BY <2>3
    <3> QED BY <2>3, <3>1 DEF CheckInv, HeardWasSo
  <2> QED BY <2>1, <2>2, <2>3
<1> QED BY <1>1, CheckInductive, PTL

\* However many instances are online, the commands name each of them once, for any size
\* of a batch and whatever order SSM lists them in (ssm.go:71-84, 133-151).
THEOREM EachAskedOnce == CheckSpec => []AskedOnce
<1>1. CheckInv => AskedOnce
  <2> SUFFICES ASSUME CheckInv PROVE AskedOnce
    OBVIOUS
  <2>1. ASSUME checkPc \in {"round", "list"} PROVE UNION ToSet(commands) = ToSet(online)
    <3>1. ASSUME NEW c \in DOMAIN commands, NEW h \in commands[c] PROVE h \in ToSet(online)
      BY DEF CheckInv, Asking, ToSet
    <3>2. ASSUME NEW k \in DOMAIN online PROVE \E c \in DOMAIN commands : online[k] \in commands[c]
      BY <2>1 DEF CheckInv, Asking
    <3> QED BY <3>1, <3>2 DEF ToSet
  <2> QED BY <2>1 DEF AskedOnce, CheckInv, Asking
<1> QED BY <1>1, CheckInductive, PTL

-----------------------------------------------------------------------------
(***************************************************************************)
(* Image.                                                                  *)
(***************************************************************************)

\* Any images there are have a newest among them.
LEMMA NewestIs ==
  ASSUME NEW dates \in SUBSET Dates
  PROVE  Newest(dates) \in Dates \/ Newest(dates) = NoDate
<1>1. CASE dates = {}
  BY <1>1 DEF Newest
<1>2. CASE dates # {}
  <2> DEFINE ages == {LastDate - d : d \in dates}
  <2>1. ages \subseteq Nat /\ ages # {}
    <3>1. \A d \in Dates : LastDate - d \in Nat
      BY LastDateAssumption DEF Dates
    <3>2. QED
      BY <1>2, <3>1
  <2>2. PICK a \in ages : \A b \in ages : a <= b
    <3> HIDE DEF ages
    <3> QED BY <2>1, LeastOf
  <2>3. \A b \in ages : a <= b
    BY <2>2
  <2>4. PICK d \in dates : a = LastDate - d
    OBVIOUS
  <2>5. \A e \in dates : e <= d
    BY <2>3, <2>4, LastDateAssumption DEF Dates
  <2> QED BY <1>2, <2>5 DEF Newest
<1> QED BY <1>1, <1>2

ImageOf == [family : Families \cup {<<>>}, date : Nat]

\* The types, with those of what an environment remembers.
ImageShape ==
  /\ ImageTypeOK
  /\ cache \in [DOMAIN ColdCache -> [image : ImageOf, expiresAt : -1 .. MaxTime + AMICacheTTL]]
  /\ launch \in [pc : {"idle", "look", "store"}, wants : Wanted \cup {<<>>}, image : ImageOf,
                 since : Nat]

\* The history is of the past, and the newest image of a family is so now.
Shown ==
  \A f \in Families, d \in Dates :
    /\ newestAt[f][d] <= now
    /\ d = Newest(available[f]) => newestAt[f][d] = now

\* A look-up takes no longer than it may, and what it found was the newest since it began.
Looking ==
  launch.pc # "idle" =>
    /\ now <= launch.since + LookupTicks
    /\ launch.pc = "store" =>
         /\ launch.image.family = Family(launch.wants)
         /\ launch.image.date \in Dates
         /\ newestAt[Family(launch.wants)][launch.image.date] >= launch.since

\* What is kept was the newest of its own family within one look-up of being kept.
Keeping ==
  \A k \in DOMAIN cache : cache[k] # NoEntry =>
    /\ cache[k].image.family = k
    /\ cache[k].image.date \in Dates
    /\ newestAt[k][cache[k].image.date] >= cache[k].expiresAt - AMICacheTTL - LookupTicks

ImageInv == ImageShape /\ Shown /\ Looking /\ Keeping

LEMMA ImageKeys ==
  /\ DOMAIN ColdCache = Families
  /\ \A w \in Wanted : CacheKey(w) = Family(w) /\ Family(w) \in Families
  /\ Changing \subseteq Families
  BY ChangingAssumption DEF ColdCache, Families, Family, CacheKey

LEMMA ImageNumbers ==
  /\ AMICacheTTL \in Nat /\ MaxTime \in Nat /\ LookupTicks = 1 /\ NoDate = 0 /\ Never = -1
  /\ Dates \subseteq Nat \ {0}
  BY AMICacheTTLAssumption, MaxTimeAssumption, LastDateAssumption
  DEF LookupTicks, NoDate, Never, Dates

LEMMA NoImageType == NoImage \in ImageOf /\ NoImage.family = <<>> /\ NoImage.date = 0
  BY DEF NoImage, ImageOf, NoDate

LEMMA NoEntryType == NoEntry \in [image : ImageOf, expiresAt : -1 .. MaxTime + AMICacheTTL]
  BY NoImageType, ImageNumbers DEF NoEntry

LEMMA ColdCacheType ==
  /\ ColdCache \in [DOMAIN ColdCache -> [image : ImageOf, expiresAt : -1 .. MaxTime + AMICacheTTL]]
  /\ \A k \in DOMAIN ColdCache : ColdCache[k] = NoEntry
  BY NoEntryType, ImageKeys DEF ColdCache

LEMMA NoLaunchType ==
  /\ NoLaunch \in [pc : {"idle", "look", "store"}, wants : Wanted \cup {<<>>}, image : ImageOf,
                   since : Nat]
  /\ NoLaunch.pc = "idle"
  BY NoImageType DEF NoLaunch

LEMMA ImageInitial == ImageInit => ImageInv
<1> SUFFICES ASSUME ImageInit PROVE ImageInv
  OBVIOUS
<1>1. ImageShape
  <2>1. newestAt \in [Families -> [Dates -> Never .. MaxTime]]
    BY ImageNumbers DEF ImageInit
  <2>2. /\ now \in 0 .. MaxTime /\ available \in [Families -> SUBSET Dates]
        /\ cache = ColdCache /\ launch = NoLaunch
    BY ImageNumbers DEF ImageInit
  <2>3. \A k \in DOMAIN cache : cache[k].expiresAt \in -1 .. MaxTime + AMICacheTTL
    BY <2>2, ColdCacheType
  <2> QED BY <2>1, <2>2, <2>3, ColdCacheType, NoLaunchType DEF ImageShape, ImageTypeOK
<1>2. Shown
  BY ImageNumbers DEF ImageInit, Shown
<1>3. Looking /\ Keeping
  BY ColdCacheType, NoLaunchType DEF ImageInit, Looking, Keeping
<1> QED BY <1>1, <1>2, <1>3 DEF ImageInv

LEMMA ImageFields ==
  ASSUME ImageShape
  PROVE  /\ now \in Nat /\ DOMAIN cache = Families
         /\ \A f \in Families, d \in Dates : newestAt[f][d] \in Int
         /\ \A k \in Families : cache[k].expiresAt \in Int
         /\ launch.pc # "idle" => launch.since \in Nat /\ launch.wants \in Wanted
<1>1. newestAt \in [Families -> [Dates -> Int]]
  BY ImageNumbers DEF ImageShape, ImageTypeOK
<1>2. DOMAIN cache = Families
  BY ImageKeys DEF ImageShape
<1>3. \A k \in Families : cache[k].expiresAt \in Int
  BY <1>2, ImageNumbers DEF ImageShape, ImageTypeOK
<1> QED BY <1>1, <1>2, <1>3 DEF ImageShape, ImageTypeOK

\* The history grows.
LEMMA HistoryKeeps ==
  ASSUME ImageInv, now' \in Nat, now' >= now, cache' = cache,
         newestAt' \in [Families -> [Dates -> Never .. MaxTime]],
         \A f \in Families, d \in Dates : newestAt'[f][d] >= newestAt[f][d]
  PROVE  Keeping'
<1>1. DOMAIN cache = Families
  BY ImageKeys DEF ImageInv, ImageShape
<1>2. ASSUME NEW k \in Families, cache[k] # NoEntry
      PROVE  /\ cache[k].image.family = k
             /\ cache[k].image.date \in Dates
             /\ newestAt'[k][cache[k].image.date]
                  >= cache[k].expiresAt - AMICacheTTL - LookupTicks
  <2>1. /\ cache[k].image.family = k /\ cache[k].image.date \in Dates
        /\ newestAt[k][cache[k].image.date] >= cache[k].expiresAt - AMICacheTTL - LookupTicks
    BY <1>1, <1>2 DEF ImageInv, Keeping
  <2>2. /\ newestAt[k][cache[k].image.date] \in Int /\ newestAt'[k][cache[k].image.date] \in Int
        /\ cache[k].expiresAt \in Int
    <3>1. newestAt' \in [Families -> [Dates -> Int]]
      BY ImageNumbers
    <3> QED BY <2>1, <3>1, ImageFields DEF ImageInv
  <2>3. newestAt'[k][cache[k].image.date] >= newestAt[k][cache[k].image.date]
    BY <2>1
  <2> DEFINE before == newestAt[k][cache[k].image.date]
             after == newestAt'[k][cache[k].image.date]
             expiry == cache[k].expiresAt
  <2>4. before \in Int /\ after \in Int /\ expiry \in Int /\ after >= before
          /\ before >= expiry - AMICacheTTL - LookupTicks
    BY <2>1, <2>2, <2>3, ImageFields DEF ImageInv
  <2> HIDE DEF before, after, expiry
  <2>5. after >= expiry - AMICacheTTL - LookupTicks
    BY <2>4, ImageNumbers
  <2> QED BY <2>1, <2>5 DEF after, expiry
<1> QED BY <1>1, <1>2 DEF Keeping

\* The clock, and the images.
LEMMA SeenGrows ==
  ASSUME ImageInv, NEW f \in Families, NEW dates \in SUBSET Dates, NEW time \in 0 .. MaxTime,
         time >= now
  PROVE  /\ Seen(f, dates, time) \in [Dates -> Never .. MaxTime]
         /\ \A d \in Dates : /\ newestAt[f][d] <= Seen(f, dates, time)[d]
                             /\ Seen(f, dates, time)[d] <= time
                             /\ d = Newest(dates) => Seen(f, dates, time)[d] = time
<1>1. newestAt[f] \in [Dates -> Never .. MaxTime]
  BY DEF ImageInv, ImageShape, ImageTypeOK
<1>2. time \in Never .. MaxTime
  BY ImageNumbers
<1>3. \A d \in Dates : newestAt[f][d] <= now /\ newestAt[f][d] \in Int /\ now \in Nat
  BY ImageFields DEF ImageInv, Shown
<1> QED BY <1>1, <1>2, <1>3 DEF Seen

LEMMA TickKeeps == ASSUME ImageInv, Tick PROVE ImageInv'
<1>1. /\ now' = now + 1 /\ now' \in 0 .. MaxTime /\ now \in Nat
      /\ newestAt' = [f \in Families |-> Seen(f, available[f], now')]
      /\ UNCHANGED <<available, cache, launch>>
  BY ImageFields, ImageNumbers DEF ImageInv, Tick
<1>2. ASSUME NEW f \in Families
      PROVE  /\ newestAt'[f] \in [Dates -> Never .. MaxTime]
             /\ \A d \in Dates : /\ newestAt[f][d] <= newestAt'[f][d]
                                 /\ newestAt'[f][d] <= now'
                                 /\ d = Newest(available[f]) => newestAt'[f][d] = now'
  <2>1. available[f] \in SUBSET Dates
    BY DEF ImageInv, ImageShape, ImageTypeOK
  <2>2. newestAt'[f] = Seen(f, available[f], now')
    BY <1>1
  <2>3. now' >= now
    BY <1>1
  <2> HIDE DEF Seen
  <2> QED BY <1>1, <2>1, <2>2, <2>3, SeenGrows
<1>3. newestAt' \in [Families -> [Dates -> Never .. MaxTime]]
  BY <1>1, <1>2
<1>4. ImageShape'
  <2>1. launch'.pc # "idle" => launch'.since \in 0 .. now'
    BY <1>1 DEF ImageInv, ImageShape, ImageTypeOK
  <2> QED BY <1>1, <1>3, <2>1 DEF ImageInv, ImageShape, ImageTypeOK
<1>5. Shown'
  BY <1>1, <1>2 DEF Shown
<1>6. Looking'
  <2> SUFFICES ASSUME launch.pc # "idle"
               PROVE  /\ now' <= launch.since + LookupTicks
                      /\ launch.pc = "store" =>
                           /\ launch.image.family = Family(launch.wants)
                           /\ launch.image.date \in Dates
                           /\ newestAt'[Family(launch.wants)][launch.image.date] >= launch.since
    BY <1>1 DEF Looking
  <2>1. launch.since \in Nat /\ launch.wants \in Wanted
    BY ImageFields DEF ImageInv
  <2>2. now < launch.since + LookupTicks
    BY DEF Tick
  <2>3. ASSUME launch.pc = "store"
        PROVE  newestAt'[Family(launch.wants)][launch.image.date] >= launch.since
    <3> DEFINE f == Family(launch.wants)
               d == launch.image.date
    <3>1. f \in Families /\ d \in Dates /\ newestAt[f][d] >= launch.since
      BY <2>1, <2>3, ImageKeys DEF ImageInv, Looking
    <3>2. newestAt'[f][d] >= newestAt[f][d] /\ newestAt'[f][d] \in Int /\ newestAt[f][d] \in Int
      <4> HIDE DEF f, d
      <4>1. newestAt' \in [Families -> [Dates -> Int]]
        BY <1>3, ImageNumbers
      <4> QED BY <1>2, <3>1, <4>1, ImageFields DEF ImageInv
    <3> HIDE DEF f, d
    <3>3. newestAt'[f][d] >= launch.since
      BY <2>1, <3>1, <3>2
    <3> QED BY <3>3 DEF f, d
  <2> QED BY <1>1, <2>1, <2>2, <2>3, ImageNumbers DEF ImageInv, Looking
<1>7. Keeping'
  BY <1>1, <1>2, <1>3, HistoryKeeps
<1> QED BY <1>4, <1>5, <1>6, <1>7 DEF ImageInv

LEMMA PublishKeeps ==
  ASSUME ImageInv, NEW f \in Changing, NEW d \in Dates, Publish(f, d)
  PROVE  ImageInv'
<1> DEFINE dates == IF d \in available[f] THEN available[f] \ {d} ELSE available[f] \cup {d}
<1>1. /\ available' = [available EXCEPT ![f] = dates]
      /\ newestAt' = [newestAt EXCEPT ![f] = Seen(f, dates, now)]
      /\ UNCHANGED <<now, cache, launch>>
  BY DEF Publish
<1>2. f \in Families /\ dates \in SUBSET Dates
  BY ImageKeys DEF ImageInv, ImageShape, ImageTypeOK
<1> HIDE DEF dates
<1>3. now \in 0 .. MaxTime /\ now \in Nat
  BY ImageFields DEF ImageInv, ImageShape, ImageTypeOK
<1>4. /\ Seen(f, dates, now) \in [Dates -> Never .. MaxTime]
      /\ \A e \in Dates : /\ newestAt[f][e] <= Seen(f, dates, now)[e]
                          /\ Seen(f, dates, now)[e] <= now
                          /\ e = Newest(dates) => Seen(f, dates, now)[e] = now
  BY <1>2, <1>3, SeenGrows
<1>5. /\ available' \in [Families -> SUBSET Dates] /\ available'[f] = dates
      /\ \A g \in Families : g # f => available'[g] = available[g] /\ newestAt'[g] = newestAt[g]
      /\ newestAt' \in [Families -> [Dates -> Never .. MaxTime]]
      /\ newestAt'[f] = Seen(f, dates, now)
  BY <1>1, <1>2, <1>4 DEF ImageInv, ImageShape, ImageTypeOK
<1>6. \A g \in Families, e \in Dates :
        /\ newestAt[g][e] <= newestAt'[g][e] /\ newestAt[g][e] \in Int /\ newestAt'[g][e] \in Int
        /\ newestAt'[g][e] <= now
        /\ e = Newest(available'[g]) => newestAt'[g][e] = now
  <2>1. newestAt' \in [Families -> [Dates -> Int]]
    BY <1>5, ImageNumbers
  <2> QED BY <1>4, <1>5, <2>1, ImageFields DEF ImageInv, Shown
<1>7. ImageShape'
  BY <1>1, <1>5 DEF ImageInv, ImageShape, ImageTypeOK
<1>8. Shown'
  BY <1>1, <1>6 DEF Shown
<1>9. Looking'
  <2>1. ASSUME launch.pc = "store"
        PROVE  newestAt'[Family(launch.wants)][launch.image.date] >= launch.since
    <3> DEFINE g == Family(launch.wants)
               e == launch.image.date
    <3>1. g \in Families /\ e \in Dates /\ newestAt[g][e] >= launch.since /\ launch.since \in Nat
      BY <2>1, ImageFields, ImageKeys DEF ImageInv, Looking
    <3> HIDE DEF g, e
    <3>2. newestAt'[g][e] >= launch.since
      BY <1>6, <3>1
    <3> QED BY <3>2 DEF g, e
  <2> QED BY <1>1, <2>1 DEF ImageInv, Looking
<1>10. Keeping'
  BY <1>1, <1>3, <1>5, <1>6, HistoryKeeps
<1> QED BY <1>7, <1>8, <1>9, <1>10 DEF ImageInv

\* The environment.
LEMMA ColdStartKeeps == ASSUME ImageInv, ColdStart PROVE ImageInv'
<1>1. cache' = ColdCache /\ launch' = NoLaunch /\ UNCHANGED <<now, available, newestAt>>
  BY DEF ColdStart
<1>2. ImageShape'
  <2>1. \A k \in DOMAIN cache' : cache'[k].expiresAt \in -1 .. MaxTime + AMICacheTTL
    BY <1>1, ColdCacheType
  <2> QED BY <1>1, <2>1, ColdCacheType, NoLaunchType DEF ImageInv, ImageShape, ImageTypeOK
<1>3. Shown'
  BY <1>1 DEF ImageInv, Shown
<1>4. Looking' /\ Keeping'
  BY <1>1, ColdCacheType, NoLaunchType DEF Looking, Keeping
<1> QED BY <1>2, <1>3, <1>4 DEF ImageInv

LEMMA LaunchKeeps ==
  ASSUME ImageInv, LookUpFails \/ LookUp \/ \E w \in Wanted : LatestAMI(w)
  PROVE  ImageInv'
<1>1. UNCHANGED <<now, available, cache, newestAt>>
  BY DEF LookUpFails, LookUp, LatestAMI
<1>2. CASE LookUpFails
  <2>1. launch' = NoLaunch
    BY <1>2 DEF LookUpFails
  <2>2. ImageShape'
    BY <1>1, <2>1, NoLaunchType DEF ImageInv, ImageShape, ImageTypeOK
  <2>3. Shown' /\ Looking' /\ Keeping'
    BY <1>1, <2>1, NoLaunchType DEF ImageInv, Shown, Looking, Keeping
  <2> QED BY <2>2, <2>3 DEF ImageInv
<1>3. ASSUME NEW w \in Wanted, LatestAMI(w) PROVE ImageInv'
  <2> DEFINE new == [NoLaunch EXCEPT !.pc = "look", !.wants = w, !.since = now]
  <2>0. launch' = new
    BY <1>3 DEF LatestAMI
  <2>2. now \in Nat /\ now \in 0 .. now
    BY ImageFields DEF ImageInv
  <2>1. /\ new \in [pc : {"idle", "look", "store"}, wants : Wanted \cup {<<>>}, image : ImageOf,
                    since : Nat]
        /\ new.pc = "look" /\ new.wants = w /\ new.since = now
    BY <2>2, NoLaunchType
  <2> HIDE DEF new
  <2>3. ImageShape'
    BY <1>1, <2>0, <2>1, <2>2 DEF ImageInv, ImageShape, ImageTypeOK
  <2>4. Shown' /\ Looking' /\ Keeping'
    BY <1>1, <2>0, <2>1, <2>2, ImageNumbers DEF ImageInv, Shown, Looking, Keeping
  <2> QED BY <2>3, <2>4 DEF ImageInv
<1>4. CASE LookUp
  <2> DEFINE f == Family(launch.wants)
             found == [family |-> f, date |-> Newest(available[f])]
             new == [launch EXCEPT !.pc = "store", !.image = found]
  <2>1. launch' = new /\ launch.pc = "look" /\ Newest(available[f]) # NoDate
    BY <1>4 DEF LookUp
  <2>2. launch.wants \in Wanted /\ f \in Families /\ available[f] \in SUBSET Dates
          /\ launch.since \in Nat /\ launch.since \in 0 .. now /\ now <= launch.since + LookupTicks
    BY <2>1, ImageFields, ImageKeys DEF ImageInv, ImageShape, ImageTypeOK, Looking
  <2>3. found.date \in Dates /\ found.family = f /\ found \in ImageOf
    BY <2>1, <2>2, NewestIs, ImageNumbers DEF ImageOf
  <2>4. newestAt[f][found.date] = now
    BY <2>2, <2>3 DEF ImageInv, Shown
  <2> HIDE DEF found
  <2>5. /\ new \in [pc : {"idle", "look", "store"}, wants : Wanted \cup {<<>>}, image : ImageOf,
                    since : Nat]
        /\ new.pc = "store" /\ new.image = found /\ new.wants = launch.wants
        /\ new.since = launch.since
    BY <2>1, <2>3 DEF ImageInv, ImageShape
  <2> HIDE DEF new
  <2>6. ImageShape'
    BY <1>1, <2>1, <2>2, <2>5 DEF ImageInv, ImageShape, ImageTypeOK
  <2>7. Looking'
    BY <1>1, <2>1, <2>2, <2>3, <2>4, <2>5, ImageFields DEF ImageInv, Looking
  <2>8. Shown' /\ Keeping'
    BY <1>1 DEF ImageInv, Shown, Keeping
  <2> QED BY <2>6, <2>7, <2>8 DEF ImageInv
<1> QED BY <1>2, <1>3, <1>4

LEMMA StoreKeeps == ASSUME ImageInv, Store PROVE ImageInv'
<1> DEFINE f == CacheKey(launch.wants)
           entry == [image |-> launch.image, expiresAt |-> now + AMICacheTTL]
<1>1. /\ launch.pc = "store" /\ cache' = [cache EXCEPT ![f] = entry] /\ launch' = NoLaunch
      /\ UNCHANGED <<now, available, newestAt>>
  BY DEF Store
<1>2. /\ launch.wants \in Wanted /\ f \in Families /\ f = Family(launch.wants)
      /\ launch.image \in ImageOf /\ launch.since \in Nat /\ now \in 0 .. MaxTime /\ now \in Nat
      /\ now <= launch.since + LookupTicks
      /\ launch.image.family = f /\ launch.image.date \in Dates
      /\ newestAt[f][launch.image.date] >= launch.since
      /\ newestAt[f][launch.image.date] \in Int
  BY <1>1, ImageFields, ImageKeys DEF ImageInv, ImageShape, ImageTypeOK, Looking
<1> HIDE DEF f
<1>3. /\ entry \in [image : ImageOf, expiresAt : -1 .. MaxTime + AMICacheTTL]
      /\ entry.image = launch.image
      /\ entry.expiresAt = now + AMICacheTTL /\ entry.expiresAt \in Int
      /\ newestAt[f][entry.image.date] >= entry.expiresAt - AMICacheTTL - LookupTicks
  <2>1. now + AMICacheTTL \in -1 .. MaxTime + AMICacheTTL
    BY <1>2, ImageNumbers
  <2>2. newestAt[f][launch.image.date] >= (now + AMICacheTTL) - AMICacheTTL - LookupTicks
    BY <1>2, ImageNumbers
  <2> QED BY <1>2, <2>1, <2>2
<1> HIDE DEF entry
<1>4. DOMAIN cache = Families /\ DOMAIN ColdCache = Families
  BY ImageKeys, ImageFields DEF ImageInv
<1>5. /\ cache' \in [DOMAIN ColdCache -> [image : ImageOf, expiresAt : -1 .. MaxTime + AMICacheTTL]]
      /\ cache'[f] = entry
      /\ \A k \in Families : k # f => cache'[k] = cache[k]
      /\ DOMAIN cache' = Families
  BY <1>1, <1>2, <1>3, <1>4 DEF ImageInv, ImageShape
<1>6. ImageShape'
  <2>1. \A k \in Families : cache'[k].expiresAt \in -1 .. MaxTime + AMICacheTTL
    BY <1>4, <1>5
  <2> QED BY <1>1, <1>4, <1>5, <2>1, NoLaunchType DEF ImageInv, ImageShape, ImageTypeOK
<1>7. Shown'
  BY <1>1 DEF ImageInv, Shown
<1>8. Looking'
  BY <1>1, NoLaunchType DEF Looking
<1>9. Keeping'
  <2> SUFFICES ASSUME NEW k \in Families, cache'[k] # NoEntry
               PROVE  /\ cache'[k].image.family = k /\ cache'[k].image.date \in Dates
                      /\ newestAt[k][cache'[k].image.date]
                           >= cache'[k].expiresAt - AMICacheTTL - LookupTicks
    BY <1>1, <1>5 DEF Keeping
  <2>1. CASE k = f
    BY <1>2, <1>3, <1>5, <2>1
  <2>2. CASE k # f
    BY <1>4, <1>5, <2>2 DEF ImageInv, Keeping
  <2> QED BY <2>1, <2>2
<1> QED BY <1>6, <1>7, <1>8, <1>9 DEF ImageInv

LEMMA ImageStep == ImageInv /\ [ImageNext]_imageVars => ImageInv'
<1> SUFFICES ASSUME ImageInv, [ImageNext]_imageVars PROVE ImageInv'
  OBVIOUS
<1>1. CASE UNCHANGED imageVars
  <2>1. ImageShape'
    BY <1>1 DEF imageVars, ImageInv, ImageShape, ImageTypeOK
  <2>2. Shown' /\ Looking' /\ Keeping'
    BY <1>1 DEF imageVars, ImageInv, Shown, Looking, Keeping
  <2> QED BY <2>1, <2>2 DEF ImageInv
<1> QED BY <1>1, TickKeeps, PublishKeeps, ColdStartKeeps, LaunchKeeps, StoreKeeps DEF ImageNext

LEMMA ImageInductive == ImageSpec => []ImageInv
  BY ImageInitial, ImageStep, PTL DEF ImageSpec

\* Whatever is published and withdrawn meanwhile, a launch is given no image from the cache
\* that was not the newest of its family within the time an answer is kept and the time
\* its look-up took (ami.go:17-20, 38-40).
THEOREM CachedIsRecent == ImageSpec => []ImageRecent
<1>1. ImageInv => ImageRecent
  <2> SUFFICES ASSUME ImageInv, NEW w \in Wanted, Fresh(CacheKey(w))
               PROVE  newestAt[Kept(w).family][Kept(w).date] >= now - AMICacheTTL - LookupTicks
    BY DEF ImageRecent
  <2> DEFINE k == CacheKey(w)
  <2>1. k \in Families /\ k \in DOMAIN cache /\ cache[k] # NoEntry /\ now <= cache[k].expiresAt
    BY ImageKeys, ImageFields DEF Fresh, ImageInv
  <2>2. /\ Kept(w).family = k /\ Kept(w).date \in Dates
        /\ newestAt[k][Kept(w).date] >= cache[k].expiresAt - AMICacheTTL - LookupTicks
    BY <2>1 DEF ImageInv, Keeping, Kept
  <2>3. newestAt[k][Kept(w).date] \in Int /\ cache[k].expiresAt \in Int /\ now \in Int
    BY <2>1, <2>2, ImageFields DEF ImageInv
  <2> HIDE DEF k
  <2> QED BY <2>1, <2>2, <2>3, ImageNumbers
<1> QED BY <1>1, ImageInductive, PTL

\* Profiles share the cache of an environment, and still a launch is given an image of the
\* system and the architecture it asked for (ami.go:57-60).
THEOREM CachedFits == ImageSpec => []ImageFits
<1>1. ImageInv => ImageFits
  BY ImageKeys, ImageFields DEF ImageInv, Keeping, ImageFits, Fresh, Kept
<1> QED BY <1>1, ImageInductive, PTL

-----------------------------------------------------------------------------
(***************************************************************************)
(* Config.                                                                 *)
(***************************************************************************)

LEMMA ConfigFields ==
  ASSUME NEW c, IsConfig(c)
  PROVE  /\ c.given \subseteq Needed /\ c.scope \in Scopes \cup {"other"}
         /\ c.repository \in BOOLEAN /\ c.group \in BOOLEAN
         /\ c.idle \in Int /\ c.auto \in Int /\ c.boot \in Int
         /\ DOMAIN c.profiles \subseteq Names
         /\ c.profiles \in [DOMAIN c.profiles -> Profile]
  BY DEF IsConfig, ConfigOf

LEMMA ProfileFields ==
  ASSUME NEW p \in Profile
  PROVE  /\ p.labels \in Seq(Labels) /\ p.architecture \in Architectures \cup {"other"}
         /\ p.ami \in BOOLEAN /\ p.lookup \in BOOLEAN /\ p.os \in BOOLEAN /\ p.version \in BOOLEAN
         /\ p.instanceType \in BOOLEAN /\ p.disk \in Int /\ p.ram \in Int /\ p.count \in Int
  BY DEF Profile

LEMMA DefaultType == ASSUME NEW v \in Int, NEW d \in Int PROVE OrDefault(v, d) \in Int
  BY DEF OrDefault

\* What the defaults make of a profile.
LEMMA ProfileDefaults ==
  ASSUME NEW p \in Profile, NEW name \in Names
  PROVE  /\ DefaultedProfile(p, name) \in Profile
         /\ DefaultedProfile(p, name).labels = IF p.labels = <<>> THEN <<name>> ELSE p.labels
         /\ DefaultedProfile(p, name).disk = OrDefault(p.disk, defaultDiskSizeGB)
         /\ DefaultedProfile(p, name).count = OrDefault(p.count, defaultRunnerCount)
         /\ \A f \in {"architecture", "ami", "lookup", "os", "version", "instanceType", "ram"} :
              DefaultedProfile(p, name)[f] = p[f]
<1> DEFINE labels == IF p.labels = <<>> THEN <<name>> ELSE p.labels
           disk == OrDefault(p.disk, defaultDiskSizeGB)
           count == OrDefault(p.count, defaultRunnerCount)
<1>1. labels \in Seq(Labels)
  <2>1. <<name>> \in Seq(Labels)
    BY NamesAssumption
  <2> QED BY <2>1, ProfileFields
<1>2. disk \in Int /\ count \in Int
  <2>1. p.disk \in Int /\ p.count \in Int /\ defaultDiskSizeGB \in Int /\ defaultRunnerCount \in Int
    BY ProfileFields DEF defaultDiskSizeGB, defaultRunnerCount
  <2> QED BY <2>1, DefaultType
<1>3. DefaultedProfile(p, name) = [p EXCEPT !.labels = labels, !.disk = disk, !.count = count]
  BY DEF DefaultedProfile
<1> HIDE DEF labels, disk, count
<1>4. /\ DefaultedProfile(p, name) \in Profile
      /\ DefaultedProfile(p, name).labels = labels
      /\ DefaultedProfile(p, name).disk = disk
      /\ DefaultedProfile(p, name).count = count
      /\ \A f \in {"architecture", "ami", "lookup", "os", "version", "instanceType", "ram"} :
           DefaultedProfile(p, name)[f] = p[f]
  BY <1>1, <1>2, <1>3 DEF Profile
<1> QED BY <1>4 DEF labels, disk, count

LEMMA ConfigDefaults ==
  ASSUME NEW c, IsConfig(c)
  PROVE  /\ IsConfig(Defaulted(c))
         /\ Defaulted(c).given = c.given /\ Defaulted(c).scope = c.scope
         /\ Defaulted(c).repository = c.repository /\ Defaulted(c).group = c.group
         /\ Defaulted(c).idle = c.idle
         /\ Defaulted(c).auto = OrDefault(c.auto, defaultAutoTerminatingTime)
         /\ Defaulted(c).boot = OrDefault(c.boot, defaultBootTimeout)
         /\ Defaulted(c).profiles
              = [n \in DOMAIN c.profiles |-> DefaultedProfile(c.profiles[n], n)]
<1> DEFINE auto == OrDefault(c.auto, defaultAutoTerminatingTime)
           boot == OrDefault(c.boot, defaultBootTimeout)
           profiles == [n \in DOMAIN c.profiles |-> DefaultedProfile(c.profiles[n], n)]
<1>1. PICK names \in SUBSET Names : c \in ConfigOf(names)
  BY DEF IsConfig
<1>2. DOMAIN c.profiles = names /\ c.profiles \in [names -> Profile]
  BY <1>1 DEF ConfigOf
<1>3. profiles \in [names -> Profile]
  BY <1>2, ProfileDefaults
<1>4. auto \in Int /\ boot \in Int
  <2>1. c.auto \in Int /\ c.boot \in Int
    BY ConfigFields
  <2>2. defaultAutoTerminatingTime \in Int /\ defaultBootTimeout \in Int
    BY DEF defaultAutoTerminatingTime, defaultBootTimeout
  <2>3. QED
    BY <2>1, <2>2, DefaultType
<1>5. Defaulted(c) = [c EXCEPT !.auto = auto, !.boot = boot, !.profiles = profiles]
  BY DEF Defaulted
<1> HIDE DEF auto, boot, profiles
<1>6. /\ Defaulted(c) \in ConfigOf(names)
      /\ Defaulted(c).given = c.given /\ Defaulted(c).scope = c.scope
      /\ Defaulted(c).repository = c.repository /\ Defaulted(c).group = c.group
      /\ Defaulted(c).idle = c.idle /\ Defaulted(c).auto = auto /\ Defaulted(c).boot = boot
      /\ Defaulted(c).profiles = profiles
  BY <1>1, <1>3, <1>4, <1>5 DEF ConfigOf
<1> QED BY <1>6 DEF auto, boot, profiles, IsConfig

\* When the checks of a configuration, or of a profile, have nothing to say.
CleanConfig(c) ==
  /\ Needed \subseteq c.given
  /\ c.scope \in Scopes
  /\ c.scope = "repository" => c.repository /\ ~c.group
  /\ c.idle > 0 /\ c.auto > 0 /\ c.boot > 0
  /\ DOMAIN c.profiles # {}

CleanProfile(p) ==
  /\ p.architecture \in Architectures
  /\ p.ami # p.lookup
  /\ p.lookup /\ ~p.ami => p.os /\ p.version
  /\ p.instanceType
  /\ p.disk >= minDiskSizeGB
  /\ p.ram >= 0
  /\ p.count \in 1 .. maxRunnerCount

LEMMA CleanConfigSilent ==
  ASSUME NEW c, IsConfig(c)
  PROVE  ConfigReports(c) = {} <=> CleanConfig(c)
<1> DEFINE bad(what) ==
      CASE what = "scope" -> c.scope \notin Scopes
        [] what = "repository" -> c.scope = "repository" /\ ~c.repository
        [] what = "group" -> c.scope = "repository" /\ c.group
        [] what = "idle_timeout" -> c.idle <= 0
        [] what = "auto_terminating_time" -> c.auto <= 0
        [] what = "boot_timeout" -> c.boot <= 0
        [] what = "profiles" -> DOMAIN c.profiles = {}
<1>1. ConfigReports(c) = {} <=> Needed \subseteq c.given /\ \A what \in ConfigField : ~bad(what)
  <2> HIDE DEF bad
  <2>1. ConfigReports(c) = {Wrong("config", f) : f \in Needed \ c.given}
                             \cup {Wrong("config", f) : f \in {what \in ConfigField : bad(what)}}
    BY DEF ConfigReports, bad
  <2> QED BY <2>1
<1>2. /\ bad("scope") <=> c.scope \notin Scopes
      /\ bad("repository") <=> c.scope = "repository" /\ ~c.repository
      /\ bad("group") <=> c.scope = "repository" /\ c.group
      /\ bad("idle_timeout") <=> c.idle <= 0
      /\ bad("auto_terminating_time") <=> c.auto <= 0
      /\ bad("boot_timeout") <=> c.boot <= 0
      /\ bad("profiles") <=> DOMAIN c.profiles = {}
  OBVIOUS
<1>3. (\A what \in ConfigField : ~bad(what)) <=>
        /\ ~bad("scope") /\ ~bad("repository") /\ ~bad("group") /\ ~bad("idle_timeout")
        /\ ~bad("auto_terminating_time") /\ ~bad("boot_timeout") /\ ~bad("profiles")
  <2> HIDE DEF bad
  <2> QED BY DEF ConfigField
<1> HIDE DEF bad
<1> QED BY <1>1, <1>2, <1>3, ConfigFields DEF CleanConfig

LEMMA CleanProfileSilent ==
  ASSUME NEW n \in Names, NEW p \in Profile
  PROVE  ProfileReports(n, p) = {} <=> CleanProfile(p)
<1> DEFINE bad(what) ==
      CASE what = "architecture" -> p.architecture \notin Architectures
        [] what = "ami" -> p.ami = p.lookup
        [] what = "os" -> p.lookup /\ ~p.ami /\ ~p.os
        [] what = "version" -> p.lookup /\ ~p.ami /\ ~p.version
        [] what = "instance_type" -> ~p.instanceType
        [] what = "disk_size" -> p.disk < minDiskSizeGB
        [] what = "virtual_ram" -> p.ram < 0
        [] what = "runner_count" -> p.count \notin 1 .. maxRunnerCount
<1>1. ProfileReports(n, p) = {} <=> \A what \in ProfileField : ~bad(what)
  <2> HIDE DEF bad
  <2>1. ProfileReports(n, p) = {Wrong(n, f) : f \in {what \in ProfileField : bad(what)}}
    BY DEF ProfileReports, bad
  <2> QED BY <2>1
<1>2. /\ bad("architecture") <=> p.architecture \notin Architectures
      /\ bad("ami") <=> p.ami = p.lookup
      /\ bad("os") <=> p.lookup /\ ~p.ami /\ ~p.os
      /\ bad("version") <=> p.lookup /\ ~p.ami /\ ~p.version
      /\ bad("instance_type") <=> ~p.instanceType
      /\ bad("disk_size") <=> p.disk < minDiskSizeGB
      /\ bad("virtual_ram") <=> p.ram < 0
      /\ bad("runner_count") <=> p.count \notin 1 .. maxRunnerCount
  OBVIOUS
<1>3. (\A what \in ProfileField : ~bad(what)) <=>
        /\ ~bad("architecture") /\ ~bad("ami") /\ ~bad("os") /\ ~bad("version")
        /\ ~bad("instance_type") /\ ~bad("disk_size") /\ ~bad("virtual_ram")
        /\ ~bad("runner_count")
  <2> HIDE DEF bad
  <2> QED BY DEF ProfileField
<1> HIDE DEF bad
<1> QED BY <1>1, <1>2, <1>3, ProfileFields DEF CleanProfile, minDiskSizeGB

LabelsAt(n) == cfg.profiles[n].labels
LabelsIn(n) == RangeOf(LabelsAt(n))
Started == stage \in {"profiles", "accepted", "rejected"}
Done == IF Started THEN DOMAIN cfg.profiles \ todo ELSE {}

\* A declaration of a label is late when the label went to another profile, or is a
\* repetition in its own list.
Late(n, i) ==
  owner[LabelsAt(n)[i]] # n \/ \E h \in 1 .. i - 1 : LabelsAt(n)[h] = LabelsAt(n)[i]
LateReport(n, i) == [at |-> n, what |-> "label", nth |-> i]
LateReports(n) == {LateReport(n, i) : i \in {k \in DOMAIN LabelsAt(n) : Late(n, k)}}

Stages ==
  /\ IsConfig(raw)
  /\ cfg = IF stage = "loaded" THEN raw ELSE Defaulted(raw)
  /\ stage \in {"loaded", "defaulted", "profiles", "accepted", "rejected"}
  /\ todo \subseteq DOMAIN cfg.profiles
  /\ stage # "profiles" => todo = {}
  /\ stage \in {"accepted", "rejected"} => (stage = "accepted" <=> reports = {})

\* In whatever order the profiles came: a label belongs to one of those that declare it.
Owned ==
  /\ owner \in [Labels -> Names \cup {NoName}]
  /\ \A n \in Done : \A l \in LabelsIn(n) : owner[l] # NoName
  /\ \A l \in Labels : owner[l] # NoName => \E n \in Done : owner[l] = n /\ l \in LabelsIn(n)

\* The reports are those of the configuration and of the profiles that were done, and each
\* late declaration.
Told ==
  reports = (IF Started THEN ConfigReports(cfg) ELSE {})
              \cup UNION {ProfileReports(n, cfg.profiles[n]) \cup LateReports(n) : n \in Done}

Resolved ==
  /\ asked \subseteq Labels
  /\ asked # {} => stage = "accepted"
  /\ asked = {} => answers = {}
  /\ answers \subseteq IF Matches(asked) = {} THEN {NoName} ELSE Matches(asked)

ConfigInv == Stages /\ Owned /\ Told /\ Resolved

LEMMA CfgFields ==
  ASSUME Stages
  PROVE  /\ IsConfig(cfg) /\ DOMAIN cfg.profiles \subseteq Names
         /\ \A n \in DOMAIN cfg.profiles :
              /\ cfg.profiles[n] \in Profile /\ LabelsAt(n) \in Seq(Labels)
              /\ \A i \in DOMAIN LabelsAt(n) : LabelsAt(n)[i] \in Labels
<1>1. IsConfig(cfg)
  BY ConfigDefaults DEF Stages
<1>2. DOMAIN cfg.profiles \subseteq Names /\ cfg.profiles \in [DOMAIN cfg.profiles -> Profile]
  BY <1>1, ConfigFields
<1>3. ASSUME NEW n \in DOMAIN cfg.profiles
      PROVE  /\ cfg.profiles[n] \in Profile /\ LabelsAt(n) \in Seq(Labels)
             /\ \A i \in DOMAIN LabelsAt(n) : LabelsAt(n)[i] \in Labels
  <2>1. cfg.profiles[n] \in Profile
    BY <1>2
  <2>2. LabelsAt(n) \in Seq(Labels)
    BY <2>1, ProfileFields DEF LabelsAt
  <2> QED BY <2>1, <2>2
<1> QED BY <1>1, <1>2, <1>3

LEMMA ConfigInitial == ConfigInit => ConfigInv
<1> SUFFICES ASSUME ConfigInit PROVE ConfigInv
  OBVIOUS
<1>1. Done = {} /\ ~Started
  BY DEF ConfigInit, Done, Started
<1>2. Stages
  BY RawAssumption DEF ConfigInit, Stages
<1>3. Owned
  BY <1>1 DEF ConfigInit, Owned
<1>4. Told
  BY <1>1 DEF ConfigInit, Told
<1>5. Resolved
  BY DEF ConfigInit, Resolved
<1> QED BY <1>2, <1>3, <1>4, <1>5 DEF ConfigInv

LEMMA LoadKeeps == ASSUME ConfigInv, ApplyDefaults \/ Validate PROVE ConfigInv'
<1>0. Stages /\ Owned /\ Told /\ Resolved
  BY DEF ConfigInv
<1>1. /\ stage \in {"loaded", "defaulted"} /\ ~Started /\ Done = {} /\ reports = {}
      /\ stage' \in {"defaulted", "profiles"} /\ cfg' = Defaulted(raw) /\ asked = {} /\ answers = {}
      /\ UNCHANGED <<raw, owner, asked, answers>>
  BY <1>0 DEF ApplyDefaults, Validate, Started, Done, Stages, Told, Resolved
<1>2. todo = {} /\ (stage' = "defaulted" => todo' = {} /\ reports' = {})
        /\ (stage' = "profiles" => todo' = DOMAIN cfg'.profiles /\ reports' = ConfigReports(cfg'))
  BY <1>0, <1>1 DEF ApplyDefaults, Validate, Stages
<1>3. Done' = {} /\ (Started' <=> stage' = "profiles")
  BY <1>1, <1>2 DEF Done, Started
<1>4. Stages'
  BY <1>0, <1>1, <1>2 DEF Stages
<1>5. Owned'
  BY <1>0, <1>1, <1>3 DEF Owned
<1>6. Told'
  BY <1>1, <1>2, <1>3 DEF Told
<1>7. Resolved'
  BY <1>1 DEF Resolved
<1> QED BY <1>4, <1>5, <1>6, <1>7 DEF ConfigInv

LEMMA ProfileKeeps ==
  ASSUME ConfigInv, NEW n \in Names, ValidateProfile(n)
  PROVE  ConfigInv'
<1>0. Stages /\ Owned /\ Told /\ Resolved
  BY DEF ConfigInv
<1>1. /\ stage = "profiles" /\ n \in todo
      /\ reports' = reports \cup ProfileReports(n, cfg.profiles[n]) \cup LabelReports(n, cfg.profiles[n])
      /\ owner' = [l \in Labels |-> IF owner[l] = NoName /\ l \in LabelsIn(n) THEN n ELSE owner[l]]
      /\ todo' = todo \ {n}
      /\ UNCHANGED <<raw, cfg, stage, asked, answers>>
  BY DEF ValidateProfile, LabelsIn, LabelsAt
<1>2. /\ Done' = Done \cup {n} /\ n \notin Done /\ n \in DOMAIN cfg.profiles /\ n # NoName
      /\ Started /\ Started' /\ Done \subseteq DOMAIN cfg.profiles /\ Done \subseteq Names
  BY <1>0, <1>1, NoNameAssumption, CfgFields DEF Done, Started, Stages
<1>3. \A l \in Labels : owner'[l] = IF owner[l] = NoName /\ l \in LabelsIn(n) THEN n ELSE owner[l]
  BY <1>1
<1>4. \A m \in DOMAIN cfg.profiles : LabelsIn(m)' = LabelsIn(m) /\ LabelsAt(m)' = LabelsAt(m)
  BY <1>1 DEF LabelsIn, LabelsAt
<1>5. Stages'
  BY <1>0, <1>1 DEF Stages
<1>6. Owned'
  <2>1. owner' \in [Labels -> Names \cup {NoName}]
    BY <1>0, <1>1 DEF Owned
  <2>2. ASSUME NEW m \in Done', NEW l \in LabelsIn(m)'
        PROVE  owner'[l] # NoName
    <3>1. m \in DOMAIN cfg.profiles /\ l \in LabelsIn(m) /\ l \in Labels
      <4>1. m \in DOMAIN cfg.profiles /\ l \in LabelsIn(m)
        BY <1>2, <1>4
      <4> QED BY <4>1, <1>0, CfgFields DEF LabelsIn, RangeOf
    <3>2. CASE m = n
      BY <1>2, <1>3, <3>1, <3>2
    <3>3. CASE m \in Done
      <4>1. owner[l] # NoName
        BY <1>0, <3>1, <3>3 DEF Owned
      <4> QED BY <1>3, <3>1, <4>1
    <3> QED BY <1>2, <3>2, <3>3
  <2>3. ASSUME NEW l \in Labels, owner'[l] # NoName
        PROVE  \E m \in Done' : owner'[l] = m /\ l \in LabelsIn(m)'
    <3>1. CASE owner[l] = NoName
      <4>1. owner'[l] = n /\ l \in LabelsIn(n)
        BY <1>3, <2>3, <3>1
      <4>2. n \in Done' /\ owner'[l] = n /\ l \in LabelsIn(n)'
        BY <1>2, <1>4, <4>1
      <4> QED BY <4>2
    <3>2. CASE owner[l] # NoName
      <4>1. PICK m \in Done : owner[l] = m /\ l \in LabelsIn(m)
        BY <1>0, <3>2 DEF Owned
      <4>2. owner'[l] = m
        BY <1>3, <3>2, <4>1
      <4>3. m \in Done' /\ owner'[l] = m /\ l \in LabelsIn(m)'
        BY <1>2, <1>4, <4>1, <4>2
      <4> QED BY <4>3
    <3> QED BY <3>1, <3>2
  <2> QED BY <2>1, <2>2, <2>3 DEF Owned
<1>7. \A m \in Done : \A i \in DOMAIN LabelsAt(m) : Late(m, i)' <=> Late(m, i)
  <2> SUFFICES ASSUME NEW m \in Done, NEW i \in DOMAIN LabelsAt(m)
               PROVE  Late(m, i)' <=> Late(m, i)
    OBVIOUS
  <2>1. m \in DOMAIN cfg.profiles /\ LabelsAt(m)[i] \in Labels /\ LabelsAt(m)[i] \in LabelsIn(m)
    BY <1>0, <1>2, CfgFields DEF LabelsIn, RangeOf
  <2>2. owner[LabelsAt(m)[i]] # NoName
    BY <1>0, <2>1 DEF Owned
  <2>3. owner'[LabelsAt(m)[i]] = owner[LabelsAt(m)[i]]
    BY <1>3, <2>1, <2>2
  <2> QED BY <1>4, <2>1, <2>3 DEF Late
<1>8. \A i \in DOMAIN LabelsAt(n) :
        Late(n, i)' <=> owner[LabelsAt(n)[i]] # NoName
                          \/ \E h \in 1 .. i - 1 : LabelsAt(n)[h] = LabelsAt(n)[i]
  <2> SUFFICES ASSUME NEW i \in DOMAIN LabelsAt(n)
               PROVE  Late(n, i)' <=> owner[LabelsAt(n)[i]] # NoName
                          \/ \E h \in 1 .. i - 1 : LabelsAt(n)[h] = LabelsAt(n)[i]
    OBVIOUS
  <2>1. LabelsAt(n)[i] \in Labels /\ LabelsAt(n)[i] \in LabelsIn(n)
    BY <1>0, <1>2, CfgFields DEF LabelsIn, RangeOf
  <2>2. owner[LabelsAt(n)[i]] # n
    BY <1>0, <1>2, <2>1 DEF Owned
  <2>3. owner'[LabelsAt(n)[i]] # n <=> owner[LabelsAt(n)[i]] # NoName
    BY <1>3, <2>1, <2>2
  <2> QED BY <1>2, <1>4, <2>3 DEF Late
<1>9. Told'
  <2>1. LabelReports(n, cfg.profiles[n]) = LateReports(n)'
    BY <1>2, <1>4, <1>8 DEF LabelReports, LateReports, LateReport, LabelsAt
  <2>2. \A m \in Done : LateReports(m)' = LateReports(m)
    BY <1>2, <1>4, <1>7 DEF LateReports, LateReport
  <2>3. reports = ConfigReports(cfg)
          \cup UNION {ProfileReports(m, cfg.profiles[m]) \cup LateReports(m) : m \in Done}
    BY <1>0, <1>2 DEF Told
  <2> DEFINE said(m) == ProfileReports(m, cfg.profiles[m]) \cup LateReports(m)
             says(m) == ProfileReports(m, cfg'.profiles[m]) \cup LateReports(m)'
  <2>4. \A m \in Done : says(m) = said(m)
    BY <1>1, <2>2
  <2>5. says(n) = ProfileReports(n, cfg.profiles[n]) \cup LateReports(n)'
    BY <1>1
  <2>6. UNION {says(m) : m \in Done'} = (UNION {said(m) : m \in Done}) \cup says(n)
    <3> HIDE DEF said, says
    <3>1. Done' = Done \cup {n}
      BY <1>2
    <3>2. ASSUME NEW r
          PROVE  r \in UNION {says(m) : m \in Done'} <=> r \in (UNION {said(m) : m \in Done}) \cup says(n)
      <4>1. r \in UNION {says(m) : m \in Done'} <=> \E m \in Done' : r \in says(m)
        OBVIOUS
      <4>2. r \in UNION {said(m) : m \in Done} <=> \E m \in Done : r \in said(m)
        OBVIOUS
      <4>3. (\E m \in Done' : r \in says(m)) <=> (\E m \in Done : r \in says(m)) \/ r \in says(n)
        BY <3>1
      <4>4. (\E m \in Done : r \in says(m)) <=> (\E m \in Done : r \in said(m))
        BY <2>4
      <4> QED BY <4>1, <4>2, <4>3, <4>4
    <3> QED BY <3>2
  <2>7. reports' = ConfigReports(cfg') \cup UNION {says(m) : m \in Done'}
    <3>1. reports' = reports \cup says(n)
      BY <1>1, <2>1, <2>5
    <3>2. reports = ConfigReports(cfg) \cup UNION {said(m) : m \in Done}
      BY <2>3
    <3>3. cfg' = cfg
      BY <1>1
    <3>4. reports' = ConfigReports(cfg)
                      \cup ((UNION {said(m) : m \in Done}) \cup says(n))
      <4> HIDE DEF said, says
      <4> QED BY <3>1, <3>2
    <3> HIDE DEF said, says
    <3> QED BY ONLY <2>6, <3>3, <3>4
  <2> QED BY <1>2, <2>7 DEF Told
<1>10. Resolved'
  BY <1>0, <1>1 DEF Resolved, Matches
<1> QED BY <1>5, <1>6, <1>9, <1>10 DEF ConfigInv

\* What the verdict and the jobs leave alone.
LEMMA DoneKept ==
  ASSUME UNCHANGED <<cfg, todo, owner, reports>>, Started, Started', Owned, Told
  PROVE  Owned' /\ Told'
<1>1. Done' = Done
  BY DEF Done
<1>2. \A n : LabelsAt(n)' = LabelsAt(n) /\ LabelsIn(n)' = LabelsIn(n) /\ LateReports(n)' = LateReports(n)
  BY DEF LabelsAt, LabelsIn, LateReports, Late
<1>3. Owned'
  BY <1>1, <1>2 DEF Owned
<1> QED BY <1>1, <1>2, <1>3 DEF Told

LEMMA AnswersKeep ==
  ASSUME ConfigInv, Verdict \/ NewJob \/ ResolveProfile
  PROVE  ConfigInv'
<1>0. Stages /\ Owned /\ Told /\ Resolved
  BY DEF ConfigInv
<1>1. CASE Verdict
  <2>1. Stages'
    BY <1>0, <1>1 DEF Verdict, Stages
  <2>2. Owned' /\ Told'
    BY <1>0, <1>1, DoneKept DEF Verdict, Started
  <2>3. Resolved'
    BY <1>0, <1>1 DEF Verdict, Resolved, Matches
  <2> QED BY <2>1, <2>2, <2>3 DEF ConfigInv
<1>2. CASE NewJob
  <2>1. Stages'
    BY <1>0, <1>2 DEF NewJob, Stages
  <2>2. Owned' /\ Told'
    BY <1>0, <1>2, DoneKept DEF NewJob, Started
  <2>3. Resolved'
    BY <1>0, <1>2 DEF NewJob, Resolved, Matches
  <2> QED BY <2>1, <2>2, <2>3 DEF ConfigInv
<1>3. CASE ResolveProfile
  <2>1. Stages'
    BY <1>0, <1>3 DEF ResolveProfile, Stages
  <2>2. Owned' /\ Told'
    BY <1>0, <1>3, DoneKept DEF ResolveProfile, Started, Resolved
  <2>3. Resolved'
    BY <1>0, <1>3 DEF ResolveProfile, Resolved, Matches
  <2> QED BY <2>1, <2>2, <2>3 DEF ConfigInv
<1> QED BY <1>1, <1>2, <1>3

LEMMA ConfigStep == ConfigInv /\ [ConfigNext]_configVars => ConfigInv'
<1> SUFFICES ASSUME ConfigInv, [ConfigNext]_configVars PROVE ConfigInv'
  OBVIOUS
<1>1. CASE UNCHANGED configVars
  <2>1. Stages'
    BY <1>1 DEF configVars, ConfigInv, Stages
  <2>2. Owned' /\ Told'
    BY <1>1 DEF configVars, ConfigInv, Owned, Told, Done, Started, LabelsIn, LabelsAt,
       LateReports, Late
  <2>3. Resolved'
    BY <1>1 DEF configVars, ConfigInv, Resolved, Matches
  <2> QED BY <2>1, <2>2, <2>3 DEF ConfigInv
<1> QED BY <1>1, LoadKeeps, ProfileKeeps, AnswersKeep DEF ConfigNext

LEMMA ConfigInductive == ConfigSpec => []ConfigInv
  BY ConfigInitial, ConfigStep, PTL DEF ConfigSpec

\* What the defaults make of the profiles as they were written.
LEMMA WrittenProfiles ==
  ASSUME Stages, stage # "loaded"
  PROVE  /\ cfg = Defaulted(raw) /\ IsConfig(raw) /\ DOMAIN cfg.profiles = DOMAIN raw.profiles
         /\ \A n \in DOMAIN raw.profiles :
              /\ n \in Names /\ raw.profiles[n] \in Profile
              /\ cfg.profiles[n] = DefaultedProfile(raw.profiles[n], n)
              /\ LabelsAt(n) = IF raw.profiles[n].labels = <<>> THEN <<n>> ELSE raw.profiles[n].labels
              /\ LabelsIn(n) = LabelsOf(n)
<1>1. /\ cfg = Defaulted(raw) /\ IsConfig(raw)
      /\ cfg.profiles = [n \in DOMAIN raw.profiles |-> DefaultedProfile(raw.profiles[n], n)]
  BY ConfigDefaults DEF Stages
<1>2. DOMAIN cfg.profiles = DOMAIN raw.profiles
  BY <1>1
<1>3. ASSUME NEW n \in DOMAIN raw.profiles
      PROVE  /\ n \in Names /\ raw.profiles[n] \in Profile
             /\ cfg.profiles[n] = DefaultedProfile(raw.profiles[n], n)
             /\ LabelsAt(n) = IF raw.profiles[n].labels = <<>> THEN <<n>> ELSE raw.profiles[n].labels
             /\ LabelsIn(n) = LabelsOf(n)
  <2>1. n \in Names /\ raw.profiles[n] \in Profile
    BY <1>1, ConfigFields
  <2>2. cfg.profiles[n] = DefaultedProfile(raw.profiles[n], n)
    BY <1>1
  <2>3. LabelsAt(n) = IF raw.profiles[n].labels = <<>> THEN <<n>> ELSE raw.profiles[n].labels
    BY <2>1, <2>2, ProfileDefaults DEF LabelsAt
  <2>4. RangeOf(<<n>>) = {n}
    BY DEF RangeOf
  <2>5. LabelsIn(n) = LabelsOf(n)
    BY <2>3, <2>4 DEF LabelsIn, LabelsOf
  <2> QED BY <2>1, <2>2, <2>3, <2>5
<1> QED BY <1>1, <1>2, <1>3

Judged == stage \in {"accepted", "rejected"}

LEMMA JudgedAll ==
  ASSUME ConfigInv, Judged
  PROVE  /\ Stages /\ Owned /\ Told /\ Started /\ stage # "loaded"
         /\ Done = DOMAIN raw.profiles /\ Done = DOMAIN cfg.profiles
<1>1. Stages /\ Owned /\ Told /\ Started /\ stage # "loaded" /\ todo = {}
  BY DEF ConfigInv, Judged, Started, Stages
<1> QED BY <1>1, WrittenProfiles DEF Done

\* At the verdict nothing is late exactly when the labels, as they were written, are distinct.
LEMMA NothingLate ==
  ASSUME ConfigInv, Judged
  PROVE  (\A n \in Done : \A i \in DOMAIN LabelsAt(n) : ~Late(n, i)) <=> DistinctLabels
<1>0. /\ Stages /\ Owned /\ stage # "loaded" /\ Done = DOMAIN raw.profiles
      /\ Done = DOMAIN cfg.profiles
  BY JudgedAll
<1>1. \A n \in Done :
        /\ LabelsAt(n) = IF raw.profiles[n].labels = <<>> THEN <<n>> ELSE raw.profiles[n].labels
        /\ LabelsIn(n) = LabelsOf(n)
        /\ raw.profiles[n].labels \in Seq(Labels)
  BY <1>0, WrittenProfiles, ProfileFields
<1>2. \A n \in Done : LabelsIn(n) = {LabelsAt(n)[i] : i \in DOMAIN LabelsAt(n)}
  BY DEF LabelsIn, RangeOf
<1>3. \A n \in Done : LabelsIn(n) \subseteq Labels
  BY <1>0, <1>2, CfgFields
<1>4. ASSUME \A n \in Done : \A i \in DOMAIN LabelsAt(n) : ~Late(n, i)
      PROVE  DistinctLabels
  <2>1. ASSUME NEW n \in Done, NEW i \in DOMAIN raw.profiles[n].labels,
               NEW k \in DOMAIN raw.profiles[n].labels,
               raw.profiles[n].labels[i] = raw.profiles[n].labels[k]
        PROVE  i = k
    <3>1. raw.profiles[n].labels # <<>>
      BY <2>1, <1>1
    <3>2. LabelsAt(n) = raw.profiles[n].labels
      BY <1>1, <3>1
    <3>3. i \in Nat \ {0} /\ k \in Nat \ {0} /\ LabelsAt(n)[i] = LabelsAt(n)[k]
      BY <1>1, <2>1, <3>2
    <3>4. ~Late(n, i) /\ ~Late(n, k)
      BY <1>4, <3>2
    <3>5. ~(i < k) /\ ~(k < i)
      <4>1. i < k => i \in 1 .. k - 1
        BY <3>3
      <4>2. k < i => k \in 1 .. i - 1
        BY <3>3
      <4> QED BY <3>3, <3>4, <4>1, <4>2 DEF Late
    <3> QED BY <3>3, <3>5
  <2>2. ASSUME NEW n \in Done, NEW l \in LabelsIn(n)
        PROVE  owner[l] = n
    <3>1. PICK i \in DOMAIN LabelsAt(n) : l = LabelsAt(n)[i]
      BY <1>2
    <3> QED BY <1>4, <3>1 DEF Late
  <2>3. ASSUME NEW m \in Done, NEW n \in Done, m # n
        PROVE  LabelsOf(m) \cap LabelsOf(n) = {}
    BY <1>1, <2>2, <2>3
  <2> QED BY <1>0, <2>1, <2>3 DEF DistinctLabels
<1>5. ASSUME DistinctLabels, NEW n \in Done, NEW i \in DOMAIN LabelsAt(n)
      PROVE  ~Late(n, i)
  <2> DEFINE l == LabelsAt(n)[i]
  <2>1. l \in LabelsIn(n) /\ l \in Labels
    BY <1>2, <1>3
  <2>2. owner[l] = n
    <3>1. owner[l] # NoName
      BY <1>0, <2>1 DEF Owned
    <3>2. PICK m \in Done : owner[l] = m /\ l \in LabelsIn(m)
      BY <1>0, <2>1, <3>1 DEF Owned
    <3>3. l \in LabelsOf(m) \cap LabelsOf(n)
      BY <1>1, <2>1, <3>2
    <3> QED BY <1>0, <1>5, <3>2, <3>3 DEF DistinctLabels
  <2>3. ASSUME NEW h \in 1 .. i - 1, LabelsAt(n)[h] = LabelsAt(n)[i]
        PROVE  FALSE
    <3>1. CASE raw.profiles[n].labels = <<>>
      <4>1. LabelsAt(n) = <<n>>
        BY <1>1, <3>1
      <4>2. i = 1
        BY <1>5, <4>1
      <4> QED BY <2>3, <4>2
    <3>2. CASE raw.profiles[n].labels # <<>>
      <4>1. LabelsAt(n) = raw.profiles[n].labels
        BY <1>1, <3>2
      <4>2. i \in DOMAIN raw.profiles[n].labels /\ h \in DOMAIN raw.profiles[n].labels /\ h # i
        BY <1>1, <1>5, <2>3, <4>1
      <4> QED BY <1>0, <1>5, <2>3, <4>1, <4>2 DEF DistinctLabels
    <3> QED BY <3>1, <3>2
  <2> QED BY <2>2, <2>3 DEF Late
<1> QED BY <1>4, <1>5

\* The rule of a profile, before its defaults and after.
LEMMA ProfileRule ==
  ASSUME NEW p \in Profile, NEW n \in Names
  PROVE  CleanProfile(DefaultedProfile(p, n)) <=> WellFormedProfile(p)
<1> DEFINE d == DefaultedProfile(p, n)
<1>1. /\ d.disk = OrDefault(p.disk, defaultDiskSizeGB)
      /\ d.count = OrDefault(p.count, defaultRunnerCount)
      /\ d.architecture = p.architecture /\ d.ami = p.ami /\ d.lookup = p.lookup
      /\ d.os = p.os /\ d.version = p.version /\ d.instanceType = p.instanceType /\ d.ram = p.ram
  BY ProfileDefaults
<1>2. d.disk >= minDiskSizeGB <=> p.disk <= 0 \/ p.disk >= minDiskSizeGB
  BY <1>1, ProfileFields DEF OrDefault, minDiskSizeGB, defaultDiskSizeGB
<1>3. d.count \in 1 .. maxRunnerCount <=> p.count <= maxRunnerCount
  BY <1>1, ProfileFields DEF OrDefault, maxRunnerCount, defaultRunnerCount
<1>4. (p.ami # p.lookup /\ (p.lookup /\ ~p.ami => p.os /\ p.version)) <=>
        \/ p.ami /\ ~p.lookup
        \/ ~p.ami /\ p.lookup /\ p.os /\ p.version
  BY ProfileFields
<1> HIDE DEF d
<1>5. CleanProfile(d) <=> WellFormedProfile(p)
  BY <1>1, <1>2, <1>3, <1>4 DEF CleanProfile, WellFormedProfile
<1> QED BY <1>5 DEF d

\* The configurations that are accepted are those that follow the rule, whatever was written
\* and in whatever order the two loops range over the profiles and their labels
\* (config.go:291-293, 321-326).
THEOREM VerdictIsTheRule == ConfigSpec => []VerdictIsRule
<1>1. ASSUME ConfigInv, Judged
      PROVE  stage = "accepted" <=> WellFormed
  <2>0. /\ Stages /\ Told /\ Started /\ stage # "loaded" /\ Done = DOMAIN raw.profiles
        /\ Done = DOMAIN cfg.profiles
    BY <1>1, JudgedAll
  <2>1. /\ cfg = Defaulted(raw) /\ IsConfig(raw) /\ IsConfig(cfg)
        /\ \A n \in Done : /\ n \in Names /\ raw.profiles[n] \in Profile
                           /\ cfg.profiles[n] = DefaultedProfile(raw.profiles[n], n)
                           /\ cfg.profiles[n] \in Profile
    BY <2>0, WrittenProfiles, CfgFields
  <2>2. stage = "accepted" <=> reports = {}
    BY <1>1, <2>0 DEF Stages, Judged
  <2>3. reports = {} <=>
          /\ ConfigReports(cfg) = {}
          /\ \A n \in Done : ProfileReports(n, cfg.profiles[n]) = {}
          /\ \A n \in Done : LateReports(n) = {}
    <3>1. reports = ConfigReports(cfg)
            \cup UNION {ProfileReports(n, cfg.profiles[n]) \cup LateReports(n) : n \in Done}
      BY <2>0 DEF Told
    <3> QED BY <3>1
  <2>4. ConfigReports(cfg) = {} <=>
          /\ raw.given = Needed
          /\ raw.scope = "organization" \/ (raw.scope = "repository" /\ raw.repository /\ ~raw.group)
          /\ raw.idle > 0 /\ DOMAIN raw.profiles # {}
    <3>1. ConfigReports(cfg) = {} <=> CleanConfig(cfg)
      BY <2>1, CleanConfigSilent
    <3>2. /\ cfg.given = raw.given /\ cfg.scope = raw.scope /\ cfg.repository = raw.repository
          /\ cfg.group = raw.group /\ cfg.idle = raw.idle /\ cfg.auto > 0 /\ cfg.boot > 0
      <4>1. /\ cfg.auto = OrDefault(raw.auto, defaultAutoTerminatingTime)
            /\ cfg.boot = OrDefault(raw.boot, defaultBootTimeout)
            /\ raw.auto \in Int /\ raw.boot \in Int
        BY <2>1, ConfigDefaults, ConfigFields
      <4>2. cfg.auto > 0 /\ cfg.boot > 0
        BY <4>1 DEF OrDefault, defaultAutoTerminatingTime, defaultBootTimeout
      <4> QED BY <2>1, <4>2, ConfigDefaults
    <3>3. raw.given = Needed <=> Needed \subseteq raw.given
      BY <2>1, ConfigFields
    <3>4. (raw.scope \in Scopes /\ (raw.scope = "repository" => raw.repository /\ ~raw.group)) <=>
            raw.scope = "organization" \/ (raw.scope = "repository" /\ raw.repository /\ ~raw.group)
      BY DEF Scopes
    <3> QED BY <2>0, <3>1, <3>2, <3>3, <3>4 DEF CleanConfig
  <2>5. \A n \in Done : ProfileReports(n, cfg.profiles[n]) = {} <=> WellFormedProfile(raw.profiles[n])
    BY <2>1, CleanProfileSilent, ProfileRule
  <2>6. (\A n \in Done : LateReports(n) = {}) <=> DistinctLabels
    <3>1. \A n \in Done : LateReports(n) = {} <=> \A i \in DOMAIN LabelsAt(n) : ~Late(n, i)
      BY DEF LateReports
    <3> QED BY <1>1, <3>1, NothingLate
  <2> QED BY <2>0, <2>2, <2>3, <2>4, <2>5, <2>6 DEF WellFormed
<1>2. ConfigInv => VerdictIsRule
  BY <1>1 DEF VerdictIsRule, Judged
<1> QED BY <1>2, ConfigInductive, PTL

\* Where no declaration is late, a label is owned by every profile that has it.
LEMMA AcceptedOwners ==
  ASSUME ConfigInv, stage = "accepted"
  PROVE  \A n \in DOMAIN cfg.profiles : \A l \in LabelsIn(n) : owner[l] = n
<1>1. Judged
  BY DEF Judged
<1>2. Stages /\ Told /\ reports = {} /\ Done = DOMAIN cfg.profiles
  BY <1>1, JudgedAll DEF Stages
<1>3. ASSUME NEW n \in Done PROVE LateReports(n) = {}
  BY <1>2 DEF Told
<1>4. ASSUME NEW n \in Done, NEW l \in LabelsIn(n)
      PROVE  owner[l] = n
  <2>1. PICK i \in DOMAIN LabelsAt(n) : l = LabelsAt(n)[i]
    BY DEF LabelsIn, RangeOf
  <2>2. ~Late(n, i)
    BY <1>3 DEF LateReports
  <2> QED BY <2>1, <2>2 DEF Late
<1> QED BY <1>2, <1>4

\* A label alone is resolved to one profile, or to none, however many deliveries ask and in
\* whatever order the map is ranged over: its owner (config.go:321-326).
THEOREM LabelIsUnambiguous == ConfigSpec => []LabelUnambiguous
<1>1. ASSUME ConfigInv, NEW l \in Labels, asked = {l}
      PROVE  Cardinality(answers) <= 1
  <2>0. /\ stage = "accepted"
        /\ answers \subseteq IF Matches(asked) = {} THEN {NoName} ELSE Matches(asked)
    BY <1>1 DEF ConfigInv, Resolved
  <2> DEFINE ownAnswer == IF Matches(asked) = {} THEN NoName ELSE owner[l]
  <2>1. ASSUME NEW n \in Matches(asked) PROVE n = owner[l]
    <3>1. n \in DOMAIN cfg.profiles /\ l \in LabelsIn(n)
      BY <1>1, <2>1 DEF Matches, LabelsIn, LabelsAt
    <3> QED BY <1>1, <2>0, <3>1, AcceptedOwners
  <2>2. answers \in SUBSET {ownAnswer}
    BY <2>0, <2>1
  <2> HIDE DEF ownAnswer
  <2>3. IsFiniteSet({ownAnswer}) /\ Cardinality({ownAnswer}) = 1
    BY FS_Singleton
  <2> QED BY <2>2, <2>3, FS_Subset
<1>2. ConfigInv => LabelUnambiguous
  BY <1>1 DEF LabelUnambiguous
<1> QED BY <1>2, ConfigInductive, PTL

\* All declarations of labels, profile and place; those that took a label, and those that
\* were late.
Declarations == UNION {{n} \X DOMAIN LabelsAt(n) : n \in DOMAIN cfg.profiles}
LateOnes == {d \in Declarations : Late(d[1], d[2])}
DeclaredLabels == {l \in Labels : \E n \in DOMAIN raw.profiles : l \in LabelsOf(n)}
LabelReported == {r \in reports : r.what = "label"}

LEMMA DeclarationIs ==
  ASSUME Stages
  PROVE  \A d : d \in Declarations <=>
           \E n \in DOMAIN cfg.profiles : \E i \in DOMAIN LabelsAt(n) : d = <<n, i>>
  BY DEF Declarations

LEMMA DeclarationsFinite ==
  ASSUME Stages
  PROVE  IsFiniteSet(Declarations)
<1> DEFINE parts == {{n} \X DOMAIN LabelsAt(n) : n \in DOMAIN cfg.profiles}
           f == [n \in DOMAIN cfg.profiles |-> {n} \X DOMAIN LabelsAt(n)]
<1>1. IsFiniteSet(DOMAIN cfg.profiles)
  <2>1. DOMAIN cfg.profiles \in SUBSET Labels
    BY CfgFields, NamesAssumption
  <2> QED BY <2>1, LabelsAssumption, FS_Subset
<1>2. IsFiniteSet(parts)
  <2>1. f \in Surjection(DOMAIN cfg.profiles, parts)
    BY DEF Surjection
  <2> HIDE DEF f, parts
  <2> QED BY <1>1, <2>1, FS_Surjection
<1>3. ASSUME NEW piece \in parts PROVE IsFiniteSet(piece)
  <2>1. PICK n \in DOMAIN cfg.profiles : piece = {n} \X DOMAIN LabelsAt(n)
    OBVIOUS
  <2>2. LabelsAt(n) \in Seq(Labels)
    BY CfgFields
  <2>3. DOMAIN LabelsAt(n) = 1 .. Len(LabelsAt(n)) /\ Len(LabelsAt(n)) \in Nat
    BY <2>2
  <2>4. IsFiniteSet(DOMAIN LabelsAt(n))
    BY <2>3, FS_Interval
  <2>5. IsFiniteSet({n})
    BY FS_Singleton
  <2> QED BY <2>1, <2>4, <2>5, FS_Product
<1> HIDE DEF parts
<1>4. IsFiniteSet(UNION parts)
  BY <1>2, <1>3, FS_UNION
<1> QED BY <1>4 DEF Declarations, parts

\* The label reports are those of the late declarations, one for each.
LEMMA LateCounted ==
  ASSUME ConfigInv, Judged
  PROVE  Cardinality(LabelReported) = Cardinality(LateOnes)
<1>0. Stages /\ Told /\ Started /\ Done = DOMAIN cfg.profiles
  BY JudgedAll
<1>1. ASSUME NEW n, NEW p, NEW r \in ProfileReports(n, p) PROVE r.what # "label"
  <2>1. PICK what \in ProfileField : r = Wrong(n, what)
    BY <1>1 DEF ProfileReports
  <2> QED BY <2>1 DEF Wrong, ProfileField
<1>2. ASSUME NEW r \in ConfigReports(cfg) PROVE r.what # "label"
  <2>1. \/ \E what \in Needed : r = Wrong("config", what)
        \/ \E what \in ConfigField : r = Wrong("config", what)
    BY <1>2 DEF ConfigReports
  <2> QED BY <2>1 DEF Wrong, Needed, ConfigField
<1>3. ASSUME NEW r
      PROVE  r \in LabelReported <=> \E n \in Done : r \in LateReports(n)
  <2>1. r \in reports <=> \/ r \in ConfigReports(cfg)
                          \/ \E n \in Done : r \in ProfileReports(n, cfg.profiles[n])
                          \/ \E n \in Done : r \in LateReports(n)
    BY <1>0 DEF Told
  <2>2. (\E n \in Done : r \in LateReports(n)) => r.what = "label"
    BY DEF LateReports, LateReport
  <2> QED BY <1>1, <1>2, <2>1, <2>2 DEF LabelReported
<1> DEFINE f == [d \in LateOnes |-> LateReport(d[1], d[2])]
<1>4. f \in [LateOnes -> LabelReported]
  <2>1. ASSUME NEW d \in LateOnes PROVE LateReport(d[1], d[2]) \in LabelReported
    <3>0. PICK n \in DOMAIN cfg.profiles : \E i \in DOMAIN LabelsAt(n) : d = <<n, i>>
      BY <1>0, DeclarationIs DEF LateOnes
    <3>1. PICK i \in DOMAIN LabelsAt(n) : d = <<n, i>>
      BY <3>0
    <3>2. LateReport(n, i) \in LateReports(n)
      BY <3>1 DEF LateOnes, LateReports
    <3> QED BY <1>0, <1>3, <3>1, <3>2
  <2> QED BY <2>1
<1>5. IsInjective(f)
  <2>1. ASSUME NEW d \in LateOnes, NEW e \in LateOnes, LateReport(d[1], d[2]) = LateReport(e[1], e[2])
        PROVE  d = e
    <3>1. d[1] = e[1] /\ d[2] = e[2]
      BY <2>1 DEF LateReport
    <3>2. d = <<d[1], d[2]>> /\ e = <<e[1], e[2]>>
      BY <1>0, DeclarationIs DEF LateOnes
    <3> QED BY <3>1, <3>2
  <2> QED BY <2>1 DEF IsInjective
<1>6. ASSUME NEW r \in LabelReported PROVE \E d \in LateOnes : f[d] = r
  <2>1. PICK n \in Done : r \in LateReports(n)
    BY <1>3
  <2>2. PICK i \in DOMAIN LabelsAt(n) : Late(n, i) /\ r = LateReport(n, i)
    BY <2>1 DEF LateReports
  <2>3. <<n, i>> \in LateOnes
    BY <1>0, <2>2, DeclarationIs DEF LateOnes
  <2> QED BY <2>2, <2>3
<1>7. f \in Bijection(LateOnes, LabelReported)
  BY <1>4, <1>5, <1>6 DEF Bijection, Injection, Surjection
<1>8. IsFiniteSet(LateOnes)
  BY <1>0, DeclarationsFinite, FS_Subset DEF LateOnes
<1> HIDE DEF f
<1> QED BY <1>7, <1>8, FS_Bijection DEF ExistsBijection

\* The declarations that are not late: the first of each label that its owner has.
LEMMA OwnersCounted ==
  ASSUME ConfigInv, Judged
  PROVE  Cardinality(Declarations \ LateOnes) = Cardinality(DeclaredLabels)
<1>0. /\ Stages /\ Owned /\ stage # "loaded" /\ Done = DOMAIN cfg.profiles
      /\ Done = DOMAIN raw.profiles /\ \A n \in Done : LabelsIn(n) = LabelsOf(n)
  BY JudgedAll, WrittenProfiles
<1> DEFINE first == Declarations \ LateOnes
           g == [d \in first |-> LabelsAt(d[1])[d[2]]]
<1>1. ASSUME NEW d \in first
      PROVE  \E n \in Done : \E i \in DOMAIN LabelsAt(n) : d = <<n, i>> /\ ~Late(n, i)
  BY <1>0, DeclarationIs DEF LateOnes
<1>2. \A n \in Done : \A i \in DOMAIN LabelsAt(n) :
        LabelsAt(n)[i] \in LabelsIn(n) /\ LabelsAt(n)[i] \in Labels /\ i \in Nat \ {0}
  <2> SUFFICES ASSUME NEW n \in Done, NEW i \in DOMAIN LabelsAt(n)
               PROVE  LabelsAt(n)[i] \in LabelsIn(n) /\ LabelsAt(n)[i] \in Labels /\ i \in Nat \ {0}
    OBVIOUS
  <2>1. LabelsAt(n) \in Seq(Labels)
    BY <1>0, CfgFields
  <2> QED BY <2>1 DEF LabelsIn, RangeOf
<1>3. g \in [first -> DeclaredLabels]
  <2>1. ASSUME NEW d \in first PROVE LabelsAt(d[1])[d[2]] \in DeclaredLabels
    <3>0. PICK n \in Done : \E i \in DOMAIN LabelsAt(n) : d = <<n, i>>
      BY <1>1
    <3>1. PICK i \in DOMAIN LabelsAt(n) : d = <<n, i>>
      BY <3>0
    <3> QED BY <1>0, <1>2, <3>1 DEF DeclaredLabels
  <2> HIDE DEF first
  <2> QED BY <2>1
<1>4. IsInjective(g)
  <2>1. ASSUME NEW d \in first, NEW e \in first, LabelsAt(d[1])[d[2]] = LabelsAt(e[1])[e[2]]
        PROVE  d = e
    <3>1. PICK n \in Done : \E i \in DOMAIN LabelsAt(n) : d = <<n, i>> /\ ~Late(n, i)
      BY <1>1
    <3>2. PICK m \in Done : \E k \in DOMAIN LabelsAt(m) : e = <<m, k>> /\ ~Late(m, k)
      BY <1>1
    <3>i. PICK i \in DOMAIN LabelsAt(n) : d = <<n, i>> /\ ~Late(n, i)
      BY <3>1
    <3>k. PICK k \in DOMAIN LabelsAt(m) : e = <<m, k>> /\ ~Late(m, k)
      BY <3>2
    <3>3. m = n /\ LabelsAt(n)[i] = LabelsAt(n)[k]
      BY <2>1, <3>i, <3>k DEF Late
    <3>4. i \in Nat \ {0} /\ k \in Nat \ {0}
      BY <1>2, <3>i, <3>k
    <3>5. ~(i < k) /\ ~(k < i)
      <4>1. i < k => i \in 1 .. k - 1
        BY <3>4
      <4>2. k < i => k \in 1 .. i - 1
        BY <3>4
      <4> QED BY <3>i, <3>k, <3>3, <4>1, <4>2 DEF Late
    <3>6. i = k
      BY <3>4, <3>5
    <3> QED BY <3>i, <3>k, <3>3, <3>6
  <2> HIDE DEF first
  <2> QED BY <2>1 DEF IsInjective
<1>5. ASSUME NEW l \in DeclaredLabels PROVE \E d \in first : g[d] = l
  <2>1. PICK n \in Done : owner[l] = n /\ l \in LabelsIn(n)
    BY <1>0 DEF DeclaredLabels, Owned
  <2> DEFINE places == {i \in DOMAIN LabelsAt(n) : LabelsAt(n)[i] = l}
  <2>2. places \subseteq Nat /\ places # {}
    BY <1>2, <2>1 DEF LabelsIn, RangeOf
  <2>3. PICK i \in places : \A k \in places : i <= k
    <3> HIDE DEF places
    <3> QED BY <2>2, LeastOf
  <2>4. i \in Nat \ {0} /\ LabelsAt(n) \in Seq(Labels)
    BY <1>0, <1>2, CfgFields
  <2>5. ASSUME NEW h \in 1 .. i - 1, LabelsAt(n)[h] = LabelsAt(n)[i] PROVE FALSE
    <3>1. h \in DOMAIN LabelsAt(n)
      BY <2>4
    <3>2. h \in places
      BY <2>5, <3>1
    <3> QED BY <2>3, <2>4, <3>2
  <2>6. ~Late(n, i)
    BY <2>1, <2>5 DEF Late
  <2>7. <<n, i>> \in first
    BY <1>0, <2>6, DeclarationIs DEF LateOnes
  <2>8. g[<<n, i>>] = l
    BY <2>7
  <2> QED BY <2>7, <2>8
<1>6. IsFiniteSet(first)
  BY <1>0, DeclarationsFinite, FS_Difference
<1> HIDE DEF first, g
<1>7. g \in Bijection(first, DeclaredLabels)
  BY <1>3, <1>4, <1>5 DEF Bijection, Injection, Surjection
<1>8. Cardinality(first) = Cardinality(DeclaredLabels)
  BY <1>6, <1>7, FS_Bijection DEF ExistsBijection
<1> QED BY <1>8 DEF first

\* All labels declared too often are reported, as many as there are declarations beyond the
\* first of each label, in whatever order the profiles come (config.go:229-233).
THEOREM AllDiagnosed == ConfigSpec => []LabelsDiagnosed
<1>1. ASSUME ConfigInv, Judged
      PROVE  Cardinality(LabelReported)
               = Cardinality(Declarations) - Cardinality(DeclaredLabels)
  <2>1. IsFiniteSet(Declarations)
    BY <1>1, JudgedAll, DeclarationsFinite
  <2>2. Declarations \cap LateOnes = LateOnes /\ LateOnes \in SUBSET Declarations
    BY DEF LateOnes
  <2>3. Cardinality(Declarations \ LateOnes) = Cardinality(Declarations) - Cardinality(LateOnes)
    BY <2>1, <2>2, FS_Difference
  <2>4. Cardinality(Declarations) \in Nat /\ Cardinality(LateOnes) \in Nat
    BY <2>1, <2>2, FS_Subset, FS_CardinalityType
  <2> QED BY <1>1, <2>3, <2>4, LateCounted, OwnersCounted
<1>2. ConfigInv => LabelsDiagnosed
  BY <1>1 DEF LabelsDiagnosed, Judged, LabelReported, Declarations, DeclaredLabels, LabelsAt
<1> QED BY <1>2, ConfigInductive, PTL

-----------------------------------------------------------------------------
(***************************************************************************)
(* Installation, and the parts side by side.                               *)
(***************************************************************************)

\* Every call of the client keeps the ID it works with exactly until it has memoized it:
\* an environment with a client has no call under way, so a stale ID that a call carries
\* never replaces the one in use.
LEMMA InstallationStep ==
  InstallationTypeOK /\ [InstallationNext]_installationVars => InstallationTypeOK'
<1> SUFFICES ASSUME InstallationTypeOK, [InstallationNext]_installationVars
             PROVE  InstallationTypeOK'
  OBVIOUS
<1> USE DEF InstallationTypeOK
<1>0. /\ NoID \in IDs /\ InstallationID \in IDs /\ issued \in Nat
      /\ issued < MaxInstallations => issued + 1 \in IDs
      /\ MaxInstallations \in Nat /\ installed \in IDs
  BY InstallationIDAssumption, MaxInstallationsAssumption DEF IDs, NoID
<1>1. ASSUME NEW e \in Environments, NEW i \in IDs, Memoize(e, i), step[e] # "idle" \/ id[e] = NoID,
             UNCHANGED <<installed, issued>>, row' \in IDs
      PROVE  InstallationTypeOK'
  BY <1>0, <1>1 DEF Memoize, Goto
<1>2. ASSUME NEW e \in Environments, NEW s \in {"idle", "get", "resolve"}, Goto(e, s),
             id[e] = NoID, client[e] = NoID, UNCHANGED <<installed, issued, row, client, id>>
      PROVE  InstallationTypeOK'
  BY <1>2 DEF Goto
<1>3. CASE UNCHANGED installationVars
  BY <1>3 DEF installationVars
<1>4. CASE Uninstall \/ Install \/ RowExpires
  BY <1>0, <1>4 DEF Uninstall, Install, RowExpires
<1>5. ASSUME NEW e \in Environments, Recycle(e) PROVE InstallationTypeOK'
  BY <1>0, <1>5 DEF Recycle
<1>6. ASSUME NEW e \in Environments, CallClient(e) PROVE InstallationTypeOK'
  BY <1>0, <1>1, <1>2, <1>6 DEF CallClient
<1>7. ASSUME NEW e \in Environments, GetInstallationID(e) PROVE InstallationTypeOK'
  BY <1>0, <1>1, <1>2, <1>7 DEF GetInstallationID
<1>8. ASSUME NEW e \in Environments, ResolveInstallationID(e) PROVE InstallationTypeOK'
  <2>1. CASE Goto(e, "idle") /\ UNCHANGED id
    BY <1>2, <1>8, <2>1 DEF ResolveInstallationID
  <2>2. CASE installed # NoID /\ id' = [id EXCEPT ![e] = installed] /\ Goto(e, "put")
    BY <1>0, <1>8, <2>2 DEF ResolveInstallationID, Goto
  <2>3. QED
    BY <1>8, <2>1, <2>2 DEF ResolveInstallationID
<1>9. ASSUME NEW e \in Environments, PutInstallationID(e) PROVE InstallationTypeOK'
  BY <1>0, <1>1, <1>9 DEF PutInstallationID
<1>10. QED
  BY <1>3, <1>4, <1>5, <1>6, <1>7, <1>8, <1>9 DEF InstallationNext, Resolving

LEMMA InstallationInitial == InstallationInit => InstallationTypeOK
BY InstallationIDAssumption, MaxInstallationsAssumption
DEF InstallationInit, InstallationTypeOK, IDs, NoID

LEMMA ConfigTyped == ConfigInv => ConfigTypeOK
<1> SUFFICES ASSUME ConfigInv PROVE ConfigTypeOK
  OBVIOUS
<1>1. IsConfig(raw) /\ IsConfig(cfg)
  BY CfgFields DEF ConfigInv, Stages
<1>2. DOMAIN cfg.profiles \subseteq Names /\ Done \subseteq Names
  BY CfgFields DEF ConfigInv, Stages, Done
<1>3. \A at \in Names \cup {"config"}, what \in Needed \cup ConfigField \cup ProfileField :
        Wrong(at, what) \in Report
  BY DEF Wrong, Report
<1>4. ConfigReports(cfg) \subseteq Report
  BY <1>3 DEF ConfigReports
<1>5. ASSUME NEW n \in Done
      PROVE  ProfileReports(n, cfg.profiles[n]) \subseteq Report /\ LateReports(n) \subseteq Report
  <2>1. ProfileReports(n, cfg.profiles[n]) \subseteq Report
    BY <1>2, <1>3 DEF ProfileReports
  <2>2. n \in DOMAIN cfg.profiles
    BY DEF Done
  <2>3. DOMAIN LabelsAt(n) \subseteq Nat
    <3>1. LabelsAt(n) \in Seq(Labels)
      BY <2>2, CfgFields DEF ConfigInv
    <3> HIDE DEF LabelsAt
    <3>2. QED
      BY <3>1
  <2>4. \A i \in Nat : LateReport(n, i) \in Report
    BY <1>2 DEF LateReport, Report
  <2>5. LateReports(n) \subseteq Report
    BY <2>3, <2>4 DEF LateReports
  <2>6. QED
    BY <2>1, <2>5
<1>6. reports \subseteq Report
  BY <1>4, <1>5 DEF ConfigInv, Told
<1>7. asked \subseteq Labels /\ answers \subseteq Names \cup {NoName}
  BY <1>2 DEF ConfigInv, Resolved, Matches
<1>8. QED
  BY <1>1, <1>6, <1>7 DEF ConfigInv, Stages, Owned, ConfigTypeOK

PartsInv == ConfigInv /\ InstallationTypeOK /\ ImageInv /\ CheckInv /\ LifetimeInv

\* The types of the parts side by side, as the run has them: what a call of the GitHub
\* client in progress remembers, and what each of the other parts does, holds whatever
\* part moves.
THEOREM PartsTyped == PartsSpec => []PartsTypeOK
<1>1. PartsInit => PartsInv
  BY ConfigInitial, InstallationInitial, ImageInitial, CheckInitial, LifetimeInitial
  DEF PartsInit, PartsInv
<1>2. PartsInv /\ [PartsNext]_partsVars => PartsInv'
  <2>1. [PartsNext]_partsVars =>
          /\ [ConfigNext]_configVars /\ [InstallationNext]_installationVars
          /\ [ImageNext]_imageVars /\ [CheckNext]_checkVars /\ [LifetimeNext]_lifetimeVars
    BY DEF PartsNext, partsVars
  <2>2. QED
    BY <2>1, ConfigStep, InstallationStep, ImageStep, CheckStep, LifetimeStep DEF PartsInv
<1>3. PartsInv => PartsTypeOK
  BY ConfigTyped DEF PartsInv, PartsTypeOK, ImageInv, ImageShape, CheckInv, LifetimeInv
<1>4. QED
  BY <1>1, <1>2, <1>3, PTL DEF PartsSpec
=============================================================================
