--------------------------- MODULE DispatchProofs ---------------------------
(***************************************************************************)
(* What the abstract specification promises: the proofs for every number   *)
(* of jobs, instances and slots.                                           *)
(***************************************************************************)
EXTENDS Dispatch, TLAPS

IInv == TypeOK /\ OneSlotEach

LEMMA InitIInv == HoldersDistinct /\ Init => IInv
  BY DEF HoldersDistinct, Init, IInv, TypeOK, OneSlotEach, Phases, Slots

\* A job that moves on and keeps its slots: from "running" it only goes to "over".
LEMMA MoveIInv ==
  ASSUME IInv, NEW j \in Jobs, NEW from, NEW to \in Phases \ {"running"},
         Move(j, from, to), UNCHANGED holder,
         phase[j] \in {"running", "over"} => to = "over"
  PROVE  IInv'
<1>1. TypeOK'
  BY DEF IInv, TypeOK, Move
<1>2. \A k \in Jobs : k # j => phase'[k] = phase[k]
  BY DEF IInv, TypeOK, Move
<1>3. phase'[j] = to
  BY DEF IInv, TypeOK, Move
<1>4. \A k \in Jobs : phase'[k] = "running" => \E s \in Slots : holder'[s] = k
  BY <1>2, <1>3 DEF IInv, OneSlotEach
<1>5. \A s \in Slots : \A k \in Jobs :
        holder'[s] = k => /\ phase'[k] \in {"running", "over"}
                          /\ \A t \in Slots : holder'[t] = k => t = s
  BY <1>2, <1>3 DEF IInv, OneSlotEach
<1>6. QED
  BY <1>1, <1>4, <1>5 DEF IInv, OneSlotEach

\* A job that starts to run takes slot s, which nobody held; other slots change
\* from Closed to Vacant at most.
LEMMA TakeIInv ==
  ASSUME HoldersDistinct, IInv, NEW j \in Jobs, NEW s \in Slots,
         Move(j, {"waiting", "starting"}, "running"),
         holder[s] \notin Jobs,
         holder' \in [Slots -> Jobs \cup {Vacant, Closed}],
         holder'[s] = j,
         \A t \in Slots \ {s} :
           holder'[t] = holder[t] \/ (holder[t] \notin Jobs /\ holder'[t] \notin Jobs)
  PROVE  IInv'
<1>1. TypeOK'
  BY DEF IInv, TypeOK, Move, Phases
<1>2. phase'[j] = "running" /\ \A k \in Jobs : k # j => phase'[k] = phase[k]
  BY DEF IInv, TypeOK, Move
<1>3. \A t \in Slots : holder[t] # j
  BY DEF IInv, OneSlotEach, Move
<1>4. \A t \in Slots : holder'[t] = j => t = s
  BY <1>3
<1>5. \A k \in Jobs \ {j} : \A t \in Slots : holder'[t] = k => holder[t] = k
  OBVIOUS
<1>6. ASSUME NEW k \in Jobs \ {j}, phase'[k] = "running"
      PROVE  \E t \in Slots : holder'[t] = k
  <2>1. PICK t \in Slots : holder[t] = k
    BY <1>2, <1>6 DEF IInv, OneSlotEach
  <2>2. t # s
    BY <2>1
  <2>3. QED
    BY <2>1, <2>2
<1>7. QED
  BY <1>1, <1>2, <1>4, <1>5, <1>6 DEF IInv, OneSlotEach

LEMMA StepIInv == HoldersDistinct /\ IInv /\ [Next]_vars => IInv'
<1> SUFFICES ASSUME HoldersDistinct, IInv, [Next]_vars
             PROVE  IInv'
  OBVIOUS
<1>1. CASE UNCHANGED vars
  BY <1>1 DEF vars, IInv, TypeOK, OneSlotEach
<1>2. ASSUME NEW j \in Jobs, Submit(j) \/ Start(j) \/ Withdraw(j) \/ Finish(j)
      PROVE  IInv'
  <2>1. CASE Submit(j)
    BY <2>1, MoveIInv DEF Submit, Move, Phases
  <2>2. CASE Start(j)
    BY <2>2, MoveIInv DEF Start, Move, Phases
  <2>3. CASE Withdraw(j)
    BY <2>3, MoveIInv DEF Withdraw, Move, Phases
  <2>4. CASE Finish(j)
    BY <2>4, MoveIInv DEF Finish, Phases
  <2>5. QED
    BY <1>2, <2>1, <2>2, <2>3, <2>4
<1>3. ASSUME NEW j \in Jobs, Assign(j)
      PROVE  IInv'
  <2> PICK s \in Slots : holder[s] = Vacant /\ holder' = [holder EXCEPT ![s] = j]
    BY <1>3 DEF Assign
  <2>1. /\ Move(j, {"waiting", "starting"}, "running")
        /\ holder[s] \notin Jobs
        /\ holder' = [holder EXCEPT ![s] = j]
    BY <1>3 DEF Assign, Move, HoldersDistinct
  <2>2. holder \in [Slots -> Jobs \cup {Vacant, Closed}]
    BY DEF IInv, TypeOK
  <2>3. QED
    BY <2>1, <2>2, TakeIInv
<1>4. ASSUME NEW j \in Jobs, Open(j)
      PROVE  IInv'
  <2> PICK s \in Slots :
        /\ \A t \in Slots : t[1] = s[1] => holder[t] = Closed
        /\ holder' = [t \in Slots |-> IF t = s THEN j
                                      ELSE IF t[1] = s[1] THEN Vacant
                                      ELSE holder[t]]
    BY <1>4 DEF Open
  <2>1. /\ Move(j, {"waiting", "starting"}, "running")
        /\ \A t \in Slots : t[1] = s[1] => holder[t] = Closed
        /\ holder' = [t \in Slots |-> IF t = s THEN j
                                      ELSE IF t[1] = s[1] THEN Vacant
                                      ELSE holder[t]]
    BY <1>4 DEF Open, Move
  <2>2. holder \in [Slots -> Jobs \cup {Vacant, Closed}]
    BY DEF IInv, TypeOK
  <2>3. holder[s] \notin Jobs
    BY <2>1 DEF HoldersDistinct
  <2>4. holder' \in [Slots -> Jobs \cup {Vacant, Closed}] /\ holder'[s] = j
    BY <2>1, <2>2
  <2>5. \A t \in Slots \ {s} :
          holder'[t] = holder[t] \/ (holder[t] \notin Jobs /\ holder'[t] \notin Jobs)
    BY <2>1 DEF HoldersDistinct
  <2>6. QED
    BY <2>1, <2>3, <2>4, <2>5, TakeIInv
<1>5. ASSUME NEW s \in Slots, Release(s)
      PROVE  IInv'
  <2>1. PICK j \in Jobs : holder[s] = j /\ phase[j] = "over"
    BY <1>5 DEF Release
  <2>2. holder' = [holder EXCEPT ![s] = Vacant] /\ phase' = phase
    BY <1>5 DEF Release
  <2>3. TypeOK'
    BY <2>2 DEF IInv, TypeOK
  <2>4. holder'[s] \notin Jobs /\ \A t \in Slots \ {s} : holder'[t] = holder[t]
    BY <2>2 DEF IInv, TypeOK, HoldersDistinct
  <2>5. ASSUME NEW k \in Jobs, phase'[k] = "running"
        PROVE  \E t \in Slots : holder'[t] = k
    <3>1. PICK t \in Slots : holder[t] = k
      BY <2>2, <2>5 DEF IInv, OneSlotEach
    <3>2. t # s
      BY <2>1, <2>2, <2>5, <3>1
    <3>3. QED
      BY <2>4, <3>1, <3>2
  <2>6. QED
    BY <2>2, <2>3, <2>4, <2>5 DEF IInv, OneSlotEach
<1>6. QED
  BY <1>1, <1>2, <1>3, <1>4, <1>5 DEF Next

\* A running job always holds one slot of its own: what an implementation inherits.
THEOREM OneSlot == HoldersDistinct /\ Spec => []OneSlotEach
<1>1. HoldersDistinct /\ Init => IInv
  BY InitIInv
<1>2. HoldersDistinct /\ IInv /\ [Next]_vars => IInv'
  BY StepIInv
<1>3. IInv => OneSlotEach
  BY DEF IInv
<1>4. ASSUME HoldersDistinct
      PROVE  Spec => []OneSlotEach
  BY <1>1, <1>2, <1>3, <1>4, PTL DEF Spec
<1>5. QED
  BY <1>4
=============================================================================
