----------------------------- MODULE LifeProofs -----------------------------
(***************************************************************************)
(* What the life of an instance promises: the proofs for every number of   *)
(* instances and jobs.                                                     *)
(***************************************************************************)
EXTENDS Life, TLAPS

IInv == TypeOK /\ ServingIsUp

LEMMA InitIInv == Init => IInv
  BY DEF Init, IInv, TypeOK, ServingIsUp, Phases

\* A step that moves one instance to another phase, and turns nothing on or off.
LEMMA MoveIInv ==
  ASSUME IInv, NEW r \in Instances, NEW from, NEW to \in Phases,
         Move(r, from, to), UNCHANGED up, tenants' \in [Instances -> SUBSET Jobs],
         to = "serving" => up[r] \/ Reclaimable
  PROVE  IInv'
<1>1. phase' \in [Instances -> Phases] /\ phase'[r] = to
  BY DEF IInv, TypeOK, Move
<1>2. \A s \in Instances \ {r} : phase'[s] = phase[s]
  BY DEF IInv, TypeOK, Move
<1>3. TypeOK'
  BY <1>1 DEF IInv, TypeOK
<1>4. ServingIsUp'
  BY <1>1, <1>2 DEF IInv, ServingIsUp
<1>5. QED
  BY <1>3, <1>4 DEF IInv

\* A step that moves no instance to another phase.
LEMMA StayIInv ==
  ASSUME IInv, UNCHANGED phase, TypeOK',
         \A r \in Instances : phase[r] = "serving" /\ up[r] => up'[r] \/ Reclaimable
  PROVE  IInv'
  BY DEF IInv, ServingIsUp

\* The invariant is inductive.
LEMMA NextIInv == IInv /\ [Next]_vars => IInv'
<1> SUFFICES ASSUME IInv, [Next]_vars
             PROVE  IInv'
  OBVIOUS
<1> USE DEF IInv
<1>1. CASE UNCHANGED vars
  BY <1>1 DEF vars, TypeOK, ServingIsUp
<1>2. ASSUME NEW r \in Instances, Begin(r)
      PROVE  IInv'
  BY <1>2, MoveIInv DEF Begin, TypeOK, Phases
<1>3. ASSUME NEW r \in Instances, TurnOn(r)
      PROVE  IInv'
  <2>1. TypeOK' /\ UNCHANGED phase
    BY <1>3 DEF TurnOn, TypeOK
  <2>2. \A s \in Instances : up[s] => up'[s]
    BY <1>3 DEF TurnOn, TypeOK
  <2>3. QED
    BY <2>1, <2>2, StayIInv
<1>4. ASSUME NEW r \in Instances, TurnOff(r)
      PROVE  IInv'
  <2>1. TypeOK' /\ UNCHANGED phase
    BY <1>4 DEF TurnOff, TypeOK
  <2>2. \A s \in Instances \ {r} : up'[s] = up[s]
    BY <1>4 DEF TurnOff, TypeOK
  <2>3. phase[r] = "serving" => Reclaimable
    BY <1>4 DEF TurnOff
  <2>4. QED
    BY <2>1, <2>2, <2>3, StayIInv
<1>5. ASSUME NEW r \in Instances, Drain(r)
      PROVE  IInv'
  BY <1>5, MoveIInv DEF Drain, TypeOK, Phases
<1>6. ASSUME NEW r \in Instances, Bury(r)
      PROVE  IInv'
  BY <1>6, MoveIInv DEF Bury, TypeOK, Phases
<1>7. ASSUME NEW r \in Instances, NEW j \in Jobs, Open(r, j)
      PROVE  IInv'
  <2>1. tenants' \in [Instances -> SUBSET Jobs]
    BY <1>7 DEF Open, TypeOK
  <2>2. QED
    BY <1>7, <2>1, MoveIInv DEF Open, Phases
<1>8. ASSUME NEW r \in Instances, NEW j \in Jobs, Enter(r, j) \/ Leave(r, j)
      PROVE  IInv'
  <2>1. UNCHANGED <<phase, up>> /\ TypeOK'
    BY <1>8 DEF Enter, Leave, TypeOK
  <2>2. QED
    BY <2>1, StayIInv
<1>9. QED
  BY <1>1, <1>2, <1>3, <1>4, <1>5, <1>6, <1>7, <1>8 DEF Next

\* An instance that serves jobs is running, or was taken back by EC2.
THEOREM AlwaysUp == Spec => []ServingIsUp
  BY InitIInv, NextIInv, PTL DEF Spec, IInv

\* A job comes only to an instance that opens with it, or serves already.
LEMMA Welcome ==
  ASSUME IInv, Next, NEW r \in Instances, NEW j \in Jobs, Comes(r, j)
  PROVE  phase'[r] = "serving"
<1>1. PICK s \in Instances :
        \/ Begin(s) \/ TurnOn(s) \/ TurnOff(s) \/ Drain(s) \/ Bury(s)
        \/ \E k \in Jobs : Open(s, k) \/ Enter(s, k) \/ Leave(s, k)
  BY DEF Next
<1>2. tenants' # tenants
  BY DEF Comes
<1>3. PICK k \in Jobs : Open(s, k) \/ Enter(s, k) \/ Leave(s, k)
  BY <1>1, <1>2 DEF Begin, TurnOn, TurnOff, Drain, Bury
<1>4. s = r /\ (Open(s, k) \/ Enter(s, k))
  BY <1>3 DEF Comes, Open, Enter, Leave, IInv, TypeOK
<1>5. QED
  BY <1>4 DEF Open, Enter, Move, IInv, TypeOK

\* Whenever a job is given a slot, its instance serves and runs: with the refinement
\* this is what the provision and cleanup Lambdas promise together.
THEOREM Welcomed == Spec => WelcomedWhileUp
<1>1. ASSUME IInv, IInv', [Next]_vars
      PROVE  [\A r \in Instances, j \in Jobs : Comes(r, j) => Served(r)]_vars
  <2>1. CASE Next
    <3>1. \A r \in Instances : phase'[r] = "serving" => up'[r] \/ Reclaimable
      BY <1>1 DEF IInv, ServingIsUp
    <3>2. QED
      BY <1>1, <2>1, <3>1, Welcome DEF Served
  <2>2. QED
    BY <1>1, <2>1
<1>2. QED
  BY <1>1, InitIInv, NextIInv, PTL DEF Spec, WelcomedWhileUp
=============================================================================
