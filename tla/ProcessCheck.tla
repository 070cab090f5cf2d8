---------------------------- MODULE ProcessCheck ----------------------------
(***************************************************************************)
(* The process check of a sweep (internal/aws/ssm.go): before it ends      *)
(* instances, the cleanup Lambda has SSM look for a Runner.Worker on each  *)
(* of them.  Agents come and go, jobs begin and end, and commands run or   *)
(* do not run meanwhile; a call to SSM may fail.                           *)
(*                                                                         *)
(* Fleet's operator Worker stands for one result of this check.            *)
(***************************************************************************)
EXTENDS Integers, FiniteSets, Sequences, SequencesExt

CONSTANTS
  Ids,              \* the instances to check, in the order of the sweep
  SendCommandBatch  \* sendCommandBatch: instances a call may name

ASSUME BatchAssumption == SendCommandBatch \in Nat \ {0}

Instances == ToSet(Ids)

ASSUME IdsAssumption == Ids \in Seq(Instances) /\ IsInjective(Ids)

VARIABLES
  worker,    \* whether a Runner.Worker runs there
  answer,    \* what SSM knows of the command on each instance
  checkPc,   \* where CheckRunnerProcesses is
  start,     \* how many instances the loop over batches has dealt with
  online,    \* the instances that were online
  commands,  \* the commands sent, each with its instances
  turn,      \* commands whose answers were read in this round
  pending,   \* instances not heard from
  results,   \* what was found
  late,      \* the deadline has passed
  was        \* history: the values of worker since the check began

checkVars == <<worker, answer, checkPc, start, online, commands, turn, pending,
               results, late, was>>

loopVars == <<checkPc, start, online, commands, turn, pending, results>>

\* What SSM says of the command on an instance: not sent there, no answer yet, an end
\* other than success, or the output, with or without a Runner.Worker.
Status == {"none", "Pending", "Failed", "idle", "busy"}

CheckTypeOK ==
  /\ worker \in [Instances -> BOOLEAN]
  /\ answer \in [Instances -> Status]
  /\ checkPc \in {"idle", "describe", "send", "round", "list", "done"}
  /\ start \in Nat
  /\ online \in Seq(Instances)
  /\ commands \in Seq(SUBSET Instances)
  /\ turn \in 0 .. Len(commands)
  /\ pending \subseteq ToSet(online)
  /\ results \in [Instances -> {"unknown", "idle", "busy"}]
  /\ late \in BOOLEAN
  /\ was \in [Instances -> SUBSET BOOLEAN]

CheckInit ==
  /\ worker = [h \in Instances |-> FALSE]
  /\ answer = [h \in Instances |-> "none"]
  /\ checkPc = "idle"
  /\ start = 0
  /\ online = <<>>
  /\ commands = <<>>
  /\ turn = 0
  /\ pending = {}
  /\ results = [h \in Instances |-> "unknown"]
  /\ late = FALSE
  /\ was = [h \in Instances |-> {}]

-----------------------------------------------------------------------------
(***************************************************************************)
(* The instances, SSM and the clock.                                       *)
(***************************************************************************)

\* A job begins or ends; nobody looks once the command has ended there.
WorkerChanges(h) ==
  /\ checkPc # "done"
  /\ answer[h] \in {"none", "Pending"}
  /\ worker' = [worker EXCEPT ![h] = ~@]
  /\ was' = [was EXCEPT ![h] = @ \cup {worker'[h]}]
  /\ UNCHANGED <<answer, loopVars, late>>

\* The command runs and its output is counted, or it fails, times out or is cancelled.
CommandEnds(h) ==
  /\ answer[h] = "Pending"
  /\ answer' \in {[answer EXCEPT ![h] = a] :
                    a \in {"Failed", IF worker[h] THEN "busy" ELSE "idle"}}
  /\ UNCHANGED <<worker, loopVars, late, was>>

DeadlinePasses ==
  /\ checkPc \in {"round", "list"}
  /\ ~late
  /\ late' = TRUE
  /\ UNCHANGED <<worker, answer, loopVars, was>>

-----------------------------------------------------------------------------
(***************************************************************************)
(* CheckRunnerProcesses.                                                   *)
(***************************************************************************)
Min2(a, b) == IF a < b THEN a ELSE b

\* Mutant: the next batch begins with the last instance of this one.
OverlappingBatch(ids) ==
  SubSeq(ids, start + 1, Min2(start + SendCommandBatch + 1, Len(ids)))

BatchOf(ids) == SubSeq(ids, start + 1, Min2(start + SendCommandBatch, Len(ids)))

\* The sweep calls it for the instances it may end.
Begin ==
  /\ checkPc = "idle"
  /\ checkPc' = "describe"
  /\ was' = [h \in Instances |-> {worker[h]}]
  /\ UNCHANGED <<worker, answer, start, online, commands, turn, pending, results, late>>

\* onlineInstances, one batch of it.  Agents come and go: any of them may be online,
\* and SSM lists them in the order it likes.
Describe ==
  /\ checkPc = "describe"
  /\ start < Len(Ids)
  /\ \E list \in SetToAllKPermutations(ToSet(BatchOf(Ids))) : online' = online \o list
  /\ start' = start + SendCommandBatch
  /\ UNCHANGED <<worker, answer, checkPc, commands, turn, pending, results, late, was>>

Described ==
  /\ checkPc = "describe"
  /\ start >= Len(Ids)
  /\ checkPc' = IF online = <<>> THEN "done" ELSE "send"
  /\ start' = 0
  /\ UNCHANGED <<worker, answer, online, commands, turn, pending, results, late, was>>

SendCommand ==
  LET batch == ToSet(BatchOf(online))
  IN /\ checkPc = "send"
     /\ start < Len(online)
     /\ commands' = Append(commands, batch)
     /\ answer' = [h \in Instances |-> IF h \in batch THEN "Pending" ELSE answer[h]]
     /\ start' = start + SendCommandBatch
     /\ UNCHANGED <<worker, checkPc, online, turn, pending, results, late, was>>

\* Mutant: every instance is waited for.
SentToAll ==
  /\ checkPc = "send"
  /\ start >= Len(online)
  /\ pending' = Instances
  /\ checkPc' = "round"
  /\ UNCHANGED <<worker, answer, start, online, commands, turn, results, late, was>>

Sent ==
  /\ checkPc = "send"
  /\ start >= Len(online)
  /\ pending' = ToSet(online)
  /\ checkPc' = "round"
  /\ UNCHANGED <<worker, answer, start, online, commands, turn, results, late, was>>

\* Mutant: the deadline is not looked at.
RoundUntilAnswered ==
  /\ checkPc = "round"
  /\ checkPc' = IF pending # {} THEN "list" ELSE "done"
  /\ turn' = 0
  /\ UNCHANGED <<worker, answer, start, online, commands, pending, results, late, was>>

\* The head of the loop.
Round ==
  /\ checkPc = "round"
  /\ checkPc' = IF pending # {} /\ ~late THEN "list" ELSE "done"
  /\ turn' = 0
  /\ UNCHANGED <<worker, answer, start, online, commands, pending, results, late, was>>

\* Mutant: a command that failed has found no worker.
FailedIsIdle(h) == IF answer[h] = "Failed" THEN "idle" ELSE answer[h]

Parsed(h) == IF answer[h] = "Failed" THEN results[h] ELSE answer[h]

\* ListCommandInvocations of one command.
List ==
  LET ended == {h \in commands[turn + 1] \cap pending : answer[h] # "Pending"}
  IN /\ checkPc = "list"
     /\ turn < Len(commands)
     /\ results' = [h \in Instances |-> IF h \in ended THEN Parsed(h) ELSE results[h]]
     /\ pending' = pending \ ended
     /\ turn' = turn + 1
     /\ UNCHANGED <<worker, answer, checkPc, start, online, commands, late, was>>

Listed ==
  /\ checkPc = "list"
  /\ turn = Len(commands)
  /\ checkPc' = "round"
  /\ UNCHANGED <<worker, answer, start, online, commands, turn, pending, results,
                 late, was>>

\* A call fails, as SendCommand does when an agent of its batch has gone, or the
\* Lambda's context ends: the sweep goes on with what there is.
CallFails ==
  /\ checkPc \notin {"idle", "done"}
  /\ checkPc' = "done"
  /\ UNCHANGED <<worker, answer, start, online, commands, turn, pending, results,
                 late, was>>

Checking ==
  Describe \/ Described \/ SendCommand \/ Sent \/ Round \/ List \/ Listed \/ CallFails

CheckNext ==
  \/ Begin \/ Checking \/ DeadlinePasses
  \/ \E h \in Instances : WorkerChanges(h) \/ CommandEnds(h)

CheckSpec == CheckInit /\ [][CheckNext]_checkVars

(***************************************************************************)
(* The check goes on, and time passes.  No command need ever end.          *)
(***************************************************************************)
CheckFairness == WF_checkVars(Checking) /\ WF_checkVars(DeadlinePasses)

-----------------------------------------------------------------------------
\* What the sweep is told of an instance was so at some moment of the check; one that
\* was not heard from is never told to be idle (ssm.go:58-62).
ResultWasSo ==
  \A h \in Instances : results[h] # "unknown" => (results[h] = "busy") \in was[h]

\* The batches cover the online instances, each once, however many there are.
AskedOnce ==
  /\ \A i, k \in DOMAIN commands : i # k => commands[i] \cap commands[k] = {}
  /\ checkPc \in {"round", "list"} => UNION ToSet(commands) = ToSet(online)

\* The sweep is not held up by an instance that never answers (ssm.go:58-60, 90-91).
CheckEnds == checkPc = "describe" ~> checkPc = "done"
=============================================================================
