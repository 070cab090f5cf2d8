---------------------------- MODULE MCProvision ----------------------------
(***************************************************************************)
(* Small instances of Provision for TLC.                                   *)
(***************************************************************************)
EXTENDS Provision, TLC

CONSTANTS j1, j2, j3, j4, r1, r2, r3, p1, p2, w1, w2

\* What the labels of a job match: always p1; or p1 for j1 and j2, p2 for j3, and
\* nothing for a fourth.
OneProfile == [j \in Jobs |-> {p1}]
TwoPools ==
  [j \in Jobs |-> CASE j \in {j1, j2} -> {p1} [] j = j3 -> {p2} [] OTHER -> {}]

\* The receive count of a message is a bound on its deliveries.
EachOnce == [k \in Kinds |-> 1]
EachTwice == [k \in Kinds |-> 2]
QueuedTwice == [k \in Kinds |-> IF k = "queued" THEN 2 ELSE 1]
\* `queued' is delivered once more than there are attempts.
OnceMore == [k \in Kinds |-> IF k = "queued" THEN MaxProvisionAttempts + 1 ELSE 1]

Symmetry == Permutations(Jobs) \cup Permutations(Runners) \cup Permutations(Workers)
\* Where Matching tells the others from j1 and j2.
PoolSymmetry == Permutations({j1, j2}) \cup Permutations(Runners) \cup Permutations(Workers)
=============================================================================
