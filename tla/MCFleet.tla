------------------------------ MODULE MCFleet ------------------------------
(***************************************************************************)
(* Small instances of Fleet for TLC.                                       *)
(***************************************************************************)
EXTENDS Fleet, TLC

CONSTANTS j1, j2, r1, r2, p1, w1, w2, c1, c2

OneProfile == [j \in Jobs |-> {p1}]

\* The receive count of a message is a bound on its deliveries.
EachOnce == [k \in Kinds |-> 1]

Symmetry ==
  Permutations(Jobs) \cup Permutations(Runners) \cup Permutations(Workers)
    \cup Permutations(Reapers)
=============================================================================
