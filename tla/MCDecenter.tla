------------------------------ MODULE MCDecenter ------------------------------
(* Instances of Decenter for TLC. *)
EXTENDS Decenter, TLC

CONSTANTS m1, g1

Symmetry == Permutations(Machines)

(* Up to the names of the groups, m1 starts in g1. *)
InitFrom1 == Init /\ cfg[m1] = g1

FairSpecFrom1 == InitFrom1 /\ [][Next]_vars /\ Fairness
===============================================================================
