------------------------------- MODULE MCSignIn -------------------------------
(* Instances of SignIn for TLC. *)
EXTENDS SignIn, TLC

CONSTANTS p1, p2, p3, m1, m2

CopiedConfig == p1 :> m1 @@ p2 :> m1  \* two programs share one machine id
TwoMachines == p1 :> m1 @@ p2 :> m1 @@ p3 :> m2     \* and a third has its own
OneProgram == p1 :> m1

Symmetry == Permutations(Conns) \cup Permutations(Objs \ Machines)
==============================================================================
