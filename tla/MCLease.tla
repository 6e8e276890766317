-------------------------------- MODULE MCLease --------------------------------
(* Instances of Lease for TLC: blocks of two to eight addresses. *)
EXTENDS Lease, TLC

Tiny == {[ip |-> 8, size |-> 2]}    \* a pool of one address
OneNetwork == {[ip |-> 8, size |-> 4]}
Shrinking == {[ip |-> 8, size |-> 8], [ip |-> 8, size |-> 4]}

Symmetry == Permutations(Users) \cup Permutations(Admins)
===============================================================================
