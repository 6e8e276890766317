----------------------------- MODULE MCMessenger -----------------------------
(* Instances of Messenger for TLC. *)
EXTENDS Messenger, TLC

Symmetry == Permutations(Calls) \cup Permutations(Conns)
==============================================================================
