------------------------------ MODULE Replica ------------------------------
(***************************************************************************)
(* What a polled view promises: a source moves through its states 1, 2,    *)
(* ..., and a copy of it, empty (0) at first, is only ever moved to a      *)
(* state the source has been in and never back to an older one.            *)
(***************************************************************************)
EXTENDS Naturals

VARIABLES
    source,     \* the number of changes the source has been through
    copy        \* the state of the source the copy shows

Init == source = 1 /\ copy = 0

Change == source' = source + 1 /\ UNCHANGED copy

\* The copy may skip states but not invent or forget one.
Adopt == copy' \in copy .. source /\ UNCHANGED source

\* A view that is opened again starts from nothing.
Reopen == copy' = 0 /\ UNCHANGED source

Next == Change \/ Adopt \/ Reopen

Spec == Init /\ [][Next]_<<source, copy>>
=============================================================================
