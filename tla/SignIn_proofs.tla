----------------------------- MODULE SignIn_proofs -----------------------------
(***************************************************************************)
(* Proofs about SignIn, for any set of programs, machines, connections and *)
(* records, and any number of faults.                                      *)
(***************************************************************************)
EXTENDS SignIn, TLAPS

(* Every record belongs to one machine, and what refers to it, a handler at
   work or the connection installed in it, was opened by a program that is
   configured as this machine. *)
RouteInv ==
    /\ \A m, n \in Machines : Listed(m) /\ clients[m] = clients[n] => m = n
    /\ \A k \in Conns : ref[k] # None => spc[k] \in {"validate", "evict", "install"}
    /\ \A k \in Conns, m \in Machines :
           ref[k] # None /\ clients[m] = ref[k] => MachineOf[owner[k]] = m
    /\ \A m \in Machines :
           LET k == oconn[clients[m]]
           IN  Listed(m) /\ k # None => owner[k] # None /\ MachineOf[owner[k]] = m

(* A client uses connections of its own; the reply "ok" and the adoption of
   the connection both mean that the server installed it. *)
BeliefInv ==
    /\ \A p \in Peers : pend[p] # None => owner[pend[p]] = p
    /\ \A k \in Conns : spc[k] = "ok" => signed[k]
    /\ \A p \in Peers :
           cconn[p] # None =>
               owner[cconn[p]] = p /\ (link[cconn[p]] => signed[cconn[p]])

Inv == TypeOK /\ CacheMatchesStore /\ RouteInv /\ BeliefInv

------------------------------------------------------------------------------

(* Every step keeps the types. *)
LEMMA TypeStep == TypeOK /\ [Next]_vars => TypeOK'
<1> SUFFICES ASSUME TypeOK, [Next]_vars PROVE TypeOK'
  OBVIOUS
<1> USE MachineOfType, ObjsHoldMachines, FaultsAreCounted, NoneIsNothing
    DEF TypeOK, clientVars, connVars, handlerVars, recordVars
<1>1. ASSUME NEW p \in Peers, NEW k \in Conns, ClientSignIn(p, k) PROVE TypeOK'
  BY <1>1 DEF ClientSignIn
<1>2. ASSUME NEW p \in Peers, ClientAccepted(p) PROVE TypeOK'
  BY <1>2 DEF ClientAccepted
<1>3. ASSUME NEW p \in Peers, ClientRefused(p) PROVE TypeOK'
  BY <1>3 DEF ClientRefused, ClientGivesUp, Closed
<1>4. ASSUME NEW p \in Peers, ClientTimeout(p) PROVE TypeOK'
  BY <1>4 DEF ClientTimeout, ClientGivesUp, Fault, Closed
<1>5. ASSUME NEW p \in Peers, ClientFinish(p) PROVE TypeOK'
  BY <1>5 DEF ClientFinish
<1>6. ASSUME NEW p \in Peers, ClientExp(p) PROVE TypeOK'
  BY <1>6 DEF ClientExp, Listed
<1>7. ASSUME NEW p \in Peers, NEW g \in Groups, ReSignIn(p, g) PROVE TypeOK'
  <2>1. CASE Connected(p)
    <3>1. PICK c \in Conns : c = cconn[p]
      BY <2>1 DEF Connected
    <3>2. link' = [link EXCEPT ![c] = FALSE] /\ cup' = [cup EXCEPT ![c] = FALSE]
      BY <1>7, <2>1, <3>1 DEF ReSignIn, Closed
    <3>3. link' \in [Conns -> BOOLEAN] /\ cup' \in [Conns -> BOOLEAN]
      BY <3>2
    <3> QED BY <1>7, <3>3 DEF ReSignIn, Fault
  <2>2. CASE ~Connected(p)
    BY <1>7, <2>2 DEF ReSignIn, Fault
  <2> QED BY <2>1, <2>2
<1>8. ASSUME NEW k \in Conns, SignLookUp(k) PROVE TypeOK'
  BY <1>8 DEF SignLookUp
<1>9. ASSUME NEW k \in Conns, SignValidate(k) PROVE TypeOK'
  BY <1>9 DEF SignValidate
<1>10. ASSUME NEW k \in Conns, SignEvict(k) PROVE TypeOK'
  <2>1. CASE oconn[ref[k]] = None
    BY <1>10, <2>1 DEF SignEvict
  <2>2. CASE oconn[ref[k]] # None
    <3>1. PICK c \in Conns : c = oconn[ref[k]]
      BY <1>10, <2>2 DEF SignEvict
    <3>2. link' = [link EXCEPT ![c] = FALSE] /\ sup' = [sup EXCEPT ![c] = FALSE]
      BY <1>10, <2>2, <3>1 DEF SignEvict, Closed
    <3>3. link' \in [Conns -> BOOLEAN] /\ sup' \in [Conns -> BOOLEAN]
      BY <3>2
    <3> QED BY <1>10, <3>3 DEF SignEvict
  <2> QED BY <2>1, <2>2
<1>11. ASSUME NEW k \in Conns, NEW o \in Objs, SignInsert(k, o) PROVE TypeOK'
  <2>1. owner[k] \in Peers
    BY <1>11 DEF SignInsert
  <2>2. MachineOf[owner[k]] \in Machines
    BY <2>1
  <2>3. CASE stored[MachineOf[owner[k]]] # None
    BY <1>11, <2>2, <2>3 DEF SignInsert
  <2>4. CASE stored[MachineOf[owner[k]]] = None
    <3> DEFINE m == MachineOf[owner[k]]
    <3>1. /\ stored' = [stored EXCEPT ![m] = [key |-> None, group |-> None]]
          /\ clients' = IF Listed(m) THEN clients ELSE [clients EXCEPT ![m] = o]
          /\ oconn' = [oconn EXCEPT ![o] = None]
          /\ okey' = [okey EXCEPT ![o] = None]
          /\ ogroup' = [ogroup EXCEPT ![o] = None]
          /\ old' = old \ {o}
          /\ ref' = [ref EXCEPT ![k] = o]
          /\ spc' = [spc EXCEPT ![k] = "install"]
          /\ UNCHANGED <<clientVars, connVars, want, signed, clearing, faults>>
      BY <1>11, <2>4 DEF SignInsert
    <3>2. stored' \in [Machines -> Records \cup {None}]
      BY <3>1 DEF Records
    <3>3. clients' \in [Machines -> Objs \cup {None}]
      BY <2>2, <3>1
    <3>4. ref' \in [Conns -> Objs \cup {None}] /\ \A j \in Conns : spc'[j] = "install" => ref'[j] # None
      BY <3>1
    <3> QED BY <1>11, <3>1, <3>2, <3>3, <3>4 DEF SignInsert
  <2> QED BY <2>3, <2>4
<1>12. ASSUME NEW k \in Conns, SignInstall(k) PROVE TypeOK'
  <2>1. owner[k] \in Peers /\ ref[k] \in Objs
    BY <1>12 DEF SignInstall
  <2>2. stored' \in [Machines -> Records \cup {None}]
    BY <1>12, <2>1 DEF SignInstall, Records
  <2> QED BY <1>12, <2>1, <2>2 DEF SignInstall
<1>13. ASSUME NEW k \in Conns, ReplyLost(k) PROVE TypeOK'
  BY <1>13 DEF ReplyLost
<1>14. ASSUME NEW k \in Conns, ClientEndDown(k) PROVE TypeOK'
  BY <1>14 DEF ClientEndDown, Closed
<1>15. ASSUME NEW k \in Conns, ServerEndDown(k) PROVE TypeOK'
  BY <1>15 DEF ServerEndDown, Closed
<1>16. ASSUME NEW k \in Conns, NetworkFailure(k) PROVE TypeOK'
  BY <1>16 DEF NetworkFailure, Fault, Closed
<1>17. ASSUME NEW k \in Conns, NEW m \in Machines, Delete(k, m) PROVE TypeOK'
  BY <1>17 DEF Delete, Fault
<1>18. ASSUME NEW o \in Objs, Age(o) PROVE TypeOK'
  BY <1>18 DEF Age, Fault
<1>19. ASSUME ClearPick PROVE TypeOK'
  BY <1>19 DEF ClearPick
<1>20. ASSUME ClearRemove PROVE TypeOK'
  BY <1>20 DEF ClearRemove, InGroup, Listed
<1>21. ASSUME Restart PROVE TypeOK'
  <2> DEFINE back == {m \in Machines : stored[m] # None}
  <2>1. \A m \in back : stored[m].key \in Peers \cup {None} /\ stored[m].group \in Groups \cup {None}
    BY DEF Records
  <2>2. clients' \in [Machines -> Objs \cup {None}] /\ old' \subseteq Objs
    BY <1>21 DEF Restart
  <2>3. okey' = [o \in Objs |-> IF o \in back THEN stored[o].key ELSE None]
    BY <1>21 DEF Restart
  <2>4. ogroup' = [o \in Objs |-> IF o \in back THEN stored[o].group ELSE None]
    BY <1>21 DEF Restart
  <2>5. okey' \in [Objs -> Peers \cup {None}] /\ ogroup' \in [Objs -> Groups \cup {None}]
    BY <2>1, <2>3, <2>4
  <2>6. faults' \in 0..MaxFaults
    BY <1>21 DEF Restart, Fault
  <2>7. /\ link' \in [Conns -> BOOLEAN] /\ sup' \in [Conns -> BOOLEAN]
        /\ asked' = [k \in Conns |-> None] /\ spc' = [k \in Conns |-> "none"]
        /\ ref' = [k \in Conns |-> None] /\ want' = [k \in Conns |-> None]
        /\ signed' \in [Conns -> BOOLEAN] /\ oconn' = [o \in Objs |-> None]
        /\ clearing' = {}
        /\ UNCHANGED <<cpc, cconn, pend, cfg, cup, owner, stored>>
    BY <1>21 DEF Restart
  <2> QED BY <2>2, <2>5, <2>6, <2>7
<1>22. CASE UNCHANGED vars
  BY <1>22 DEF vars
<1> QED BY <1>1, <1>2, <1>3, <1>4, <1>5, <1>6, <1>7, <1>8, <1>9, <1>10, <1>11, <1>12, <1>13, <1>14, <1>15, <1>16, <1>17, <1>18, <1>19, <1>20, <1>21, <1>22 DEF Next, Client, Handler

(* The store and the dictionary change together. *)
LEMMA MatchStep == TypeOK /\ CacheMatchesStore /\ [Next]_vars => CacheMatchesStore'
<1> SUFFICES ASSUME TypeOK, CacheMatchesStore, [Next]_vars PROVE CacheMatchesStore'
  OBVIOUS
<1> USE MachineOfType, ObjsHoldMachines, NoneIsNothing
    DEF TypeOK, CacheMatchesStore, Listed, clientVars, connVars, handlerVars, recordVars
<1>1. ASSUME NEW k \in Conns, NEW o \in Objs, SignInsert(k, o) PROVE CacheMatchesStore'
  <2> DEFINE m == MachineOf[owner[k]]
             new == [key |-> None, group |-> None]
  <2>1. m \in Machines /\ new # None
    BY <1>1 DEF SignInsert, Records
  <2>2. \/ UNCHANGED <<clients, stored>>
        \/ /\ stored[m] = None
           /\ stored' = [stored EXCEPT ![m] = new]
           /\ clients' = IF clients[m] # None THEN clients ELSE [clients EXCEPT ![m] = o]
    BY <1>1 DEF SignInsert
  <2> QED BY <2>1, <2>2
<1>2. ASSUME NEW k \in Conns, SignInstall(k) PROVE CacheMatchesStore'
  <2> DEFINE m == MachineOf[owner[k]]
             new == [key |-> owner[k], group |-> want[k]]
  <2>1. new # None
    BY <1>2 DEF SignInstall, Records
  <2>2. /\ UNCHANGED clients
        /\ stored' = IF stored[m] = None THEN stored ELSE [stored EXCEPT ![m] = new]
    BY <1>2 DEF SignInstall
  <2> QED BY <2>1, <2>2
<1>3. ASSUME NEW k \in Conns, NEW m \in Machines, Delete(k, m) PROVE CacheMatchesStore'
  BY <1>3 DEF Delete
<1>4. ASSUME ClearRemove PROVE CacheMatchesStore'
  BY <1>4 DEF ClearRemove
<1>5. ASSUME Restart PROVE CacheMatchesStore'
  BY <1>5 DEF Restart
<1>6. CASE UNCHANGED <<clients, stored>>
  BY <1>6
<1> QED
  BY <1>1, <1>2, <1>3, <1>4, <1>5, <1>6
  DEF Next, Client, Handler, vars, ClientSignIn, ClientAccepted, ClientRefused, ClientTimeout, ClientFinish,
      ClientExp, ReSignIn, SignLookUp, SignValidate, SignEvict, ReplyLost,
      ClientEndDown, ServerEndDown, NetworkFailure, Age, ClearPick

(* A step leads every record to connections of its own machine. *)
LEMMA RouteStep == TypeOK /\ RouteInv /\ [Next]_vars => RouteInv'
<1> SUFFICES ASSUME TypeOK, RouteInv, [Next]_vars PROVE RouteInv'
  OBVIOUS
<1> USE MachineOfType, ObjsHoldMachines, NoneIsNothing
    DEF TypeOK, RouteInv, Listed, clientVars, connVars, handlerVars, recordVars
<1>1. ASSUME NEW p \in Peers, NEW k \in Conns, ClientSignIn(p, k) PROVE RouteInv'
  <2>1. /\ owner' = [owner EXCEPT ![k] = p]
        /\ oconn' = [o \in Objs |-> IF oconn[o] = k THEN None ELSE oconn[o]]
        /\ UNCHANGED <<clients, ref, spc>>
    BY <1>1 DEF ClientSignIn
  <2>2. ref[k] = None
    BY <1>1 DEF ClientSignIn, Unused
  <2>3. \A j \in Conns, m \in Machines :
            ref'[j] # None /\ clients'[m] = ref'[j] => MachineOf[owner'[j]] = m
    BY <2>1, <2>2
  <2>4. ASSUME NEW m \in Machines, clients[m] # None, oconn'[clients[m]] # None
        PROVE  /\ owner'[oconn'[clients[m]]] # None
               /\ MachineOf[owner'[oconn'[clients[m]]]] = m
    <3>1. PICK c \in Conns \ {k} : c = oconn[clients[m]] /\ c = oconn'[clients[m]]
      BY <2>1, <2>4
    <3>2. owner'[c] = owner[c]
      BY <2>1, <3>1
    <3> QED BY <2>1, <2>4, <3>1, <3>2
  <2> QED BY <2>1, <2>3, <2>4
<1>2. ASSUME NEW p \in Peers, ClientAccepted(p) PROVE RouteInv'
  BY <1>2 DEF ClientAccepted
<1>3. ASSUME NEW p \in Peers, ClientRefused(p) PROVE RouteInv'
  BY <1>3 DEF ClientRefused, ClientGivesUp
<1>4. ASSUME NEW k \in Conns, SignLookUp(k) PROVE RouteInv'
  BY <1>4 DEF SignLookUp
<1>5. ASSUME NEW k \in Conns, SignValidate(k) PROVE RouteInv'
  BY <1>5 DEF SignValidate
<1>6. ASSUME NEW k \in Conns, SignEvict(k) PROVE RouteInv'
  BY <1>6 DEF SignEvict
<1>7. ASSUME NEW k \in Conns, NEW o \in Objs, SignInsert(k, o) PROVE RouteInv'
  <2>1. owner[k] \in Peers /\ MachineOf[owner[k]] \in Machines
    BY <1>7 DEF SignInsert
  <2>2. CASE stored[MachineOf[owner[k]]] # None
    <3>1. /\ spc' = [spc EXCEPT ![k] = "none"]
          /\ ref[k] = None
          /\ UNCHANGED <<clients, oconn, ref, owner>>
      BY <1>7, <2>2 DEF SignInsert
    <3> QED BY <3>1
  <2>3. CASE stored[MachineOf[owner[k]]] = None
    <3> DEFINE m == MachineOf[owner[k]]
    <3>1. /\ clients' = IF clients[m] # None THEN clients ELSE [clients EXCEPT ![m] = o]
          /\ oconn' = [oconn EXCEPT ![o] = None]
          /\ ref' = [ref EXCEPT ![k] = o]
          /\ spc' = [spc EXCEPT ![k] = "install"]
          /\ UNCHANGED owner
      BY <1>7, <2>3 DEF SignInsert
    <3>2. /\ \A n \in Machines : clients[n] # o
          /\ \A j \in Conns : ref[j] # o
      BY <1>7, <2>3 DEF SignInsert, Free
    <3>3. \A n \in Machines : clients'[n] = clients[n] \/ (n = m /\ clients'[n] = o)
      <4>1. CASE clients' = clients
        BY <4>1
      <4>2. CASE clients' = [clients EXCEPT ![m] = o]
        BY <4>2
      <4> QED BY <3>1, <4>1, <4>2
    <3>4. \A n, l \in Machines : clients'[n] # None /\ clients'[n] = clients'[l] => n = l
      BY <3>2, <3>3
    <3>5. \A j \in Conns, n \in Machines :
              ref'[j] # None /\ clients'[n] = ref'[j] => MachineOf[owner'[j]] = n
      BY <3>1, <3>2, <3>3
    <3>6. ASSUME NEW n \in Machines, clients'[n] # None, oconn'[clients'[n]] # None
          PROVE  /\ owner'[oconn'[clients'[n]]] # None
                 /\ MachineOf[owner'[oconn'[clients'[n]]]] = n
      <4>1. clients'[n] \in Objs /\ clients'[n] # o
        BY <3>1, <3>3, <3>6
      <4>2. n # m \/ clients[m] # None
        BY <2>1, <3>1, <4>1
      <4>3. clients[n] = clients'[n]
        BY <3>3, <4>1
      <4>4. oconn'[clients'[n]] = oconn[clients[n]]
        BY <3>1, <4>1, <4>3
      <4> QED BY <3>1, <3>6, <4>3, <4>4
    <3>7. \A j \in Conns : ref'[j] # None => spc'[j] \in {"validate", "evict", "install"}
      BY <3>1
    <3> QED BY <3>4, <3>5, <3>6, <3>7
  <2> QED BY <2>2, <2>3
<1>8. ASSUME NEW k \in Conns, SignInstall(k) PROVE RouteInv'
  BY <1>8 DEF SignInstall
<1>9. ASSUME NEW k \in Conns, ReplyLost(k) PROVE RouteInv'
  BY <1>9 DEF ReplyLost
<1>10. ASSUME NEW k \in Conns, NEW m \in Machines, Delete(k, m) PROVE RouteInv'
  BY <1>10 DEF Delete
<1>11. ASSUME ClearRemove PROVE RouteInv'
  BY <1>11 DEF ClearRemove
<1>12. ASSUME Restart PROVE RouteInv'
  BY <1>12 DEF Restart
<1>13. CASE UNCHANGED <<clients, oconn, ref, spc, owner>>
  BY <1>13
<1> QED
  BY <1>1, <1>2, <1>3, <1>4, <1>5, <1>6, <1>7, <1>8, <1>9, <1>10, <1>11, <1>12, <1>13
  DEF Next, Client, Handler, vars, ClientGivesUp, ClientTimeout, ClientFinish, ClientExp, ReSignIn, ClientEndDown, ServerEndDown,
      NetworkFailure, Age, ClearPick

(* A step keeps what the clients believe founded. *)
LEMMA BeliefStep == TypeOK /\ BeliefInv /\ [Next]_vars => BeliefInv'
<1> SUFFICES ASSUME TypeOK, BeliefInv, [Next]_vars PROVE BeliefInv'
  OBVIOUS
<1> USE NoneIsNothing
    DEF TypeOK, BeliefInv, clientVars, connVars, handlerVars, recordVars
<1>1. ASSUME NEW p \in Peers, NEW k \in Conns, ClientSignIn(p, k) PROVE BeliefInv'
  BY <1>1 DEF ClientSignIn, Unused
<1>2. ASSUME NEW p \in Peers, ClientAccepted(p) PROVE BeliefInv'
  BY <1>2 DEF ClientAccepted
<1>3. ASSUME NEW p \in Peers, ClientRefused(p) PROVE BeliefInv'
  BY <1>3 DEF ClientRefused, ClientGivesUp, Closed
<1>4. ASSUME NEW p \in Peers, ClientTimeout(p) PROVE BeliefInv'
  BY <1>4 DEF ClientTimeout, ClientGivesUp, Closed
<1>5. ASSUME NEW p \in Peers, NEW g \in Groups, ReSignIn(p, g) PROVE BeliefInv'
  BY <1>5 DEF ReSignIn, Closed, Connected
<1>6. ASSUME NEW k \in Conns, SignLookUp(k) PROVE BeliefInv'
  BY <1>6 DEF SignLookUp
<1>7. ASSUME NEW k \in Conns, SignValidate(k) PROVE BeliefInv'
  BY <1>7 DEF SignValidate
<1>8. ASSUME NEW k \in Conns, SignEvict(k) PROVE BeliefInv'
  BY <1>8 DEF SignEvict, Closed
<1>9. ASSUME NEW k \in Conns, NEW o \in Objs, SignInsert(k, o) PROVE BeliefInv'
  BY <1>9 DEF SignInsert
<1>10. ASSUME NEW k \in Conns, SignInstall(k) PROVE BeliefInv'
  BY <1>10 DEF SignInstall
<1>11. ASSUME NEW k \in Conns, ReplyLost(k) PROVE BeliefInv'
  BY <1>11 DEF ReplyLost
<1>12. ASSUME NEW k \in Conns, NetworkFailure(k) PROVE BeliefInv'
  BY <1>12 DEF NetworkFailure, Closed
<1>13. ASSUME Restart PROVE BeliefInv'
  BY <1>13 DEF Restart
<1>14. CASE UNCHANGED <<pend, cconn, owner, link, spc, signed>>
  BY <1>14
<1> QED
  BY <1>1, <1>2, <1>3, <1>4, <1>5, <1>6, <1>7, <1>8, <1>9, <1>10, <1>11, <1>12, <1>13, <1>14
  DEF Next, Client, Handler, vars, ClientFinish, ClientExp, ClientEndDown, ServerEndDown, Delete, Age, ClearPick,
      ClearRemove

------------------------------------------------------------------------------
(* The invariant holds in every reachable state. *)
THEOREM Invariance == Spec => []Inv
<1>1. Init => Inv
  BY NoneIsNothing, FaultsAreCounted
  DEF Init, Inv, TypeOK, CacheMatchesStore, Listed, RouteInv, BeliefInv
<1>2. Inv /\ [Next]_vars => Inv'
  BY TypeStep, MatchStep, RouteStep, BeliefStep DEF Inv
<1> QED BY <1>1, <1>2, PTL DEF Spec

(* SignInServerCaching and SignInClientTransfer keep their fields in the
   states their code expects. *)
THEOREM TypeCorrect == Spec => []TypeOK
BY Invariance, PTL DEF Inv

(* The dictionary Clients and the store hold records of the same machines, in
   whatever order sign-ins, removals, cleaning and restarts interleave. *)
THEOREM CacheMatches == Spec => []CacheMatchesStore
BY Invariance, PTL DEF Inv

(* What is sent to a machine through its record reaches a program configured
   as this machine. *)
THEOREM Routes == Spec => []RoutesToMachine
<1>1. Inv => RoutesToMachine
  BY DEF Inv, RouteInv, RoutesToMachine, Online
<1> QED BY <1>1, Invariance, PTL

(* A client that takes itself for signed in was signed in by the server, on
   the connection it uses. *)
THEOREM BeliefsAreFounded == Spec => []BeliefIsFounded
<1>1. Inv => BeliefIsFounded
  BY DEF Inv, BeliefInv, BeliefIsFounded, Connected
<1> QED BY <1>1, Invariance, PTL
================================================================================
