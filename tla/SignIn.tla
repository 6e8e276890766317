-------------------------------- MODULE SignIn --------------------------------
(***************************************************************************)
(* How client programs sign in to the server and how the server keeps one  *)
(* record per machine: SignInClientTransfer on one side,                   *)
(* SignInServerCaching with its store on the other, and the connections    *)
(* between them.                                                           *)
(*                                                                         *)
(* A peer is a client program; its machine key tells it from every other.  *)
(* MachineOf gives the machine id it is configured with, which two peers   *)
(* share when a configuration was copied.                                  *)
(*                                                                         *)
(* The server handles a sign-in in steps another connection's sign-in can  *)
(* fall between: look the record up, validate (asynchronous, it may call a *)
(* web service), evict the old connection, install the new one, reply.     *)
(***************************************************************************)
EXTENDS Naturals, FiniteSets

CONSTANTS
    Peers, Machines, Groups,
    MachineOf,      \* the machine id each peer signs in with
    Refused,        \* peers another validator refuses (password, version, action)
    Conns,          \* identities of connections, reused once nothing refers to them
    Objs,           \* identities of SignCacheInfo objects, the machines included
    None,
    MaxFaults       \* bound on network failures, timeouts, restarts, removals,
                    \* group changes

ASSUME MachineOfType == MachineOf \in [Peers -> Machines]
ASSUME ObjsHoldMachines == Machines \subseteq Objs
ASSUME FaultsAreCounted == MaxFaults \in Nat

(* What the store keeps of a SignCacheInfo *)
Records == [key : Peers \cup {None}, group : Groups \cup {None}]

ASSUME NoneIsNothing == None \notin Peers \cup Conns \cup Objs \cup Groups \cup Records

VARIABLES
    \* the client programs
    cpc,        \* where SignIn is; "idle" when no operation is in progress
    cconn,      \* SignInClientState.Connection
    pend,       \* the connection SignIn2Server is using
    cfg,        \* the configured group
    \* the connections
    link,       \* nothing has broken or closed the connection
    cup, sup,   \* Connected, as the client's and the server's end see it
    owner,      \* the peer that opened it
    asked,      \* the group in its sign-in request, None once it is taken up
    \* the handlers of the server, one per connection
    spc,
    ref,        \* the record found by TryGetValue
    want,       \* the group of the request in progress
    signed,     \* the sign-in on this connection succeeded: connection.Id is set
    \* SignInServerCaching and its store
    clients,    \* machine id -> SignCacheInfo object
    oconn, okey, ogroup,    \* Connection, Args["machineKey"], GroupId (None is
                            \* the group a new record has before its first sign-in)
    old,        \* objects whose LastSignIn is more than CleanDays ago
    stored,     \* machine id -> the key and group in the store, None if absent
    clearing,   \* the groups ClearTask has decided to remove
    faults

clientVars == <<cpc, cconn, pend, cfg>>
connVars == <<link, cup, sup, owner, asked>>
handlerVars == <<spc, ref, want, signed>>
recordVars == <<clients, oconn, okey, ogroup, old, stored>>
vars == <<clientVars, connVars, handlerVars, recordVars, clearing, faults>>

Init ==
    /\ cpc = [p \in Peers |-> "idle"]
    /\ cconn = [p \in Peers |-> None]
    /\ pend = [p \in Peers |-> None]
    /\ cfg \in [Peers -> Groups]
    /\ link = [k \in Conns |-> FALSE]
    /\ cup = [k \in Conns |-> FALSE]
    /\ sup = [k \in Conns |-> FALSE]
    /\ owner = [k \in Conns |-> None]
    /\ asked = [k \in Conns |-> None]
    /\ spc = [k \in Conns |-> "none"]
    /\ ref = [k \in Conns |-> None]
    /\ want = [k \in Conns |-> None]
    /\ signed = [k \in Conns |-> FALSE]
    /\ clients = [m \in Machines |-> None]
    /\ oconn = [o \in Objs |-> None]
    /\ okey = [o \in Objs |-> None]
    /\ ogroup = [o \in Objs |-> None]
    /\ old = {}
    /\ stored = [m \in Machines |-> None]
    /\ clearing = {}
    /\ faults = 0

------------------------------------------------------------------------------
(* SignInClientState.Connected *)
Connected(p) == cconn[p] # None /\ cup[cconn[p]]

(* SignCacheInfo.Connected.  The stored flag is always false: it is read
   only while Connection is null. *)
Online(o) == oconn[o] # None /\ sup[oconn[o]]

Listed(m) == clients[m] # None

Fault == faults < MaxFaults /\ faults' = faults + 1

(* TcpConnection.Disponse on one end closes the socket for both. *)
Closed(f, k) == [f EXCEPT ![k] = FALSE]

Unused(k) ==
    /\ ~link[k] /\ ~cup[k] /\ ~sup[k] /\ spc[k] = "none"
    /\ \A p \in Peers : cconn[p] # k /\ pend[p] # k

Free(o) ==
    /\ \A m \in Machines : clients[m] # o
    /\ \A k \in Conns : ref[k] # o

------------------------------------------------------------------------------
(* SignIn while no operation runs: connect, and send the request with the
   group configured now.  Reached from the 10 s timer when not connected, and
   from ReSignIn, which finds the old connection closed. *)
ClientSignIn(p, k) ==
    /\ cpc[p] = "idle"
    /\ ~Connected(p)
    /\ Unused(k)
    /\ cpc' = [cpc EXCEPT ![p] = "waiting"]
    /\ pend' = [pend EXCEPT ![p] = k]
    /\ link' = [link EXCEPT ![k] = TRUE]
    /\ cup' = [cup EXCEPT ![k] = TRUE]
    /\ sup' = [sup EXCEPT ![k] = TRUE]
    /\ owner' = [owner EXCEPT ![k] = p]
    /\ asked' = [asked EXCEPT ![k] = cfg[p]]
    /\ signed' = [signed EXCEPT ![k] = FALSE]
    /\ oconn' = [o \in Objs |-> IF oconn[o] = k THEN None ELSE oconn[o]]
    /\ UNCHANGED <<cconn, cfg, spc, ref, want, clients, okey, ogroup, old,
                   stored, clearing, faults>>

(* The reply with Status true: the connection becomes the client's. *)
ClientAccepted(p) ==
    /\ cpc[p] = "waiting"
    /\ spc[pend[p]] = "ok"
    /\ link[pend[p]]
    /\ cconn' = [cconn EXCEPT ![p] = pend[p]]
    /\ pend' = [pend EXCEPT ![p] = None]
    /\ cpc' = [cpc EXCEPT ![p] = "signed"]
    /\ spc' = [spc EXCEPT ![pend[p]] = "none"]
    /\ UNCHANGED <<cfg, connVars, ref, want, signed, recordVars, clearing, faults>>

ClientGivesUpStuck(p) ==    \* mutant: StopOperation is not reached
    /\ link' = Closed(link, pend[p])
    /\ cup' = Closed(cup, pend[p])
    /\ UNCHANGED <<cpc, cconn, pend, cfg, sup, owner, asked>>

ClientGivesUpFirst(p) ==    \* mutant: StopOperation while the connection is in use
    /\ cpc' = [cpc EXCEPT ![p] = "idle"]
    /\ link' = Closed(link, pend[p])
    /\ cup' = Closed(cup, pend[p])
    /\ UNCHANGED <<cconn, pend, cfg, sup, owner, asked>>

(* A failed sign-in disposes of its connection and ends the operation. *)
ClientGivesUp(p) ==
    /\ cpc' = [cpc EXCEPT ![p] = "idle"]
    /\ pend' = [pend EXCEPT ![p] = None]
    /\ link' = Closed(link, pend[p])
    /\ cup' = Closed(cup, pend[p])
    /\ UNCHANGED <<cconn, cfg, sup, owner, asked>>

AdoptAnyReply(p) ==         \* mutant: SignInResponseInfo.Status is not looked at
    /\ cpc[p] = "waiting"
    /\ spc[pend[p]] = "refused"
    /\ link[pend[p]]
    /\ spc' = [spc EXCEPT ![pend[p]] = "none"]
    /\ cconn' = [cconn EXCEPT ![p] = pend[p]]
    /\ pend' = [pend EXCEPT ![p] = None]
    /\ cpc' = [cpc EXCEPT ![p] = "signed"]
    /\ UNCHANGED <<cfg, connVars, ref, want, signed, recordVars, clearing, faults>>

(* The reply with Status false *)
ClientRefused(p) ==
    /\ cpc[p] = "waiting"
    /\ spc[pend[p]] = "refused"
    /\ link[pend[p]]
    /\ spc' = [spc EXCEPT ![pend[p]] = "none"]
    /\ ClientGivesUp(p)
    /\ UNCHANGED <<ref, want, signed, recordVars, clearing, faults>>

(* No reply within 15 s: the handler is slow, it threw, or the connection
   broke.  The server may still be working on the request. *)
ClientTimeout(p) ==
    /\ cpc[p] = "waiting"
    /\ \/ Fault
       \/ /\ spc[pend[p]] = "none" \/ ~link[pend[p]]
          /\ asked[pend[p]] = None \/ ~link[pend[p]]
          /\ UNCHANGED faults
    /\ ClientGivesUp(p)
    /\ UNCHANGED <<handlerVars, recordVars, clearing>>

(* Version, CheckSuper and the sign-in events are over; StopOperation *)
ClientFinish(p) ==
    /\ cpc[p] = "signed"
    /\ cpc' = [cpc EXCEPT ![p] = "idle"]
    /\ UNCHANGED <<cconn, pend, cfg, connVars, handlerVars, recordVars, clearing, faults>>

(* Exp, sent by the timer while connected *)
ClientExp(p) ==
    /\ cpc[p] = "idle"
    /\ Connected(p)
    /\ link[cconn[p]] /\ sup[cconn[p]] /\ signed[cconn[p]]
    /\ Listed(MachineOf[p])
    /\ clients[MachineOf[p]] \in old
    /\ old' = old \ {clients[MachineOf[p]]}
    /\ UNCHANGED <<clientVars, connVars, handlerVars, clients, oconn, okey,
                   ogroup, stored, clearing, faults>>

(* The configuration page sets the groups and calls ReSignIn: SignOut, then
   SignIn.  SignIn returns at once when an operation is in progress, and
   otherwise is ClientSignIn. *)
ReSignIn(p, g) ==
    /\ g # cfg[p]
    /\ Fault
    /\ cfg' = [cfg EXCEPT ![p] = g]
    /\ IF Connected(p)
       THEN link' = Closed(link, cconn[p]) /\ cup' = Closed(cup, cconn[p])
       ELSE UNCHANGED <<link, cup>>
    /\ UNCHANGED <<cpc, cconn, pend, sup, owner, asked, handlerVars, recordVars, clearing>>

------------------------------------------------------------------------------
(* Each end notices a broken connection by itself, by reading its end or
   because nothing arrived for 15 s. *)
NetworkFailure(k) ==
    /\ link[k]
    /\ Fault
    /\ link' = Closed(link, k)
    /\ UNCHANGED <<clientVars, cup, sup, owner, asked, handlerVars, recordVars, clearing>>

ClientEndDown(k) ==
    /\ cup[k] /\ ~link[k]
    /\ cup' = Closed(cup, k)
    /\ UNCHANGED <<clientVars, link, sup, owner, asked, handlerVars, recordVars, clearing, faults>>

ServerEndDown(k) ==
    /\ sup[k] /\ ~link[k]
    /\ sup' = Closed(sup, k)
    /\ UNCHANGED <<clientVars, link, cup, owner, asked, handlerVars, recordVars, clearing, faults>>

------------------------------------------------------------------------------
(* SignInServerCaching.Sign *)
LookUpAny(k) ==     \* mutant: the record of whichever machine comes first
    /\ sup[k] /\ asked[k] # None /\ spc[k] = "none"
    /\ \E m \in Machines : ref' = [ref EXCEPT ![k] = clients[m]]
    /\ want' = [want EXCEPT ![k] = asked[k]]
    /\ asked' = [asked EXCEPT ![k] = None]
    /\ spc' = [spc EXCEPT ![k] = "validate"]
    /\ UNCHANGED <<clientVars, link, cup, sup, owner, signed, recordVars, clearing, faults>>

SignLookUp(k) ==
    /\ sup[k] /\ asked[k] # None /\ spc[k] = "none"
    /\ ref' = [ref EXCEPT ![k] = clients[MachineOf[owner[k]]]]
    /\ want' = [want EXCEPT ![k] = asked[k]]
    /\ asked' = [asked EXCEPT ![k] = None]
    /\ spc' = [spc EXCEPT ![k] = "validate"]
    /\ UNCHANGED <<clientVars, link, cup, sup, owner, signed, recordVars, clearing, faults>>

(* The validators.  The machine key is compared only while the machine is
   online. *)
OtherKeyOnline(k) ==
    /\ ref[k] # None
    /\ Online(ref[k])
    /\ okey[ref[k]] \notin {None, owner[k]}

SignValidate(k) ==
    /\ spc[k] = "validate"
    /\ LET ok == owner[k] \notin Refused /\ ~OtherKeyOnline(k)
       IN  /\ spc' = [spc EXCEPT ![k] = IF ok THEN "evict" ELSE "refused"]
           /\ ref' = IF ok THEN ref ELSE [ref EXCEPT ![k] = None]
    /\ UNCHANGED <<clientVars, connVars, want, signed, recordVars, clearing, faults>>

(* A known machine: its connection is disposed of *)
SignEvict(k) ==
    /\ spc[k] = "evict" /\ ref[k] # None
    /\ LET c == oconn[ref[k]]
       IN  IF c = None THEN UNCHANGED <<link, sup>>
           ELSE link' = Closed(link, c) /\ sup' = Closed(sup, c)
    /\ spc' = [spc EXCEPT ![k] = "install"]
    /\ UNCHANGED <<clientVars, cup, owner, asked, ref, want, signed, recordVars, clearing, faults>>

(* A new machine: Insert and TryAdd.  The id is the primary key of the store:
   a second Insert throws, and the request stays without a reply. *)
SignInsert(k, o) ==
    /\ spc[k] = "evict" /\ ref[k] = None
    /\ LET m == MachineOf[owner[k]]
       IN  IF stored[m] # None
           THEN /\ spc' = [spc EXCEPT ![k] = "none"]
                /\ UNCHANGED <<ref, recordVars>>
           ELSE /\ Free(o)
                /\ stored' = [stored EXCEPT ![m] = [key |-> None, group |-> None]]
                /\ clients' = IF Listed(m) THEN clients ELSE [clients EXCEPT ![m] = o]
                /\ oconn' = [oconn EXCEPT ![o] = None]
                /\ okey' = [okey EXCEPT ![o] = None]
                /\ ogroup' = [ogroup EXCEPT ![o] = None]
                /\ old' = old \ {o}
                /\ ref' = [ref EXCEPT ![k] = o]
                /\ spc' = [spc EXCEPT ![k] = "install"]
    /\ UNCHANGED <<clientVars, connVars, want, signed, clearing, faults>>

(* The fields of the record, and Update, which touches stored records only *)
SignInstall(k) ==
    /\ spc[k] = "install"
    /\ LET m == MachineOf[owner[k]]
       IN  stored' = IF stored[m] = None THEN stored
                     ELSE [stored EXCEPT ![m] = [key |-> owner[k], group |-> want[k]]]
    /\ oconn' = [oconn EXCEPT ![ref[k]] = k]
    /\ okey' = [okey EXCEPT ![ref[k]] = owner[k]]
    /\ ogroup' = [ogroup EXCEPT ![ref[k]] = want[k]]
    /\ signed' = [signed EXCEPT ![k] = TRUE]
    /\ ref' = [ref EXCEPT ![k] = None]
    /\ spc' = [spc EXCEPT ![k] = "ok"]
    /\ UNCHANGED <<clientVars, connVars, want, clients, old, clearing, faults>>

(* The reply of a sign-in nobody waits for any more goes nowhere. *)
ReplyLost(k) ==
    /\ spc[k] \in {"ok", "refused"}
    /\ ~link[k]
    /\ spc' = [spc EXCEPT ![k] = "none"]
    /\ UNCHANGED <<clientVars, connVars, ref, want, signed, recordVars, clearing, faults>>

------------------------------------------------------------------------------
(* SignInMessenger.Delete: a signed-in machine removes one of its own group;
   the connection of the removed machine stays as it is. *)
DeleteKeepsStored(k, m) ==      \* mutant: the store is not told
    /\ signed[k] /\ link[k] /\ sup[k]
    /\ Listed(MachineOf[owner[k]]) /\ Listed(m)
    /\ Fault
    /\ clients' = [clients EXCEPT ![m] = None]
    /\ UNCHANGED <<clientVars, connVars, handlerVars, oconn, okey, ogroup, old,
                   stored, clearing>>

Delete(k, m) ==
    /\ signed[k] /\ link[k] /\ sup[k]
    /\ Listed(MachineOf[owner[k]]) /\ Listed(m)
    /\ ogroup[clients[MachineOf[owner[k]]]] = ogroup[clients[m]]
    /\ Fault
    /\ clients' = [clients EXCEPT ![m] = None]
    /\ stored' = [stored EXCEPT ![m] = None]
    /\ UNCHANGED <<clientVars, connVars, handlerVars, oconn, okey, ogroup, old,
                   clearing>>

(* Days pass for the records that are not online. *)
Age(o) ==
    /\ o \notin old /\ ~Online(o)
    /\ \E m \in Machines : clients[m] = o
    /\ Fault
    /\ old' = old \cup {o}
    /\ UNCHANGED <<clientVars, connVars, handlerVars, clients, oconn, okey,
                   ogroup, stored, clearing>>

(* ClearTask first picks the groups all of whose records are offline and old
   and then removes every record of these groups. *)
InGroup(m, g) == Listed(m) /\ ogroup[clients[m]] = g

ClearPick ==
    /\ clearing = {}
    /\ clearing' = {g \in Groups \cup {None} :
           /\ \E m \in Machines : InGroup(m, g)
           /\ \A m \in Machines :
                  InGroup(m, g) => ~Online(clients[m]) /\ clients[m] \in old}
    /\ clearing' # {}
    /\ UNCHANGED <<clientVars, connVars, handlerVars, recordVars, faults>>

ClearRemove ==
    /\ clearing # {}
    /\ LET gone == {m \in Machines : \E g \in clearing : InGroup(m, g)}
       IN  /\ clients' = [m \in Machines |-> IF m \in gone THEN None ELSE clients[m]]
           /\ stored' = [m \in Machines |-> IF m \in gone THEN None ELSE stored[m]]
    /\ clearing' = {}
    /\ UNCHANGED <<clientVars, connVars, handlerVars, oconn, okey, ogroup, old, faults>>

(* The server stops and starts again: connections and handlers are gone, the
   records come back from the store. *)
Restart ==
    /\ Fault
    /\ link' = [k \in Conns |-> FALSE]
    /\ sup' = [k \in Conns |-> FALSE]
    /\ asked' = [k \in Conns |-> None]
    /\ spc' = [k \in Conns |-> "none"]
    /\ ref' = [k \in Conns |-> None]
    /\ want' = [k \in Conns |-> None]
    /\ signed' = [k \in Conns |-> FALSE]
    /\ LET back == {m \in Machines : stored[m] # None}
       IN  /\ clients' = [m \in Machines |-> IF m \in back THEN m ELSE None]
           /\ okey' = [o \in Objs |-> IF o \in back THEN stored[o].key ELSE None]
           /\ ogroup' = [o \in Objs |-> IF o \in back THEN stored[o].group ELSE None]
           /\ old' = {m \in back : clients[m] \in old}
    /\ oconn' = [o \in Objs |-> None]
    /\ clearing' = {}
    /\ UNCHANGED <<clientVars, cup, owner, stored>>

Handler(k) ==
    \/ SignLookUp(k) \/ SignValidate(k) \/ SignEvict(k)
    \/ \E o \in Objs : SignInsert(k, o)
    \/ SignInstall(k) \/ ReplyLost(k)

Client(p) ==
    \/ \E k \in Conns : ClientSignIn(p, k)
    \/ ClientAccepted(p) \/ ClientRefused(p) \/ ClientTimeout(p)
    \/ ClientFinish(p) \/ ClientExp(p)

Next ==
    \/ \E p \in Peers : Client(p) \/ \E g \in Groups : ReSignIn(p, g)
    \/ \E k \in Conns : \/ Handler(k)
                        \/ ClientEndDown(k) \/ ServerEndDown(k)
                        \/ NetworkFailure(k)
                        \/ \E m \in Machines : Delete(k, m)
    \/ \E o \in Objs : Age(o)
    \/ ClearPick \/ ClearRemove \/ Restart

Spec == Init /\ [][Next]_vars

(* The timers of both programs fire and their continuations run; nothing
   makes faults happen. *)
FairSpec ==
    /\ Spec
    /\ \A p \in Peers : WF_vars(Client(p))
    /\ \A k \in Conns : WF_vars(Handler(k)) /\ WF_vars(ClientEndDown(k))
                                            /\ WF_vars(ServerEndDown(k))
------------------------------------------------------------------------------
TypeOK ==
    /\ cpc \in [Peers -> {"idle", "waiting", "signed"}]
    /\ cconn \in [Peers -> Conns \cup {None}]
    /\ pend \in [Peers -> Conns \cup {None}]
    /\ cfg \in [Peers -> Groups]
    /\ link \in [Conns -> BOOLEAN]
    /\ cup \in [Conns -> BOOLEAN]
    /\ sup \in [Conns -> BOOLEAN]
    /\ owner \in [Conns -> Peers \cup {None}]
    /\ asked \in [Conns -> Groups \cup {None}]
    /\ spc \in [Conns -> {"none", "validate", "evict", "install", "ok", "refused"}]
    /\ ref \in [Conns -> Objs \cup {None}]
    /\ want \in [Conns -> Groups \cup {None}]
    /\ signed \in [Conns -> BOOLEAN]
    /\ clients \in [Machines -> Objs \cup {None}]
    /\ oconn \in [Objs -> Conns \cup {None}]
    /\ okey \in [Objs -> Peers \cup {None}]
    /\ ogroup \in [Objs -> Groups \cup {None}]
    /\ old \subseteq Objs
    /\ stored \in [Machines -> Records \cup {None}]
    /\ clearing \subseteq Groups \cup {None}
    /\ \A p \in Peers : cpc[p] = "waiting" <=> pend[p] # None
    /\ \A k \in Conns : spc[k] = "install" => ref[k] # None
    /\ \A k \in Conns : asked[k] # None \/ spc[k] # "none" => owner[k] # None
    /\ faults \in 0..MaxFaults

(* The records in memory and the records in the store are of the same
   machines, across racing sign-ins, removals, cleaning and restarts: a
   machine is never lost by a restart and never comes back from one. *)
CacheMatchesStore == \A m \in Machines : Listed(m) <=> stored[m] # None

(* What others send to a machine through its record reaches a program
   configured as that machine (SignInServerCaching.TryGet, then
   SignCacheInfo.Connection). *)
RoutesToMachine ==
    \A m \in Machines :
        Listed(m) /\ Online(clients[m]) => MachineOf[owner[oconn[clients[m]]]] = m

(* A client whose connection works believes in it only after the server
   installed it: signed in for the client means signed in on the server, on
   the same connection, for as long as it lasts. *)
BeliefIsFounded ==
    \A p \in Peers :
        Connected(p) /\ link[cconn[p]] => signed[cconn[p]] /\ owner[cconn[p]] = p

(* When the faults are over a client nobody refuses gets connected and stays
   so: no interleaving of timeouts, late handlers, evictions and restarts
   leaves the timer unable to sign in. *)
SelfHeals ==
    \A p \in Peers \ Refused :
        <>[](Connected(p) /\ link[cconn[p]] /\ signed[cconn[p]])

(* "Only a machine that is signed in already cannot sign in again": a live
   machine is not pushed off its record by a program with another key. *)
NoTakeover ==
    [][\A m \in Machines :
          LET o == clients[m]
          IN  o # None /\ oconn[o] # None /\ link[oconn[o]] /\ sup[oconn[o]]
              => \A k \in Conns :
                     spc[k] = "evict" /\ spc'[k] = "install" /\ ref[k] = o
                     => okey[o] \in {None, owner[k]}]_vars
===============================================================================
