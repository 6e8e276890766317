-------------------------------- MODULE Decenter --------------------------------
(***************************************************************************)
(* How the machines of a group learn each other's settings: the            *)
(* DecenterClientTransfer of every client and the DecenterServerMessenger  *)
(* of the server, for one kind of data (one IDecenter).                    *)
(*                                                                         *)
(* A change raises PushVersion; the 300 ms loop sends the data to the      *)
(* server, which keeps it and notifies the group, and then pulls what the  *)
(* server holds of the others.  A 30 s loop asks whether the server still  *)
(* has the data.  Data is a version number: how often its machine has      *)
(* changed it.                                                             *)
(*                                                                         *)
(* A connection carries its messages in order in each direction and its    *)
(* handlers run one after the other; handlers of different connections     *)
(* run at once.  A handler whose connection breaks is over before the      *)
(* machine is signed in again.  Signing in is that of SignIn, in short.    *)
(***************************************************************************)
EXTENDS Naturals, Sequences

CONSTANTS
    Machines, Groups, None,
    MaxEdits,       \* bound on the changes of each machine's data
    MaxFaults       \* bound on disconnections, restarts, slow replies and
                    \* changes of the group

ASSUME BoundsAreNaturals == MaxEdits \in Nat /\ MaxFaults \in Nat

Versions == 0..MaxEdits \cup {None}
Lists == [Machines -> Versions]
PullReplies == [type : {"pulled"}, ok : BOOLEAN, list : Lists]

ASSUME NoneIsNothing == None \notin Groups \cup Nat \cup Lists \cup PullReplies

VARIABLES
    \* the clients
    data,       \* what GetData returns
    dirty,      \* PushVersion > 0
    cfg,        \* the configured group
    seen,       \* the group stringChangedManager saw last
    known,      \* what AddData left: machine -> machine -> version
    pc,         \* where the 300 ms loop is
    pulled,     \* the reply to Pull, not yet applied
    \* the connection of each machine: "off", "client" once the server and the
    \* client have it, "on" after OnSignInSuccess
    con,
    toServer, toClient,
    \* the server
    sg,         \* SignCacheInfo.GroupId
    named,      \* decenters holds the name
    store,      \* DecenterCacheInfo.Data: machine -> version
    reply,      \* the reply a Pull handler has computed
    removing,   \* the machines ClearTask has found disconnected
    faults

loopVars == <<pc, pulled>>
clientVars == <<data, dirty, cfg, seen, known, loopVars>>
netVars == <<con, toServer, toClient>>
serverVars == <<sg, named, store, reply, removing>>
vars == <<clientVars, netVars, serverVars, faults>>

Nothing == [n \in Machines |-> None]

Init ==
    /\ data = [m \in Machines |-> 0]
    /\ dirty = [m \in Machines |-> FALSE]
    /\ cfg \in [Machines -> Groups]
    /\ seen = [m \in Machines |-> None]
    /\ known = [m \in Machines |-> Nothing]
    /\ pc = [m \in Machines |-> "idle"]
    /\ pulled = [m \in Machines |-> None]
    /\ con = [m \in Machines |-> "off"]
    /\ toServer = [m \in Machines |-> <<>>]
    /\ toClient = [m \in Machines |-> <<>>]
    /\ sg = [m \in Machines |-> None]
    /\ named = FALSE
    /\ store = Nothing
    /\ reply = [m \in Machines |-> None]
    /\ removing = {}
    /\ faults = 0

------------------------------------------------------------------------------
Connected(m) == con[m] # "off"

(* SignInServerCaching.Get(signin) and SameGroup *)
SameGroup(m, n) == sg[m] = sg[n]

Fault == faults < MaxFaults /\ faults' = faults + 1

Send(m, msg) == toServer' = [toServer EXCEPT ![m] = Append(@, msg)]

Goto(m, l) == pc' = [pc EXCEPT ![m] = l]

(* PushVersion.Increment *)
Refresh(m) == dirty' = [dirty EXCEPT ![m] = TRUE]

(* AddData of a list keeps what the list does not hold. *)
Merge(old, new) == [n \in Machines |-> IF new[n] = None THEN old[n] ELSE new[n]]

Has(s, type) == \E i \in DOMAIN s : s[i].type = type

(* Of a type that a queue holds once at most. *)
Without(s, type) ==
    LET at == CHOOSE i \in DOMAIN s : s[i].type = type
    IN  IF ~Has(s, type) THEN s
        ELSE [i \in 1..(Len(s) - 1) |-> IF i < at THEN s[i] ELSE s[i + 1]]

------------------------------------------------------------------------------
(* The data changes and is to be pushed. *)
Edit(m) ==
    /\ data[m] < MaxEdits
    /\ data' = [data EXCEPT ![m] = @ + 1]
    /\ Refresh(m)
    /\ UNCHANGED <<cfg, seen, known, loopVars, netVars, serverVars, faults>>

(* SetGroups does not sign in anew: the server goes on with the old group
   until the next connection. *)
SetGroup(m, g) ==
    /\ g # cfg[m]
    /\ Fault
    /\ cfg' = [cfg EXCEPT ![m] = g]
    /\ UNCHANGED <<data, dirty, seen, known, loopVars, netVars, serverVars>>

(* One round of the 300 ms loop: ClearData if the group has changed, then
   Restore takes the version back to 0. *)
Restore(m) ==
    /\ pc[m] = "idle" /\ Connected(m)
    /\ dirty[m] \/ seen[m] # cfg[m]
    /\ seen' = [seen EXCEPT ![m] = cfg[m]]
    /\ known' = IF seen[m] = cfg[m] THEN known ELSE [known EXCEPT ![m] = Nothing]
    /\ dirty' = [dirty EXCEPT ![m] = FALSE]
    /\ Goto(m, "push")
    /\ UNCHANGED <<data, cfg, pulled, netVars, serverVars, faults>>

(* GetData and SendOnly.  That GetData adds the data to the local list is left
   out: known is of the others. *)
Push(m) ==
    /\ pc[m] = "push"
    /\ IF Connected(m)
       THEN Send(m, [type |-> "push", val |-> data[m]])
       ELSE UNCHANGED toServer
    /\ Goto(m, "pull")
    /\ UNCHANGED <<data, dirty, cfg, seen, known, pulled, con, toClient,
                   serverVars, faults>>

Pull(m) ==
    /\ pc[m] = "pull"
    /\ IF Connected(m)
       THEN Send(m, [type |-> "pull"]) /\ Goto(m, "wait") /\ UNCHANGED dirty
       ELSE Refresh(m) /\ Goto(m, "idle") /\ UNCHANGED toServer
    /\ UNCHANGED <<data, cfg, seen, known, pulled, con, toClient,
                   serverVars, faults>>

(* The pulls of all kinds of data are awaited before any is applied. *)
Apply(m) ==
    /\ pc[m] = "apply"
    /\ known' = [known EXCEPT ![m] = Merge(@, pulled[m])]
    /\ pulled' = [pulled EXCEPT ![m] = None]
    /\ Goto(m, "idle")
    /\ UNCHANGED <<data, dirty, cfg, seen, netVars, serverVars, faults>>

(* No reply within 3 s.  A reply that comes later finds nobody. *)
PullLost(m) ==
    /\ ~Has(toServer[m], "pull") /\ ~Has(toClient[m], "pulled")
    /\ reply[m] = None

PullTimeoutQuiet(m) ==      \* mutant: a failed pull is not repeated
    /\ pc[m] = "wait"
    /\ IF PullLost(m) THEN UNCHANGED faults ELSE Fault
    /\ toServer' = [toServer EXCEPT ![m] = Without(@, "pull")]
    /\ toClient' = [toClient EXCEPT ![m] = Without(@, "pulled")]
    /\ reply' = [reply EXCEPT ![m] = None]
    /\ Goto(m, "idle")
    /\ UNCHANGED <<data, dirty, cfg, seen, known, pulled, con, sg, named,
                   store, removing>>

PullTimeoutLate(m) ==       \* mutant: the timer is not stopped by the reply
    /\ pc[m] \in {"wait", "apply"}
    /\ IF PullLost(m) THEN UNCHANGED faults ELSE Fault
    /\ toServer' = [toServer EXCEPT ![m] = Without(@, "pull")]
    /\ toClient' = [toClient EXCEPT ![m] = Without(@, "pulled")]
    /\ reply' = [reply EXCEPT ![m] = None]
    /\ Refresh(m)
    /\ Goto(m, "idle")
    /\ UNCHANGED <<data, cfg, seen, known, pulled, con, sg, named,
                   store, removing>>

PullTimeout(m) ==
    /\ pc[m] = "wait"
    /\ IF PullLost(m) THEN UNCHANGED faults ELSE Fault
    /\ toServer' = [toServer EXCEPT ![m] = Without(@, "pull")]
    /\ toClient' = [toClient EXCEPT ![m] = Without(@, "pulled")]
    /\ reply' = [reply EXCEPT ![m] = None]
    /\ Refresh(m)
    /\ Goto(m, "idle")
    /\ UNCHANGED <<data, cfg, seen, known, pulled, con, sg, named,
                   store, removing>>

(* CheckData of the 30 s loop, the handler and its answer.  An answer that is
   late is as good as one of another round. *)
CheckQuiet(m) ==        \* mutant: the answer is not looked at
    /\ Connected(m) /\ store[m] = None
    /\ UNCHANGED vars

Check(m) ==
    /\ Connected(m) /\ store[m] = None
    /\ Refresh(m)
    /\ UNCHANGED <<data, cfg, seen, known, loopVars, netVars, serverVars, faults>>

------------------------------------------------------------------------------
(* The receiving loop of a client *)
Received(m, type) == toClient[m] # <<>> /\ Head(toClient[m]).type = type
Receive(m) == toClient' = [toClient EXCEPT ![m] = Tail(@)]

Notify(m) ==
    /\ Received(m, "notify")
    /\ LET msg == Head(toClient[m])
       IN  known' = [known EXCEPT ![m][msg.from] = msg.val]
    /\ Receive(m)
    /\ UNCHANGED <<data, dirty, cfg, seen, loopVars, con, toServer,
                   serverVars, faults>>

(* The result of SendReply for Pull; FalseArray is a failure. *)
PullDone(m) ==
    /\ Received(m, "pulled")
    /\ LET msg == Head(toClient[m])
       IN  IF msg.ok
           THEN /\ pulled' = [pulled EXCEPT ![m] = msg.list]
                /\ Goto(m, "apply")
                /\ UNCHANGED dirty
           ELSE Refresh(m) /\ Goto(m, "idle") /\ UNCHANGED pulled
    /\ Receive(m)
    /\ UNCHANGED <<data, cfg, seen, known, con, toServer, serverVars, faults>>

------------------------------------------------------------------------------
(* The handlers of the server *)
Requested(m, type) ==
    toServer[m] # <<>> /\ reply[m] = None /\ Head(toServer[m]).type = type
Take(m) == toServer' = [toServer EXCEPT ![m] = Tail(@)]

(* Keep the data under the lock, then notify the group. *)
ServePush(m) ==
    /\ Requested(m, "push")
    /\ LET v == Head(toServer[m]).val
           others == {n \in Machines \ {m} : Connected(n) /\ SameGroup(m, n)}
           notify == [type |-> "notify", from |-> m, val |-> v]
       IN  /\ store' = [store EXCEPT ![m] = v]
           /\ toClient' = [n \in Machines |->
                  IF n \in others THEN Append(toClient[n], notify) ELSE toClient[n]]
    /\ named' = TRUE
    /\ Take(m)
    /\ UNCHANGED <<clientVars, con, sg, reply, removing, faults>>

(* What the others of the group pushed; other handlers run before the reply
   is written. *)
ServePull(m) ==
    /\ Requested(m, "pull")
    /\ LET list == [n \in Machines |->
                       IF n # m /\ SameGroup(m, n) THEN store[n] ELSE None]
       IN  reply' = [reply EXCEPT ![m] = [type |-> "pulled", ok |-> named, list |-> list]]
    /\ Take(m)
    /\ UNCHANGED <<clientVars, con, toClient, sg, named, store, removing, faults>>

ReplyPull(m) ==
    /\ reply[m] # None
    /\ toClient' = [toClient EXCEPT ![m] = Append(@, reply[m])]
    /\ reply' = [reply EXCEPT ![m] = None]
    /\ UNCHANGED <<clientVars, con, toServer, sg, named, store, removing, faults>>

(* ClearTask looks for disconnected machines, then removes their data. *)
ClearFind ==
    /\ removing = {}
    /\ removing' = {m \in Machines : store[m] # None /\ ~Connected(m)}
    /\ removing' # {}
    /\ UNCHANGED <<clientVars, netVars, sg, named, store, reply, faults>>

ClearRemove ==
    /\ removing # {}
    /\ store' = [m \in Machines |-> IF m \in removing THEN None ELSE store[m]]
    /\ removing' = {}
    /\ UNCHANGED <<clientVars, netVars, sg, named, reply, faults>>

------------------------------------------------------------------------------
(* The connection: what is under way is lost with it. *)
SignIn(m) ==
    /\ con[m] = "off"
    /\ con' = [con EXCEPT ![m] = "client"]
    /\ sg' = [sg EXCEPT ![m] = cfg[m]]
    /\ UNCHANGED <<clientVars, toServer, toClient, named, store, reply, removing, faults>>

OnSignInSuccessQuiet(m) ==      \* mutant: signing in raises no version
    /\ con[m] = "client"
    /\ con' = [con EXCEPT ![m] = "on"]
    /\ UNCHANGED <<clientVars, toServer, toClient, serverVars, faults>>

OnSignInSuccess(m) ==
    /\ con[m] = "client"
    /\ con' = [con EXCEPT ![m] = "on"]
    /\ Refresh(m)
    /\ UNCHANGED <<data, cfg, seen, known, loopVars, toServer, toClient,
                   serverVars, faults>>

Disconnect(ms) ==
    /\ con' = [m \in Machines |-> IF m \in ms THEN "off" ELSE con[m]]
    /\ toServer' = [m \in Machines |-> IF m \in ms THEN <<>> ELSE toServer[m]]
    /\ toClient' = [m \in Machines |-> IF m \in ms THEN <<>> ELSE toClient[m]]
    /\ reply' = [m \in Machines |-> IF m \in ms THEN None ELSE reply[m]]

Drop(m) ==
    /\ Connected(m)
    /\ Fault
    /\ Disconnect({m})
    /\ UNCHANGED <<clientVars, sg, named, store, removing>>

(* The server keeps the data in memory only. *)
Restart ==
    /\ Fault
    /\ Disconnect(Machines)
    /\ named' = FALSE
    /\ store' = Nothing
    /\ removing' = {}
    /\ UNCHANGED <<clientVars, sg>>

Loop(m) ==
    Restore(m) \/ Push(m) \/ Pull(m) \/ Apply(m) \/ PullTimeout(m)
Client(m) == Notify(m) \/ PullDone(m)
Server(m) == ServePush(m) \/ ServePull(m) \/ ReplyPull(m)
Connect(m) == SignIn(m) \/ OnSignInSuccess(m)

Next ==
    \/ \E m \in Machines :
           \/ Loop(m) \/ Check(m) \/ Client(m) \/ Server(m) \/ Connect(m)
           \/ Edit(m) \/ Drop(m)
           \/ \E g \in Groups : SetGroup(m, g)
    \/ ClearFind \/ ClearRemove \/ Restart

Spec == Init /\ [][Next]_vars

(* Timers fire, handlers run, a disconnected client signs in again (SignIn
   shows that it does).  Changes and faults need not happen. *)
Fairness ==
    /\ \A m \in Machines :
           /\ WF_vars(Loop(m)) /\ WF_vars(Check(m)) /\ WF_vars(Client(m))
           /\ WF_vars(Server(m)) /\ WF_vars(Connect(m))
    /\ WF_vars(ClearRemove)

FairSpec == Spec /\ Fairness
------------------------------------------------------------------------------
Requests == [type : {"push"}, val : 0..MaxEdits] \cup [type : {"pull"}]
Answers ==
    [type : {"notify"}, from : Machines, val : 0..MaxEdits]
        \cup PullReplies

TypeOK ==
    /\ data \in [Machines -> 0..MaxEdits]
    /\ dirty \in [Machines -> BOOLEAN]
    /\ cfg \in [Machines -> Groups]
    /\ seen \in [Machines -> Groups \cup {None}]
    /\ known \in [Machines -> Lists]
    /\ pc \in [Machines -> {"idle", "push", "pull", "wait", "apply"}]
    /\ pulled \in [Machines -> Lists \cup {None}]
    /\ \A m \in Machines : pc[m] = "apply" <=> pulled[m] # None
    /\ con \in [Machines -> {"off", "client", "on"}]
    /\ toServer \in [Machines -> Seq(Requests)]
    /\ toClient \in [Machines -> Seq(Answers)]
    /\ sg \in [Machines -> Groups \cup {None}]
    /\ named \in BOOLEAN
    /\ store \in Lists
    /\ reply \in [Machines -> PullReplies \cup {None}]
    /\ removing \subseteq Machines
    /\ faults \in 0..MaxFaults

(* A client that owes nothing has its latest data on the server, or none of
   it, which Check finds out: whatever is lost with a connection, a timed-out
   pull or a restart, the server never keeps an outdated version for good. *)
NeverOutdated ==
    \A m \in Machines :
        con[m] = "on" /\ pc[m] = "idle" /\ ~dirty[m] => store[m] \in {None, data[m]}

(* In the end the server has the latest data of every machine, although
   ClearTask may remove it just as its machine comes back. *)
Published == \A m \in Machines : <>[](store[m] = data[m])

(* In the end the machines of a group know each other, whatever the order of
   their sign-ins, pushes, pulls and changes of the group. *)
Discovers ==
    \A m \in Machines : \A n \in Machines \ {m} :
        <>[](SameGroup(m, n) /\ seen[m] = sg[m] => known[m][n] # None)

(* "Synchronised when the version changes": in the end they know the latest. *)
Converges ==
    \A m \in Machines : \A n \in Machines \ {m} :
        <>[](SameGroup(m, n) => known[m][n] = data[n])
===============================================================================
