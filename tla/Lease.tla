--------------------------------- MODULE Lease ---------------------------------
(***************************************************************************)
(* The server's allocation of virtual addresses for one group:             *)
(* LeaseServerTreansfer.  Users lease an address of the configured         *)
(* network, a chosen one (static) or any (dynamic); administrators change  *)
(* the network; unused leases and networks expire.                         *)
(*                                                                         *)
(* LeaseIP looks its user up and renews or removes the old lease without   *)
(* the lock; only the allocation itself holds it.  AddNetwork holds no     *)
(* lock at all, so each of its assignments may fall between any two steps  *)
(* of a LeaseIP.  The list of leases, a List<T>, is also written by two    *)
(* threads at once: an Add made while another user's Remove is in progress *)
(* may be lost.                                                            *)
(*                                                                         *)
(* An address is a number; a network is one of its addresses and a size, a *)
(* power of two.  A user runs one LeaseIP at a time (one connection).      *)
(***************************************************************************)
EXTENDS Naturals, FiniteSets, FiniteSetsExt

CONSTANTS
    Users, Admins,
    Networks,       \* the values administrators set: records [ip, size]
    Requests,       \* the addresses users ask for, besides AnyIP
    AnyIP, None,
    StaticDays,     \* a lease older than this gives way to a static request
    IPDays,         \* ... to a dynamic request when no address is idle
    MaxDays,        \* NetworkDays, the age that removes a network
    Overlap         \* may an AddNetwork overlap requests of users?

ASSUME AgesOrdered == StaticDays \in Nat /\ IPDays \in Nat /\ MaxDays \in Nat
ASSUME OverlapIsBoolean == Overlap \in BOOLEAN
ASSUME NetworksAreBlocks == Networks \subseteq [ip : Nat \ {0}, size : Nat \ {0}]
ASSUME RequestsAreAddresses == Requests \subseteq Nat
ASSUME NoneIsNothing == None \notin Nat \cup Users \cup [ip : Nat, size : Nat]

VARIABLES
    net,        \* IP and PrefixValue of the LeaseCacheInfo; None when absent
    lease,      \* Users of the LeaseCacheInfo: user -> address or None
    age,        \* days since LastTime of each lease
    netAge,     \* days since LastTime of the network
    saved,      \* what the store holds: net and lease
    pc,         \* where each user's LeaseIP is
    req,        \* the address asked for
    val,        \* the address computed and not yet written
    added,      \* during a Remove: the users whose Add ran meanwhile
    lock,       \* the user that holds lock (cache)
    apc,        \* where each AddNetwork is
    target,     \* the network it sets
    before      \* oldIP and oldPrefix

cacheVars == <<net, lease, age, netAge>>
userVars == <<pc, req, val, added, lock>>
adminVars == <<apc, target, before>>
vars == <<cacheVars, saved, userVars, adminVars>>

NoLeases == [u \in Users |-> None]
Unset == [ip |-> 0, size |-> 0]     \* a LeaseCacheInfo not yet configured

Init ==
    /\ net = None
    /\ lease = NoLeases
    /\ age = [u \in Users |-> 0]
    /\ netAge = 0
    /\ saved = [net |-> None, lease |-> NoLeases]
    /\ pc = [u \in Users |-> "idle"]
    /\ req = [u \in Users |-> AnyIP]
    /\ val = [u \in Users |-> None]
    /\ added = [u \in Users |-> {}]
    /\ lock = None
    /\ apc = [a \in Admins |-> "idle"]
    /\ target = [a \in Admins |-> None]
    /\ before = [a \in Admins |-> None]

------------------------------------------------------------------------------
(* NetworkHelper: ToNetworkValue, ToBroadcastValue and the host part moved
   into the network, value & ~prefix | network.  A prefix that is not set yet
   keeps the whole value. *)
Network(n) == n.ip - (n.ip % n.size)
Broadcast(n) == Network(n) + n.size - 1
RebaseAdds(a, n) == IF n.size = 0 THEN a ELSE Network(n) + a  \* mutant: host part not masked

Rebase(a, n) == IF n.size = 0 THEN a ELSE Network(n) + (a % n.size)

(* The addresses DynamicIP enumerates *)
DynamicRange(n) ==
    LET first == Network(n) + 1 + 1
        last == Broadcast(n) - 1
        length == last - Network(n)
    IN  first .. (first + length)

Taken == {lease[u] : u \in Users} \ {None}
HoldersOf(a) == {u \in Users : lease[u] = a}

(* What the store holds after Update *)
Save(n, l) == saved' = [net |-> n, lease |-> l]

(* No AddNetwork, no LeaseIP is half done. *)
Quiet == \A a \in Admins : apc[a] = "idle"
AllIdle == \A u \in Users : pc[u] = "idle"

Finish(u) == pc' = [pc EXCEPT ![u] = "idle"]

------------------------------------------------------------------------------
(* LeaseIP: without a network the request comes back as it was. *)
LeaseIP(u, r) ==
    /\ pc[u] = "idle" /\ net # None
    /\ Overlap \/ Quiet
    /\ pc' = [pc EXCEPT ![u] = "find"]
    /\ req' = [req EXCEPT ![u] = r]
    /\ netAge' = 0
    /\ UNCHANGED <<net, lease, age, saved, val, added, lock, adminVars>>

(* The user's lease exists and is asked for: renew it.  The address is
   computed from the network read now and written in the next step. *)
FindRenew(u) ==
    /\ pc[u] = "find"
    /\ lease[u] # None
    /\ req[u] \in {lease[u], AnyIP}
    /\ val' = [val EXCEPT ![u] = Rebase(lease[u], net)]
    /\ pc' = [pc EXCEPT ![u] = "renew"]
    /\ age' = [age EXCEPT ![u] = 0]
    /\ UNCHANGED <<net, lease, netAge, saved, req, added, lock, adminVars>>

RenewWrite(u) ==
    /\ pc[u] = "renew"
    /\ lease' = IF lease[u] = None THEN lease ELSE [lease EXCEPT ![u] = val[u]]
    /\ Finish(u)
    /\ UNCHANGED <<net, age, netAge, saved, req, val, added, lock, adminVars>>

(* It exists and another address is asked for: Users.Remove begins *)
FindOther(u) ==
    /\ pc[u] = "find"
    /\ lease[u] # None
    /\ req[u] \notin {lease[u], AnyIP}
    /\ pc' = [pc EXCEPT ![u] = "remove"]
    /\ added' = [added EXCEPT ![u] = {}]
    /\ UNCHANGED <<cacheVars, saved, req, val, lock, adminVars>>

(* ... and ends; one Add that ran meanwhile may be overwritten. *)
RemoveSelf(u) ==
    /\ pc[u] = "remove"
    /\ \E lost \in {{}} \cup {{v} : v \in added[u]} :
           lease' = [v \in Users |-> IF v \in lost \cup {u} THEN None ELSE lease[v]]
    /\ pc' = [pc EXCEPT ![u] = "lock"]
    /\ added' = [added EXCEPT ![u] = {}]
    /\ UNCHANGED <<net, age, netAge, saved, req, val, lock, adminVars>>

FindNone(u) ==
    /\ pc[u] = "find"
    /\ lease[u] = None
    /\ pc' = [pc EXCEPT ![u] = "lock"]
    /\ UNCHANGED <<cacheVars, saved, req, val, added, lock, adminVars>>

Lock(u) ==
    /\ pc[u] = "lock" /\ lock = None
    /\ lock' = u
    /\ pc' = [pc EXCEPT ![u] = "pick"]
    /\ UNCHANGED <<cacheVars, saved, req, val, added, adminVars>>

(* The lock is held: DynamicIP or StaticIP decides on an address and takes
   it from the holder it has expired for.  While the prefix is not set, the
   enumeration of DynamicIP throws, and no reply is sent. *)
Evict(vs) == lease' = [v \in Users |-> IF v \in vs THEN None ELSE lease[v]]

Settle(u, a, evicted) ==
    /\ val' = [val EXCEPT ![u] = a]
    /\ Evict(evicted)
    /\ pc' = [pc EXCEPT ![u] = "add"]
    /\ UNCHANGED <<net, age, netAge, saved, req, added, lock, adminVars>>

(* Allocation failed: the request comes back as it was. *)
Fail(u) ==
    /\ lock' = None
    /\ Finish(u)
    /\ UNCHANGED <<cacheVars, saved, req, val, added, adminVars>>

PickUnset(u) ==
    /\ pc[u] = "pick" /\ req[u] = AnyIP /\ net.size = 0
    /\ Fail(u)

StealAny(u) ==      \* mutant: the age of the lease is not looked at
    /\ pc[u] = "pick" /\ req[u] = AnyIP /\ net.size # 0
    /\ LET idle == DynamicRange(net) \ Taken
           expired == {v \in Users : lease[v] # None}
       IN  IF idle # {} THEN Settle(u, Min(idle), {})
           ELSE IF expired = {} THEN Fail(u)
           ELSE \E v \in expired : Settle(u, lease[v], {v})

DynamicIP(u) ==
    /\ pc[u] = "pick" /\ req[u] = AnyIP /\ net.size # 0
    /\ LET idle == DynamicRange(net) \ Taken
           expired == {v \in Users : lease[v] # None /\ age[v] > IPDays}
           oldest == {v \in expired : \A w \in expired : age[w] <= age[v]}
       IN  IF idle # {} THEN Settle(u, Min(idle), {})
           ELSE IF expired = {} THEN Fail(u)
           ELSE \E v \in oldest : Settle(u, lease[v], {v})

StaticAnyway(u) ==      \* mutant: the address is given although it is in use
    /\ pc[u] = "pick" /\ req[u] # AnyIP
    /\ LET a == Rebase(req[u], net)
           others == HoldersOf(a) \ {u}
       IN  Settle(u, a, {v \in others : age[v] > StaticDays})

StaticIP(u) ==
    /\ pc[u] = "pick" /\ req[u] # AnyIP
    /\ LET a == Rebase(req[u], net)
           others == HoldersOf(a) \ {u}
       IN  IF others = {} THEN Settle(u, a, {})
           ELSE \E v \in others :
                    IF age[v] > StaticDays THEN Settle(u, a, {v}) ELSE Fail(u)

AddUser(u) ==
    /\ pc[u] = "add"
    /\ lease' = [lease EXCEPT ![u] = val[u]]
    /\ age' = [age EXCEPT ![u] = 0]
    /\ Save(net, lease')
    /\ added' = [v \in Users |-> IF pc[v] = "remove" THEN added[v] \cup {u} ELSE added[v]]
    /\ lock' = None
    /\ Finish(u)
    /\ UNCHANGED <<net, netAge, req, val, adminVars>>

(* A LeaseIP whose LeaseCacheInfo was removed goes on in an object nobody
   looks at. *)
Orphaned(u) ==
    /\ pc[u] = "orphan"
    /\ Finish(u)
    /\ UNCHANGED <<cacheVars, saved, req, val, added, lock, adminVars>>

(* LeaseExp, every minute from each signed-in client *)
LeaseExp(u) ==
    /\ net # None
    /\ Overlap \/ Quiet
    /\ age' = [age EXCEPT ![u] = 0]
    /\ netAge' = 0
    /\ Save(net, lease)
    /\ UNCHANGED <<net, lease, userVars, adminVars>>

Day ==
    /\ age' = [u \in Users |-> IF age[u] < MaxDays THEN age[u] + 1 ELSE age[u]]
    /\ netAge' = IF netAge < MaxDays THEN netAge + 1 ELSE netAge
    /\ UNCHANGED <<net, lease, saved, userVars, adminVars>>

------------------------------------------------------------------------------
(* AddNetwork: find the LeaseCacheInfo or create it, set its two fields one
   after the other, compare with what they were, clear. *)
AddNetwork(a, n) ==
    /\ apc[a] = "idle"
    /\ Overlap \/ AllIdle
    /\ target' = [target EXCEPT ![a] = n]
    /\ apc' = [apc EXCEPT ![a] = IF net = None THEN "create" ELSE "ip"]
    /\ before' = [before EXCEPT ![a] = net]
    /\ UNCHANGED <<cacheVars, saved, userVars>>

(* TryAdd of a new LeaseCacheInfo.  When another one was faster, the rest
   happens to an object that is in no dictionary; its record in the store
   bears the same key, and a restart prefers the first. *)
Create(a) ==
    /\ apc[a] = "create"
    /\ IF net = None
       THEN /\ net' = Unset
            /\ netAge' = 0
            /\ Save(Unset, NoLeases)
            /\ before' = [before EXCEPT ![a] = Unset]
            /\ apc' = [apc EXCEPT ![a] = "ip"]
       ELSE /\ apc' = [apc EXCEPT ![a] = "idle"]
            /\ UNCHANGED <<net, netAge, saved, before>>
    /\ UNCHANGED <<lease, age, userVars, target>>

SetIP(a) ==
    /\ apc[a] = "ip"
    /\ net' = [net EXCEPT !.ip = target[a].ip]
    /\ apc' = [apc EXCEPT ![a] = "prefix"]
    /\ UNCHANGED <<lease, age, netAge, saved, userVars, target, before>>

SetPrefix(a) ==
    /\ apc[a] = "prefix"
    /\ net' = [net EXCEPT !.size = target[a].size]
    /\ apc' = [apc EXCEPT ![a] = "clear"]
    /\ UNCHANGED <<lease, age, netAge, saved, userVars, target, before>>

ClearUsers(a) ==
    /\ apc[a] = "clear"
    /\ IF net # before[a]
       THEN lease' = NoLeases
       ELSE UNCHANGED lease
    /\ Save(net, lease')
    /\ apc' = [apc EXCEPT ![a] = "idle"]
    /\ UNCHANGED <<net, age, netAge, userVars, target, before>>

(* The LeaseCacheInfo leaves the dictionary and the store: AddNetwork with
   the address 0.0.0.0, or ClearTask.  Work in progress is orphaned. *)
RemoveNetwork ==
    /\ net' = None
    /\ lease' = NoLeases
    /\ saved' = [net |-> None, lease |-> NoLeases]
    /\ pc' = [u \in Users |-> IF pc[u] = "idle" THEN "idle" ELSE "orphan"]
    /\ added' = [u \in Users |-> {}]
    /\ lock' = None
    /\ apc' = [a \in Admins |-> IF apc[a] = "create" THEN "create" ELSE "idle"]
    /\ UNCHANGED <<age, netAge, req, val, target, before>>

AddNetworkAny == net # None /\ RemoveNetwork
ClearTask == net # None /\ netAge = MaxDays /\ RemoveNetwork

(* The server restarts from the store.  Each LeaseExp saves LastTime, so at
   the scale of days it survives. *)
Restart ==
    /\ net' = saved.net
    /\ lease' = saved.lease
    /\ pc' = [u \in Users |-> "idle"]
    /\ added' = [u \in Users |-> {}]
    /\ lock' = None
    /\ apc' = [a \in Admins |-> "idle"]
    /\ UNCHANGED <<age, netAge, saved, req, val, target, before>>

Next ==
    \/ \E u \in Users :
           \/ \E r \in Requests \cup {AnyIP} : LeaseIP(u, r)
           \/ FindRenew(u) \/ RenewWrite(u) \/ FindOther(u) \/ RemoveSelf(u)
           \/ FindNone(u) \/ Lock(u) \/ PickUnset(u) \/ DynamicIP(u)
           \/ StaticIP(u) \/ AddUser(u) \/ Orphaned(u) \/ LeaseExp(u)
    \/ \E a \in Admins :
           \/ \E n \in Networks : AddNetwork(a, n)
           \/ Create(a) \/ SetIP(a) \/ SetPrefix(a) \/ ClearUsers(a)
    \/ Day \/ AddNetworkAny \/ ClearTask \/ Restart

Spec == Init /\ [][Next]_vars

------------------------------------------------------------------------------
(* What a request, a rebased lease or the enumeration can be, networks whose
   two fields are of different settings included *)
Addresses ==
    Requests \cup UNION {0 .. (n.ip + m.size + 1) : n \in Networks, m \in Networks}

TypeOK ==
    /\ net = None \/ (net.ip \in Nat /\ net.size \in Nat)
    /\ lease \in [Users -> Addresses \cup {None}]
    /\ age \in [Users -> 0..MaxDays]
    /\ netAge \in 0..MaxDays
    /\ saved.lease \in [Users -> Addresses \cup {None}]
    /\ pc \in [Users -> {"idle", "find", "renew", "remove", "lock", "pick",
                         "add", "orphan"}]
    /\ req \in [Users -> Requests \cup {AnyIP}]
    /\ val \in [Users -> Addresses \cup {None}]
    /\ added \in [Users -> SUBSET Users]
    /\ lock \in Users \cup {None}
    /\ apc \in [Admins -> {"idle", "create", "ip", "prefix", "clear"}]

(* While no AddNetwork is half done, no address is leased to two users: "this
   address is used by somebody" is noticed whatever LeaseIP calls, renewals,
   expiries, restarts and changes of the network came before.  Not so with
   overlapping requests, with two administrators at once, or when a network
   has no room for its users; see Orderly of Lease_proofs. *)
UniqueLeases ==
    Quiet => \A u, v \in Users : u # v /\ lease[u] # None => lease[u] # lease[v]

(* A lease that has not run out is not given to another user: allocating for
   v neither evicts u nor doubles its address. *)
NoSteal ==
    [][\A u, v \in Users :
          /\ u # v /\ lease[u] # None
          /\ pc[v] = "pick" /\ pc'[v] = "add" /\ Quiet
          /\ lease[u] \in {val'[v]} \cup ({lease[u]} \ {lease'[u]})
          => age[u] > Min({StaticDays, IPDays})]_vars
===============================================================================
