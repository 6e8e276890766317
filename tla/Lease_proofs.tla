----------------------------- MODULE Lease_proofs -----------------------------
(***************************************************************************)
(* Proofs about Lease, for any users, administrators, networks and ages.   *)
(***************************************************************************)
EXTENDS Lease, FiniteSetTheorems, WellFoundedInduction, TLAPS

(* What the two fields of a LeaseCacheInfo can be, halves of two settings
   included; the address is set first. *)
Nets == {n \in [ip : {0} \cup {m.ip : m \in Networks}, size : {0} \cup {m.size : m \in Networks}] :
            n.size # 0 => n.ip # 0}

Setting == {"ip", "prefix", "clear"}
Places == {"idle", "find", "renew", "remove", "lock", "pick", "add", "orphan"}

TypeInv ==
    /\ TypeOK
    /\ net \in Nets \cup {None}
    /\ saved \in [net : Nets \cup {None}, lease : [Users -> Addresses \cup {None}]]
    /\ target \in [Admins -> Networks \cup {None}]
    /\ before \in [Admins -> Nets \cup {None}]
    /\ \A u \in Users : pc[u] \notin {"idle", "orphan"} => net # None
    /\ \A a \in Admins : /\ apc[a] # "idle" => target[a] \in Networks
                         /\ apc[a] \in Setting => net # None
                         /\ apc[a] = "prefix" => net.ip # 0

------------------------------------------------------------------------------
(* Arithmetic *)

LEMMA NetsAreNumbers == \A n \in Nets : n \in [ip : Nat, size : Nat] /\ n # None
BY NetworksAreBlocks, NoneIsNothing DEF Nets

LEMMA UnsetIsNet == Unset \in Nets
BY DEF Unset, Nets

(* A network starts at a multiple of its size, at or before its address. *)
LEMMA NetworkStarts ==
    ASSUME NEW n \in [ip : Nat, size : Nat], n.size # 0
    PROVE  /\ Network(n) \in Nat /\ Network(n) <= n.ip
           /\ \A k \in Nat : k < n.size => (Network(n) + k) % n.size = k
<1> DEFINE p == n.ip
           s == n.size
<1>1. p \in Nat /\ s \in Nat \ {0}
  OBVIOUS
<1> HIDE DEF p, s
<1>2. p % s \in 0 .. s - 1 /\ p % s <= p
  BY <1>1
<1>3. ASSUME NEW k \in Nat, k < s PROVE (p - (p % s) + k) % s = k
  <2>1. p = s * (p \div s) + (p % s) /\ p \div s \in Int
    BY <1>1
  <2>2. \A q \in Int : (s * q + k) % s = k
    BY <1>1, <1>3
  <2> QED BY <1>1, <1>2, <2>1, <2>2
<1> QED BY <1>1, <1>2, <1>3 DEF Network, p, s

(* Addresses of the network stay where they are. *)
LEMMA InsideStays ==
    ASSUME NEW n \in [ip : Nat, size : Nat], n.size # 0,
           NEW k \in Nat, k < n.size
    PROVE  Rebase(Network(n) + k, n) = Network(n) + k
BY NetworkStarts DEF Rebase

(* Moving an address into the network moves it once. *)
LEMMA RebaseOnce ==
    ASSUME NEW n \in [ip : Nat, size : Nat], NEW a \in Nat
    PROVE  Rebase(a, n) \in Nat /\ Rebase(Rebase(a, n), n) = Rebase(a, n)
<1>1. CASE n.size = 0
  BY <1>1 DEF Rebase
<1>2. CASE n.size # 0
  <2>1. a % n.size \in Nat /\ a % n.size < n.size
    BY <1>2
  <2>2. Rebase(a, n) = Network(n) + (a % n.size)
    BY <1>2 DEF Rebase
  <2>3. Network(n) \in Nat /\ Rebase(Network(n) + (a % n.size), n) = Network(n) + (a % n.size)
    BY <1>2, <2>1, InsideStays, NetworkStarts
  <2> QED BY <2>1, <2>2, <2>3
<1> QED BY <1>1, <1>2

LEMMA AddressIs ==
    ASSUME NEW a
    PROVE  a \in Addresses <=> \/ a \in Requests
                              \/ \E n, m \in Networks : a \in 0 .. n.ip + m.size + 1
<1> DEFINE UpTo(n, m) == 0 .. (n.ip + m.size + 1)
<1> HIDE DEF UpTo
<1>1. Addresses = Requests \cup UNION {UpTo(n, m) : n \in Networks, m \in Networks}
  BY DEF Addresses, UpTo
<1>2. a \in UNION {UpTo(n, m) : n \in Networks, m \in Networks}
          <=> \E n, m \in Networks : a \in UpTo(n, m)
  OBVIOUS
<1> QED BY <1>1, <1>2 DEF UpTo

LEMMA AddressesAreNumbers == Addresses \subseteq Nat /\ Requests \subseteq Addresses
<1>1. \A n, m \in Networks : 0 .. n.ip + m.size + 1 \subseteq Nat
  BY NetworksAreBlocks
<1> QED BY <1>1, AddressIs, RequestsAreAddresses

LEMMA BelowIsAddress ==
    ASSUME NEW n \in Nets, n.size # 0, NEW a \in 0 .. n.ip + n.size + 1
    PROVE  a \in Addresses
<1>1. PICK p \in Networks : n.ip = p.ip
  BY DEF Nets
<1>2. PICK q \in Networks : n.size = q.size
  BY DEF Nets
<1>3. a \in 0 .. p.ip + q.size + 1
  BY <1>1, <1>2
<1> QED BY <1>3, AddressIs

LEMMA RebaseInAddresses ==
    ASSUME NEW n \in Nets, NEW a \in Addresses
    PROVE  Rebase(a, n) \in Addresses
<1>1. n \in [ip : Nat, size : Nat] /\ a \in Nat
  BY NetsAreNumbers, AddressesAreNumbers
<1>2. CASE n.size = 0
  BY <1>2 DEF Rebase
<1>3. CASE n.size # 0
  <2>1. a % n.size \in 0 .. n.size - 1 /\ Rebase(a, n) = Network(n) + (a % n.size)
    BY <1>1, <1>3 DEF Rebase
  <2>2. Network(n) \in Nat /\ Network(n) <= n.ip
    BY <1>1, <1>3, NetworkStarts
  <2>3. Rebase(a, n) \in 0 .. n.ip + n.size + 1
    BY <1>1, <1>3, <2>1, <2>2
  <2> QED BY <1>3, <2>3, BelowIsAddress
<1> QED BY <1>2, <1>3

(* The enumeration begins two above the network and ends one beyond it. *)
LEMMA RangeIs ==
    ASSUME NEW n \in [ip : Nat, size : Nat], n.size # 0
    PROVE  DynamicRange(n) = Network(n) + 2 .. Network(n) + n.size
<1>1. Network(n) \in Nat /\ n.size \in Nat
  BY NetworkStarts
<1>2. /\ Network(n) + 1 + 1 = Network(n) + 2
      /\ Network(n) + 1 + 1 + (Broadcast(n) - 1 - Network(n)) = Network(n) + n.size
  BY <1>1 DEF Broadcast
<1> QED BY <1>2 DEF DynamicRange

(* The least of some of the enumerated addresses is one of them. *)
LEMMA MinOfRange ==
    ASSUME NEW n \in [ip : Nat, size : Nat], n.size # 0,
           NEW S \in SUBSET DynamicRange(n), S # {}
    PROVE  Min(S) \in S /\ \A x \in S : Min(S) <= x
<1> DEFINE Less == OpToRel(<, Nat)
<1>1. S \subseteq Nat
  BY RangeIs, NetworkStarts
<1>2. \A y, z \in Nat : y < z => <<y, z>> \in Less
  <2> TAKE y, z \in Nat
  <2>1. <<y, z>> \in Nat \X Nat
    OBVIOUS
  <2> QED BY <2>1 DEF OpToRel
<1>3. IsWellFoundedOn(Less, Nat)
  BY NatLessThanWellFounded
<1> HIDE DEF Less
<1>4. PICK x \in S : \A y \in S : <<y, x>> \notin Less
  BY <1>1, <1>3, WFMin
<1>5. \A y \in S : x <= y
  <2> TAKE y \in S
  <2>1. x \in Nat /\ y \in Nat /\ <<y, x>> \notin Less
    BY <1>1, <1>4
  <2>2. ~(y < x)
    BY <1>2, <2>1
  <2> QED BY <2>1, <2>2
<1> QED BY <1>5 DEF Min

LEMMA RangeInAddresses ==
    ASSUME NEW n \in Nets, n.size # 0
    PROVE  DynamicRange(n) \subseteq Addresses
<1>1. n \in [ip : Nat, size : Nat]
  BY NetsAreNumbers
<1>2. Network(n) \in Nat /\ Network(n) <= n.ip
  BY <1>1, NetworkStarts
<1>3. \A a \in DynamicRange(n) : a \in 0 .. n.ip + n.size + 1
  BY <1>1, <1>2, RangeIs
<1> QED BY <1>3, BelowIsAddress

------------------------------------------------------------------------------
(* Types *)

LEMMA TypeInit == Init => TypeInv
<1> SUFFICES ASSUME Init PROVE TypeInv
  OBVIOUS
<1>1. 0 \in 0 .. MaxDays
  BY AgesOrdered
<1> QED BY <1>1 DEF Init, TypeInv, TypeOK, NoLeases, Setting

(* A lease that is given up, kept or moved is an address or none. *)
LEMMA EvictTypes ==
    ASSUME TypeInv, NEW vs, Evict(vs)
    PROVE  lease' \in [Users -> Addresses \cup {None}]
BY DEF TypeInv, TypeOK, Evict

(* The address an allocation settles on. *)
LEMMA PickTypes ==
    ASSUME TypeInv, NEW u \in Users, pc[u] = "pick",
           NEW a \in Addresses \cup {None}, NEW vs, Settle(u, a, vs)
    PROVE  TypeInv'
<1>1. lease' \in [Users -> Addresses \cup {None}]
  BY EvictTypes DEF Settle
<1>2. /\ val' \in [Users -> Addresses \cup {None}]
      /\ pc' = [pc EXCEPT ![u] = "add"]
      /\ UNCHANGED <<net, age, netAge, saved, req, added, lock, adminVars>>
  BY DEF Settle, TypeInv, TypeOK
<1> QED BY <1>1, <1>2 DEF TypeInv, TypeOK, adminVars, Setting

(* Each step of a LeaseIP keeps the types. *)
LEMMA UserTypes ==
    ASSUME TypeInv, NEW u \in Users,
           \/ \E r \in Requests \cup {AnyIP} : LeaseIP(u, r)
           \/ FindRenew(u) \/ RenewWrite(u) \/ FindOther(u) \/ RemoveSelf(u)
           \/ FindNone(u) \/ Lock(u) \/ PickUnset(u) \/ DynamicIP(u)
           \/ StaticIP(u) \/ AddUser(u) \/ Orphaned(u) \/ LeaseExp(u)
    PROVE  TypeInv'
<1> USE DEF Finish, adminVars, userVars, cacheVars, Setting
<1>0. 0 \in 0 .. MaxDays
  BY AgesOrdered
<1>1. ASSUME NEW r \in Requests \cup {AnyIP}, LeaseIP(u, r) PROVE TypeInv'
  BY <1>0, <1>1 DEF LeaseIP, TypeInv, TypeOK
<1>2. CASE FindRenew(u)
  <2>1. net \in Nets /\ lease[u] \in Addresses
    BY <1>2 DEF FindRenew, TypeInv, TypeOK
  <2>2. Rebase(lease[u], net) \in Addresses
    BY <2>1, RebaseInAddresses
  <2> QED BY <1>0, <1>2, <2>2 DEF FindRenew, TypeInv, TypeOK
<1>3. CASE RenewWrite(u)
  <2>1. lease' \in [Users -> Addresses \cup {None}]
    BY <1>3 DEF RenewWrite, TypeInv, TypeOK
  <2> QED BY <1>3, <2>1 DEF RenewWrite, TypeInv, TypeOK
<1>4. CASE FindOther(u)
  BY <1>4 DEF FindOther, TypeInv, TypeOK
<1>5. CASE RemoveSelf(u)
  <2>1. lease' \in [Users -> Addresses \cup {None}]
    BY <1>5 DEF RemoveSelf, TypeInv, TypeOK
  <2> QED BY <1>5, <2>1 DEF RemoveSelf, TypeInv, TypeOK
<1>6. CASE FindNone(u)
  BY <1>6 DEF FindNone, TypeInv, TypeOK
<1>7. CASE Lock(u)
  BY <1>7 DEF Lock, TypeInv, TypeOK
<1>8. CASE PickUnset(u)
  BY <1>8 DEF PickUnset, Fail, TypeInv, TypeOK
<1>9. CASE DynamicIP(u)
  <2>1. net \in Nets /\ net.size # 0 /\ net \in [ip : Nat, size : Nat] /\ pc[u] = "pick"
    BY <1>9, NetsAreNumbers DEF DynamicIP, TypeInv
  <2>2. DynamicRange(net) \subseteq Addresses
    BY <2>1, RangeInAddresses
  <2>3. CASE Fail(u)
    BY <2>3 DEF Fail, TypeInv, TypeOK
  <2>4. CASE DynamicRange(net) \ Taken # {}
    <3>1. Min(DynamicRange(net) \ Taken) \in Addresses
      BY <2>1, <2>2, <2>4, MinOfRange
    <3>2. Settle(u, Min(DynamicRange(net) \ Taken), {})
      BY <1>9, <2>4 DEF DynamicIP
    <3> QED BY <2>1, <3>1, <3>2, PickTypes
  <2>5. ASSUME NEW v \in Users, Settle(u, lease[v], {v}) PROVE TypeInv'
    <3>1. lease[v] \in Addresses \cup {None}
      BY DEF TypeInv, TypeOK
    <3> QED BY <2>1, <2>5, <3>1, PickTypes
  <2> QED BY <1>9, <2>3, <2>4, <2>5 DEF DynamicIP
<1>10. CASE StaticIP(u)
  <2>1. net \in Nets /\ req[u] \in Addresses
    BY <1>10, AddressesAreNumbers DEF StaticIP, TypeInv, TypeOK
  <2>2. Rebase(req[u], net) \in Addresses
    BY <2>1, RebaseInAddresses
  <2>3. CASE Fail(u)
    BY <2>3 DEF Fail, TypeInv, TypeOK
  <2>4. ASSUME NEW vs, Settle(u, Rebase(req[u], net), vs) PROVE TypeInv'
    BY <1>10, <2>2, <2>4, PickTypes DEF StaticIP
  <2> QED BY <1>10, <2>3, <2>4 DEF StaticIP
<1>11. CASE AddUser(u)
  <2>1. lease' \in [Users -> Addresses \cup {None}]
    BY <1>11 DEF AddUser, TypeInv, TypeOK
  <2>2. saved' \in [net : Nets \cup {None}, lease : [Users -> Addresses \cup {None}]]
    BY <1>11, <2>1 DEF AddUser, Save, TypeInv
  <2>3. added' \in [Users -> SUBSET Users]
    BY <1>11 DEF AddUser, TypeInv, TypeOK
  <2> QED BY <1>0, <1>11, <2>1, <2>2, <2>3 DEF AddUser, TypeInv, TypeOK
<1>12. CASE Orphaned(u)
  BY <1>12 DEF Orphaned, TypeInv, TypeOK
<1>13. CASE LeaseExp(u)
  <2>1. saved' \in [net : Nets \cup {None}, lease : [Users -> Addresses \cup {None}]]
    BY <1>13 DEF LeaseExp, Save, TypeInv, TypeOK
  <2> QED BY <1>0, <1>13, <2>1 DEF LeaseExp, TypeInv, TypeOK
<1> QED BY <1>1, <1>2, <1>3, <1>4, <1>5, <1>6, <1>7, <1>8, <1>9, <1>10, <1>11, <1>12, <1>13

(* So does each step of an AddNetwork. *)
LEMMA AdminTypes ==
    ASSUME TypeInv, NEW a \in Admins,
           \/ \E n \in Networks : AddNetwork(a, n)
           \/ Create(a) \/ SetIP(a) \/ SetPrefix(a) \/ ClearUsers(a)
    PROVE  TypeInv'
<1> USE DEF adminVars, userVars, cacheVars, Setting
<1>0. 0 \in 0 .. MaxDays
  BY AgesOrdered
<1>1. ASSUME NEW n \in Networks, AddNetwork(a, n) PROVE TypeInv'
  BY <1>1 DEF AddNetwork, TypeInv, TypeOK
<1>2. CASE Create(a)
  <2>1. CASE net = None
    <3>1. /\ net' = Unset /\ net' # None /\ net' \in Nets
          /\ net'.ip \in Nat /\ net'.size \in Nat
      BY <1>2, <2>1, UnsetIsNet, NetsAreNumbers DEF Create
    <3>2. saved' \in [net : Nets \cup {None}, lease : [Users -> Addresses \cup {None}]]
      BY <1>2, <2>1, UnsetIsNet DEF Create, Save, NoLeases
    <3>3. \A b \in Admins : apc[b] \notin Setting
      BY <2>1 DEF TypeInv
    <3>4. /\ before' \in [Admins -> Nets \cup {None}]
          /\ apc' = [apc EXCEPT ![a] = "ip"] /\ apc[a] = "create" /\ netAge' = 0
          /\ UNCHANGED <<lease, age, userVars, target>>
      BY <1>2, <2>1, UnsetIsNet DEF Create, TypeInv
    <3> QED BY <1>0, <2>1, <3>1, <3>2, <3>3, <3>4 DEF TypeInv, TypeOK
  <2>2. CASE net # None
    BY <1>2, <2>2 DEF Create, TypeInv, TypeOK
  <2> QED BY <2>1, <2>2
<1>3. ASSUME NEW n \in Nets, net' = n, n.ip # 0,
             \E l \in Setting : apc' = [apc EXCEPT ![a] = l],
             apc[a] \in Setting,
             UNCHANGED <<lease, age, netAge, saved, userVars, target, before>>
      PROVE  TypeInv'
  <2>1. n # None /\ n.ip \in Nat /\ n.size \in Nat
    BY NetsAreNumbers
  <2> QED BY <1>3, <2>1 DEF TypeInv, TypeOK
<1>4. apc[a] \in Setting => net \in Nets /\ target[a] \in Networks
  BY DEF TypeInv
<1>5. CASE SetIP(a)
  <2>1. /\ net' = [net EXCEPT !.ip = target[a].ip] /\ apc[a] = "ip"
        /\ apc' = [apc EXCEPT ![a] = "prefix"]
        /\ UNCHANGED <<lease, age, netAge, saved, userVars, target, before>>
    BY <1>5 DEF SetIP
  <2>2. net' \in Nets /\ net'.ip # 0
    BY <1>4, <2>1, NetworksAreBlocks DEF Nets
  <2> QED BY <1>3, <2>1, <2>2
<1>6. CASE SetPrefix(a)
  <2>1. /\ net' = [net EXCEPT !.size = target[a].size] /\ apc[a] = "prefix"
        /\ apc' = [apc EXCEPT ![a] = "clear"] /\ net.ip # 0
        /\ UNCHANGED <<lease, age, netAge, saved, userVars, target, before>>
    BY <1>6 DEF SetPrefix, TypeInv
  <2>2. net' \in Nets /\ net'.ip # 0
    BY <1>4, <2>1, NetworksAreBlocks DEF Nets
  <2> QED BY <1>3, <2>1, <2>2
<1>7. CASE ClearUsers(a)
  <2>1. lease' \in [Users -> Addresses \cup {None}]
    BY <1>7 DEF ClearUsers, NoLeases, TypeInv, TypeOK
  <2>2. saved' \in [net : Nets \cup {None}, lease : [Users -> Addresses \cup {None}]]
    BY <1>7, <2>1 DEF ClearUsers, Save, TypeInv
  <2> QED BY <1>7, <2>1, <2>2 DEF ClearUsers, TypeInv, TypeOK
<1> QED BY <1>1, <1>2, <1>5, <1>6, <1>7

LEMMA TypeStep == TypeInv /\ [Next]_vars => TypeInv'
<1> SUFFICES ASSUME TypeInv, [Next]_vars PROVE TypeInv'
  OBVIOUS
<1> USE DEF adminVars, userVars, cacheVars, Setting
<1>1. CASE Day
  <2>1. /\ age' \in [Users -> 0 .. MaxDays] /\ netAge' \in 0 .. MaxDays
        /\ UNCHANGED <<net, lease, saved, userVars, adminVars>>
    BY <1>1, AgesOrdered DEF Day, TypeInv, TypeOK
  <2> QED BY <2>1 DEF TypeInv, TypeOK
<1>2. CASE RemoveNetwork
  <2>1. saved' \in [net : Nets \cup {None}, lease : [Users -> Addresses \cup {None}]]
    BY <1>2 DEF RemoveNetwork, NoLeases
  <2>2. /\ pc' \in [Users -> {"idle", "orphan"}] /\ added' \in [Users -> SUBSET Users]
        /\ lease' \in [Users -> Addresses \cup {None}]
        /\ apc' \in [Admins -> {"idle", "create"}]
        /\ \A a \in Admins : apc'[a] # "idle" => apc[a] # "idle"
    BY <1>2 DEF RemoveNetwork, NoLeases, TypeInv, TypeOK
  <2>3. /\ net' = None /\ lock' = None
        /\ UNCHANGED <<age, netAge, req, val, target, before>>
    BY <1>2 DEF RemoveNetwork
  <2> QED BY <2>1, <2>2, <2>3 DEF TypeInv, TypeOK
<1>3. CASE Restart
  <2>1. /\ pc' \in [Users -> {"idle"}] /\ added' \in [Users -> SUBSET Users]
        /\ apc' \in [Admins -> {"idle"}]
        /\ lease' \in [Users -> Addresses \cup {None}] /\ net' \in Nets \cup {None}
        /\ lock' = None
        /\ UNCHANGED <<age, netAge, saved, req, val, target, before>>
    BY <1>3 DEF Restart, TypeInv
  <2>2. net' = None \/ (net'.ip \in Nat /\ net'.size \in Nat)
    BY <2>1, NetsAreNumbers
  <2> QED BY <2>1, <2>2 DEF TypeInv, TypeOK
<1>4. CASE UNCHANGED vars
  BY <1>4 DEF vars, TypeInv, TypeOK
<1> QED BY <1>1, <1>2, <1>3, <1>4, UserTypes, AdminTypes DEF Next, AddNetworkAny, ClearTask

(* The leases, the network and what each LeaseIP and AddNetwork has computed
   keep their types: no half of a setting and no rebased or enumerated address
   leaves the range of the networks. *)
THEOREM TypeCorrect == Spec => []TypeOK
<1>1. TypeInv => TypeOK
  BY DEF TypeInv
<1> QED BY <1>1, TypeInit, TypeStep, PTL DEF Spec

------------------------------------------------------------------------------
(* Unique leases, with one administrator who does not overlap the users, and
   networks with room for all of them below the enumeration's last address.
   None of the three can go: an allocation survives a change it overlaps; the
   second of two AddNetworks keeps the leases the first is about to clear, and
   a restart brings them back; and the enumeration ends beyond the network, on
   an address that the next renewal moves onto another. *)

Orderly ==
    /\ ~Overlap
    /\ \A a, b \in Admins : a = b
    /\ IsFiniteSet(Users)
    /\ \A n \in Networks : Cardinality(Users) + 1 < n.size

Distinct(l) == \A u, v \in Users : u # v /\ l[u] # None => l[u] # l[v]

(* Moving the leases into the network n leaves them where they are. *)
Settled(l, n) == \A u \in Users : l[u] # None => Rebase(l[u], n) = l[u]

(* What the store holds is what a quiet server could hold. *)
SavedInv ==
    /\ Distinct(saved.lease)
    /\ IF saved.net = None THEN saved.lease = NoLeases ELSE Settled(saved.lease, saved.net)

(* The lock, and what a LeaseIP knows of the leases while it has it: its own
   is gone, and the address it will add is free and in the network. *)
UserInv ==
    \A u \in Users :
        /\ pc[u] \in {"pick", "add"} => lock = u
        /\ pc[u] \in {"lock", "pick", "add"} => lease[u] = None
        /\ pc[u] = "renew" /\ lease[u] # None => val[u] = lease[u]
        /\ pc[u] = "add" /\ val[u] # None =>
              Rebase(val[u], net) = val[u] /\ \A v \in Users : lease[v] # val[u]

(* The leases are those of the network, or while it is being changed those of
   the network there was. *)
NetInv ==
    /\ Quiet \/ AllIdle
    /\ net = None => lease = NoLeases
    /\ Quiet /\ net # None => Settled(lease, net)
    /\ \A a \in Admins : /\ apc[a] = "create" => net = None
                         /\ apc[a] \in Setting => before[a] # None /\ Settled(lease, before[a])

UniqueInv == Distinct(lease) /\ SavedInv /\ UserInv /\ NetInv

LEMMA UniqueInit == Init => UniqueInv
<1> SUFFICES ASSUME Init PROVE UniqueInv
  OBVIOUS
<1>1. Distinct(NoLeases)
  BY DEF Distinct, NoLeases
<1> QED BY <1>1 DEF Init, UniqueInv, SavedInv, UserInv, NetInv, Quiet, AllIdle, Setting

(* Giving leases up keeps them apart and in the network. *)
LEMMA FewerLeases ==
    ASSUME NEW l, NEW k, \A u \in Users : k[u] = l[u] \/ k[u] = None
    PROVE  /\ Distinct(l) => Distinct(k)
           /\ \A n : Settled(l, n) => Settled(k, n)
BY DEF Distinct, Settled

(* An enumerated address of the network is free: there are more of them than
   other users. *)
LEMMA SomeIdle ==
    ASSUME TypeInv, Orderly, NEW n \in Nets, n.size # 0,
           NEW u \in Users, lease[u] = None
    PROVE  \E k \in 2 .. n.size - 1 : Network(n) + k \notin Taken
<1> DEFINE K == 2 .. n.size - 1
           Others == Users \ {u}
<1> SUFFICES ASSUME \A k \in K : Network(n) + k \in Taken PROVE FALSE
  OBVIOUS
<1>1. n \in [ip : Nat, size : Nat] /\ Network(n) \in Nat
  BY NetsAreNumbers, NetworkStarts
<1>2. PICK q \in Networks : n.size = q.size
  BY DEF Nets
<1>3. Cardinality(Users) \in Nat /\ Cardinality(Users) + 1 < n.size
  BY <1>2, FS_CardinalityType DEF Orderly
<1>4. IsFiniteSet(Others) /\ Cardinality(Others) = Cardinality(Users) - 1
  BY FS_RemoveElement DEF Orderly
<1>5. IsFiniteSet(K) /\ Cardinality(K) = n.size - 2
  <2>0. 2 \in Int /\ n.size - 1 \in Int
    BY <1>1
  <2>1. Cardinality(K) = IF 2 > n.size - 1 THEN 0 ELSE n.size - 1 - 2 + 1
    BY <2>0, FS_Interval
  <2>2. IsFiniteSet(K)
    BY <2>0, FS_Interval
  <2>3. Cardinality(Users) >= 1
    BY <1>3, <1>4, FS_CardinalityType
  <2> QED BY <1>1, <1>3, <2>1, <2>2, <2>3
<1>6. \A k \in K : \E v \in Others : lease[v] = Network(n) + k
  <2> TAKE k \in K
  <2>1. PICK v \in Users : lease[v] = Network(n) + k
    BY DEF Taken
  <2>2. Network(n) + k \in Nat
    BY <1>1
  <2>3. lease[v] # None
    BY <2>1, <2>2, NoneIsNothing
  <2> QED BY <2>1, <2>3
<1> DEFINE holder == [k \in K |-> CHOOSE v \in Others : lease[v] = Network(n) + k]
<1>7. holder \in [K -> Others] /\ \A k \in K : lease[holder[k]] = Network(n) + k
  BY <1>6
<1> HIDE DEF holder, K, Others
<1>8. PICK i, j \in K : i # j /\ holder[i] = holder[j]
  <2>1. Cardinality(Others) < Cardinality(K)
    BY <1>1, <1>3, <1>4, <1>5
  <2> QED BY <1>4, <1>5, <1>7, <2>1, FS_PigeonHole
<1>9. Network(n) + i = Network(n) + j
  BY <1>7, <1>8
<1> QED BY <1>1, <1>8, <1>9 DEF K

(* The address DynamicIP takes is free and in the network. *)
LEMMA LeastIdle ==
    ASSUME TypeInv, Orderly, NEW n \in Nets, n.size # 0,
           NEW u \in Users, lease[u] = None
    PROVE  LET a == Min(DynamicRange(n) \ Taken)
           IN  a \in Nat /\ a \notin Taken /\ Rebase(a, n) = a
<1> DEFINE idle == DynamicRange(n) \ Taken
<1>1. n \in [ip : Nat, size : Nat] /\ Network(n) \in Nat
  BY NetsAreNumbers, NetworkStarts
<1>2. PICK k \in 2 .. n.size - 1 : Network(n) + k \notin Taken
  BY SomeIdle
<1>3. Network(n) + k \in idle
  BY <1>1, <1>2, RangeIs
<1>4. Min(idle) \in idle /\ Min(idle) <= Network(n) + k
  BY <1>1, <1>3, MinOfRange
<1>5. Min(idle) \in Network(n) + 2 .. Network(n) + n.size
  BY <1>1, <1>4, RangeIs
<1> HIDE DEF idle
<1>6. PICK j \in Nat : Min(idle) = Network(n) + j /\ j < n.size
  <2>1. Min(idle) - Network(n) \in Nat /\ Min(idle) - Network(n) < n.size
    BY <1>1, <1>4, <1>5
  <2>2. Min(idle) = Network(n) + (Min(idle) - Network(n))
    BY <1>1, <1>5
  <2> QED BY <2>1, <2>2
<1>7. Rebase(Min(idle), n) = Min(idle)
  BY <1>1, <1>6, InsideStays
<1> QED BY <1>1, <1>4, <1>5, <1>7 DEF idle

(* A step of a LeaseIP that leaves the leases in the network. *)
LEMMA NetKept ==
    ASSUME NetInv, Quiet, UNCHANGED <<net, adminVars>>,
           net = None => lease' = NoLeases,
           net # None => Settled(lease', net)
    PROVE  NetInv'
BY DEF NetInv, Quiet, adminVars, Setting

(* An allocation settles on an address that is free once the evicted lease is
   gone. *)
LEMMA PickUnique ==
    ASSUME TypeInv, UniqueInv, NEW u \in Users, pc[u] = "pick",
           NEW a, NEW vs, Settle(u, a, vs),
           Rebase(a, net) = a, \A v \in Users : lease[v] = a => v \in vs
    PROVE  UniqueInv'
<1>1. /\ val' = [val EXCEPT ![u] = a]
      /\ pc' = [pc EXCEPT ![u] = "add"]
      /\ UNCHANGED <<net, saved, lock, adminVars>>
      /\ lease' = [v \in Users |-> IF v \in vs THEN None ELSE lease[v]]
  BY DEF Settle, Evict
<1>2. \A v \in Users : lease'[v] = lease[v] \/ lease'[v] = None
  BY <1>1
<1>3. Quiet /\ net # None /\ Settled(lease, net)
  BY DEF UniqueInv, NetInv, AllIdle, TypeInv
<1>4. Distinct(lease') /\ Settled(lease', net)
  BY <1>2, <1>3, FewerLeases DEF UniqueInv
<1>5. SavedInv'
  BY <1>1 DEF UniqueInv, SavedInv
<1>6. NetInv'
  BY <1>1, <1>3, <1>4, NetKept DEF UniqueInv
<1>7. UserInv'
  <2> SUFFICES ASSUME NEW v \in Users
               PROVE  /\ pc'[v] \in {"pick", "add"} => lock' = v
                      /\ pc'[v] \in {"lock", "pick", "add"} => lease'[v] = None
                      /\ pc'[v] = "renew" /\ lease'[v] # None => val'[v] = lease'[v]
                      /\ pc'[v] = "add" /\ val'[v] # None =>
                            /\ Rebase(val'[v], net') = val'[v]
                            /\ \A w \in Users : lease'[w] # val'[v]
    BY DEF UserInv
  <2>1. pc \in [Users -> Places] /\ val \in [Users -> Addresses \cup {None}]
    BY DEF TypeInv, TypeOK, Places
  <2>2. lock = u /\ lease[u] = None
    BY DEF UniqueInv, UserInv
  <2>3. CASE v = u
    <3>1. pc'[v] = "add" /\ val'[v] = a /\ lock' = v /\ lease'[v] = None
      BY <1>1, <1>2, <2>1, <2>2, <2>3
    <3>2. a # None => \A w \in Users : lease'[w] # a
      BY <1>1
    <3> QED BY <1>1, <3>1, <3>2
  <2>4. CASE v # u
    <3>1. pc'[v] = pc[v] /\ val'[v] = val[v] /\ pc[v] \notin {"pick", "add"}
      BY <1>1, <2>1, <2>2, <2>4 DEF UniqueInv, UserInv
    <3> QED BY <1>2, <3>1 DEF UniqueInv, UserInv
  <2> QED BY <2>3, <2>4
<1> QED BY <1>4, <1>5, <1>6, <1>7 DEF UniqueInv

(* A step of a LeaseIP that gives leases up or none, and moves only u. *)
LEMMA LessUnique ==
    ASSUME TypeInv, UniqueInv, NEW u \in Users, NEW p \in Places,
           pc' = [pc EXCEPT ![u] = p],
           Quiet \/ p = pc[u], UNCHANGED <<net, saved, adminVars>>,
           \A v \in Users : lease'[v] = lease[v] \/ lease'[v] = None,
           \A v \in Users : v # u => val'[v] = val[v],
           net = None => lease' = NoLeases,
           \A v \in Users : v # u /\ pc[v] \in {"pick", "add"} => lock' = v,
           p \in {"pick", "add"} => lock' = u,
           p \in {"lock", "pick", "add"} => lease'[u] = None,
           p = "renew" /\ lease'[u] # None => val'[u] = lease'[u],
           p # "add"
    PROVE  UniqueInv'
<1>1. Distinct(lease')
  BY FewerLeases DEF UniqueInv
<1>2. SavedInv'
  BY DEF UniqueInv, SavedInv
<1>3. NetInv'
  <2>1. Settled(lease, net) => Settled(lease', net)
    BY FewerLeases
  <2>2. \A n : Settled(lease, n) => Settled(lease', n)
    BY FewerLeases
  <2>3. CASE Quiet
    BY <2>1, <2>3, NetKept DEF UniqueInv, NetInv
  <2>4. CASE ~Quiet
    <3>1. pc' = pc
      BY <2>4 DEF TypeInv, TypeOK
    <3> QED BY <2>1, <2>2, <2>4, <3>1
            DEF UniqueInv, NetInv, Quiet, AllIdle, adminVars, Setting
  <2> QED BY <2>3, <2>4
<1>4. UserInv'
  <2> SUFFICES ASSUME NEW v \in Users
               PROVE  /\ pc'[v] \in {"pick", "add"} => lock' = v
                      /\ pc'[v] \in {"lock", "pick", "add"} => lease'[v] = None
                      /\ pc'[v] = "renew" /\ lease'[v] # None => val'[v] = lease'[v]
                      /\ pc'[v] = "add" /\ val'[v] # None =>
                            /\ Rebase(val'[v], net') = val'[v]
                            /\ \A w \in Users : lease'[w] # val'[v]
    BY DEF UserInv
  <2>1. CASE v = u
    BY <2>1 DEF TypeInv, TypeOK
  <2>2. CASE v # u
    <3>1. pc'[v] = pc[v] /\ val'[v] = val[v] /\ net' = net
      BY <2>2 DEF TypeInv, TypeOK
    <3> QED BY <2>2, <3>1 DEF UniqueInv, UserInv
  <2> QED BY <2>1, <2>2
<1> QED BY <1>1, <1>2, <1>3, <1>4 DEF UniqueInv

(* What u has allocated becomes its lease, and is saved. *)
LEMMA AddUnique ==
    ASSUME TypeInv, UniqueInv, NEW u \in Users, AddUser(u)
    PROVE  UniqueInv'
<1>1. /\ pc[u] = "add"
      /\ lease' = [lease EXCEPT ![u] = val[u]]
      /\ saved' = [net |-> net, lease |-> lease']
      /\ pc' = [pc EXCEPT ![u] = "idle"]
      /\ UNCHANGED <<net, val, adminVars>>
  BY DEF AddUser, Save, Finish
<1>2. Quiet /\ net # None /\ Settled(lease, net)
  BY <1>1 DEF UniqueInv, NetInv, AllIdle, TypeInv
<1>3. /\ lock = u /\ lease[u] = None
      /\ val[u] # None => Rebase(val[u], net) = val[u] /\ \A v \in Users : lease[v] # val[u]
  BY <1>1 DEF UniqueInv, UserInv
<1>4. lease'[u] = val[u] /\ \A v \in Users : v # u => lease'[v] = lease[v]
  BY <1>1 DEF TypeInv, TypeOK
<1>5. Settled(lease', net)
  BY <1>2, <1>3, <1>4 DEF Settled
<1>6. Distinct(lease')
  BY <1>3, <1>4 DEF UniqueInv, Distinct
<1>7. SavedInv'
  BY <1>1, <1>2, <1>5, <1>6 DEF SavedInv
<1>8. NetInv'
  BY <1>1, <1>2, <1>5, NetKept DEF UniqueInv
<1>9. UserInv'
  <2> SUFFICES ASSUME NEW v \in Users
               PROVE  /\ pc'[v] \notin {"pick", "add"}
                      /\ pc'[v] = "lock" => lease'[v] = None
                      /\ pc'[v] = "renew" /\ lease'[v] # None => val'[v] = lease'[v]
    BY DEF UserInv
  <2>1. CASE v = u
    BY <1>1, <2>1 DEF TypeInv, TypeOK
  <2>2. CASE v # u
    <3>1. pc'[v] = pc[v] /\ val'[v] = val[v] /\ lease'[v] = lease[v]
      BY <1>1, <1>4, <2>2 DEF TypeInv, TypeOK
    <3> QED BY <1>3, <2>2, <3>1 DEF UniqueInv, UserInv
  <2> QED BY <2>1, <2>2
<1> QED BY <1>6, <1>7, <1>8, <1>9 DEF UniqueInv

(* Each step of a LeaseIP keeps the leases apart. *)
LEMMA UserUnique ==
    ASSUME Orderly, TypeInv, UniqueInv, NEW u \in Users,
           \/ \E r \in Requests \cup {AnyIP} : LeaseIP(u, r)
           \/ FindRenew(u) \/ RenewWrite(u) \/ FindOther(u) \/ RemoveSelf(u)
           \/ FindNone(u) \/ Lock(u) \/ PickUnset(u) \/ DynamicIP(u)
           \/ StaticIP(u) \/ AddUser(u) \/ Orphaned(u) \/ LeaseExp(u)
    PROVE  UniqueInv'
<1> USE DEF Finish, Places
<1>0. /\ ~Overlap
      /\ pc[u] # "idle" => Quiet
      /\ pc[u] \notin {"idle", "orphan"} => net # None
      /\ net # None /\ Quiet => Settled(lease, net)
      /\ net = None => lease = NoLeases
      /\ \A v \in Users : pc[v] \in {"pick", "add"} => lock = v
      /\ pc[u] \in {"lock", "pick", "add"} => lease[u] = None
  BY DEF Orderly, UniqueInv, NetInv, UserInv, AllIdle, TypeInv
<1>1. ASSUME NEW r \in Requests \cup {AnyIP}, LeaseIP(u, r) PROVE UniqueInv'
  BY <1>0, <1>1, LessUnique DEF LeaseIP
<1>2. CASE FindRenew(u)
  <2>1. Rebase(lease[u], net) = lease[u]
    BY <1>0, <1>2 DEF FindRenew, Settled
  <2>2. val' = [val EXCEPT ![u] = lease[u]]
    BY <1>2, <2>1 DEF FindRenew
  <2>3. val'[u] = lease[u] /\ \A v \in Users : v # u => val'[v] = val[v]
    BY <2>2 DEF TypeInv, TypeOK
  <2> QED BY <1>0, <1>2, <2>3, LessUnique DEF FindRenew
<1>3. CASE RenewWrite(u)
  <2>1. lease[u] # None => val[u] = lease[u]
    BY <1>3 DEF RenewWrite, UniqueInv, UserInv
  <2>2. lease' = lease
    BY <1>3, <2>1 DEF RenewWrite, TypeInv, TypeOK
  <2> QED BY <1>0, <1>3, <2>2, LessUnique DEF RenewWrite
<1>4. CASE FindOther(u)
  BY <1>0, <1>4, LessUnique DEF FindOther, cacheVars
<1>5. CASE RemoveSelf(u)
  <2>1. /\ lease'[u] = None
        /\ \A v \in Users : lease'[v] = lease[v] \/ lease'[v] = None
    BY <1>5 DEF RemoveSelf
  <2> QED BY <1>0, <1>5, <2>1, LessUnique DEF RemoveSelf
<1>6. CASE FindNone(u)
  BY <1>0, <1>6, LessUnique DEF FindNone, cacheVars
<1>7. CASE Lock(u)
  <2>1. \A v \in Users : pc[v] \notin {"pick", "add"}
    BY <1>0, <1>7, NoneIsNothing DEF Lock
  <2> QED BY <1>0, <1>7, <2>1, LessUnique DEF Lock, cacheVars
<1>8. ASSUME Fail(u), pc[u] = "pick" PROVE UniqueInv'
  <2>1. \A v \in Users : v # u => pc[v] \notin {"pick", "add"}
    BY <1>0, <1>8
  <2> QED BY <1>0, <1>8, <2>1, LessUnique DEF Fail, cacheVars
<1>9. CASE PickUnset(u)
  BY <1>8, <1>9 DEF PickUnset
<1>10. CASE DynamicIP(u)
  <2>1. net \in Nets /\ net.size # 0 /\ pc[u] = "pick" /\ Settled(lease, net)
    BY <1>0, <1>10 DEF DynamicIP, TypeInv
  <2>2. CASE DynamicRange(net) \ Taken # {}
    <3> DEFINE a == Min(DynamicRange(net) \ Taken)
    <3>1. Settle(u, a, {})
      BY <1>10, <2>2 DEF DynamicIP
    <3>2. a \in Nat /\ a \notin Taken /\ Rebase(a, net) = a
      BY <1>0, <2>1, LeastIdle
    <3> HIDE DEF a
    <3>3. \A v \in Users : lease[v] # a
      BY <3>2, NoneIsNothing DEF Taken
    <3> QED BY <2>1, <3>1, <3>2, <3>3, PickUnique
  <2>3. ASSUME NEW v \in Users, lease[v] # None, Settle(u, lease[v], {v}) PROVE UniqueInv'
    <3>1. Rebase(lease[v], net) = lease[v]
      BY <2>1, <2>3 DEF Settled
    <3>2. \A w \in Users : lease[w] = lease[v] => w \in {v}
      BY <2>3 DEF UniqueInv, Distinct
    <3> QED BY <2>1, <2>3, <3>1, <3>2, PickUnique
  <2> QED BY <1>8, <1>10, <2>1, <2>2, <2>3 DEF DynamicIP
<1>11. CASE StaticIP(u)
  <2> DEFINE a == Rebase(req[u], net)
  <2>1. net \in [ip : Nat, size : Nat] /\ req[u] \in Nat /\ pc[u] = "pick"
    BY <1>0, <1>11, NetsAreNumbers, RequestsAreAddresses DEF StaticIP, TypeInv, TypeOK
  <2>2. a \in Nat /\ Rebase(a, net) = a
    BY <2>1, RebaseOnce
  <2>3. a # None /\ lease[u] = None
    BY <1>0, <2>1, <2>2, NoneIsNothing
  <2>4. CASE HoldersOf(a) \ {u} = {}
    <3>1. Settle(u, a, {})
      BY <1>11, <2>4 DEF StaticIP
    <3>2. \A v \in Users : lease[v] = a => v \in {}
      BY <2>3, <2>4 DEF HoldersOf
    <3> HIDE DEF a
    <3> QED BY <2>1, <2>2, <3>1, <3>2, PickUnique
  <2>5. ASSUME NEW v \in HoldersOf(a), Settle(u, a, {v}) PROVE UniqueInv'
    <3>1. \A w \in Users : lease[w] = a => w \in {v}
      BY <2>3 DEF HoldersOf, UniqueInv, Distinct
    <3> HIDE DEF a
    <3> QED BY <2>1, <2>2, <2>5, <3>1, PickUnique
  <2> QED BY <1>8, <1>11, <2>1, <2>4, <2>5 DEF StaticIP
<1>12. CASE AddUser(u)
  BY <1>12, AddUnique
<1>13. CASE Orphaned(u)
  BY <1>0, <1>13, LessUnique DEF Orphaned, cacheVars
<1>14. CASE LeaseExp(u)
  <2>1. /\ saved' = [net |-> net, lease |-> lease] /\ net # None /\ Quiet
        /\ UNCHANGED <<net, lease, userVars, adminVars>>
    BY <1>0, <1>14 DEF LeaseExp, Save
  <2>2. SavedInv'
    BY <1>0, <2>1 DEF UniqueInv, SavedInv
  <2>3. NetInv'
    BY <1>0, <2>1, NetKept DEF UniqueInv
  <2> QED BY <2>1, <2>2, <2>3 DEF UniqueInv, UserInv, userVars
<1> QED BY <1>1, <1>2, <1>3, <1>4, <1>5, <1>6, <1>7, <1>9, <1>10, <1>11, <1>12, <1>13, <1>14

(* While no LeaseIP runs, its part is about nobody. *)
LEMMA NobodyRuns ==
    ASSUME \A u \in Users : pc'[u] \in {"idle", "orphan"}
    PROVE  UserInv'
BY DEF UserInv

(* Each step of an AddNetwork keeps the leases apart. *)
LEMMA AdminUnique ==
    ASSUME Orderly, TypeInv, UniqueInv, NEW a \in Admins,
           \/ \E n \in Networks : AddNetwork(a, n)
           \/ Create(a) \/ SetIP(a) \/ SetPrefix(a) \/ ClearUsers(a)
    PROVE  UniqueInv'
<1> USE DEF Setting
<1>0. /\ ~Overlap
      /\ \A b \in Admins : b = a
      /\ apc \in [Admins -> {"idle", "create", "ip", "prefix", "clear"}]
      /\ before \in [Admins -> Nets \cup {None}]
      /\ apc[a] # "idle" => AllIdle
      /\ Quiet <=> apc[a] = "idle"
      /\ apc[a] = "create" => net = None
      /\ apc[a] \in Setting => before[a] # None /\ Settled(lease, before[a]) /\ net # None
      /\ net = None => lease = NoLeases
  BY DEF Orderly, UniqueInv, NetInv, Quiet, TypeInv, TypeOK
<1>1. AllIdle /\ UNCHANGED pc
  BY <1>0 DEF AddNetwork, Create, SetIP, SetPrefix, ClearUsers, userVars
<1>2. UserInv' /\ AllIdle'
  BY <1>1, NobodyRuns DEF AllIdle
<1>3. ASSUME NEW n \in Networks, AddNetwork(a, n) PROVE UniqueInv'
  <2>1. /\ apc[a] = "idle" /\ UNCHANGED <<net, lease, saved>>
        /\ before' = [before EXCEPT ![a] = net]
        /\ apc' = [apc EXCEPT ![a] = IF net = None THEN "create" ELSE "ip"]
    BY <1>3 DEF AddNetwork, cacheVars
  <2>2. net # None => Settled(lease, net)
    BY <1>0, <2>1 DEF UniqueInv, NetInv
  <2>3. /\ apc'[a] = IF net = None THEN "create" ELSE "ip"
        /\ before'[a] = net
    BY <1>0, <2>1
  <2>4. ~Quiet'
    BY <2>3 DEF Quiet
  <2>5. NetInv'
    BY <1>0, <1>2, <2>1, <2>2, <2>3, <2>4 DEF NetInv
  <2> QED BY <1>2, <2>1, <2>5 DEF UniqueInv, SavedInv
<1>4. CASE Create(a)
  <2>1. /\ net = None /\ apc[a] = "create" /\ net' = Unset /\ UNCHANGED lease
        /\ saved' = [net |-> Unset, lease |-> NoLeases]
        /\ before' = [before EXCEPT ![a] = Unset]
        /\ apc' = [apc EXCEPT ![a] = "ip"]
    BY <1>0, <1>4 DEF Create, Save
  <2>2. Unset # None /\ apc'[a] = "ip" /\ before'[a] = Unset /\ lease' = NoLeases
    BY <1>0, <2>1, UnsetIsNet, NetsAreNumbers
  <2>3. \A n : Settled(NoLeases, n)
    BY DEF Settled, NoLeases
  <2>4. Distinct(NoLeases)
    BY DEF Distinct, NoLeases
  <2>5. SavedInv'
    BY <2>1, <2>2, <2>3, <2>4 DEF SavedInv
  <2>6. ~Quiet'
    BY <2>2 DEF Quiet
  <2>7. NetInv'
    BY <1>0, <1>2, <2>1, <2>2, <2>3, <2>6 DEF NetInv
  <2> QED BY <1>2, <2>2, <2>4, <2>5, <2>7 DEF UniqueInv
<1>5. ASSUME net' # None, UNCHANGED <<lease, saved, before>>, apc[a] \in Setting,
             \E l \in Setting : apc' = [apc EXCEPT ![a] = l]
      PROVE  UniqueInv'
  <2>1. apc'[a] \in Setting
    BY <1>0, <1>5
  <2>2. ~Quiet'
    BY <2>1 DEF Quiet
  <2>3. NetInv'
    BY <1>0, <1>2, <1>5, <2>1, <2>2 DEF NetInv
  <2> QED BY <1>2, <1>5, <2>3 DEF UniqueInv, SavedInv
<1>6. CASE SetIP(a)
  <2>1. TypeInv'
    BY <1>6, AdminTypes
  <2>2. apc'[a] = "prefix"
    BY <1>0, <1>6 DEF SetIP
  <2>3. net' # None
    BY <2>1, <2>2 DEF TypeInv
  <2> QED BY <1>5, <1>6, <2>3 DEF SetIP
<1>7. CASE SetPrefix(a)
  <2>1. TypeInv'
    BY <1>7, AdminTypes
  <2>2. apc'[a] = "clear"
    BY <1>0, <1>7 DEF SetPrefix
  <2>3. net' # None
    BY <2>1, <2>2 DEF TypeInv
  <2> QED BY <1>5, <1>7, <2>3 DEF SetPrefix
<1>8. CASE ClearUsers(a)
  <2>1. /\ apc[a] = "clear" /\ net' = net /\ net # None
        /\ saved' = [net |-> net, lease |-> lease']
        /\ apc' = [apc EXCEPT ![a] = "idle"]
        /\ lease' = NoLeases \/ (lease' = lease /\ net = before[a])
    BY <1>0, <1>8 DEF ClearUsers, Save
  <2>2. Distinct(lease') /\ Settled(lease', net)
    BY <1>0, <2>1 DEF UniqueInv, Distinct, Settled, NoLeases
  <2>3. SavedInv'
    BY <2>1, <2>2 DEF SavedInv
  <2>4. Quiet'
    BY <1>0, <2>1 DEF Quiet
  <2>5. NetInv'
    BY <2>1, <2>2, <2>4 DEF NetInv, Quiet
  <2> QED BY <1>2, <2>2, <2>3, <2>5 DEF UniqueInv
<1> QED BY <1>3, <1>4, <1>6, <1>7, <1>8

LEMMA UniqueStep == Orderly /\ TypeInv /\ UniqueInv /\ [Next]_vars => UniqueInv'
<1> SUFFICES ASSUME Orderly, TypeInv, UniqueInv, [Next]_vars PROVE UniqueInv'
  OBVIOUS
<1> USE DEF adminVars, userVars, cacheVars
<1>1. ASSUME UNCHANGED <<net, lease, saved, userVars, adminVars>> PROVE UniqueInv'
  BY <1>1 DEF UniqueInv, SavedInv, UserInv, NetInv, Quiet, AllIdle
<1>2. CASE RemoveNetwork
  <2>1. /\ net' = None /\ lease' = NoLeases
        /\ saved' = [net |-> None, lease |-> NoLeases]
        /\ pc' \in [Users -> {"idle", "orphan"}]
        /\ apc' = [a \in Admins |-> IF apc[a] = "create" THEN "create" ELSE "idle"]
        /\ AllIdle => AllIdle'
    BY <1>2 DEF RemoveNetwork, AllIdle
  <2>2. Distinct(NoLeases)
    BY DEF Distinct, NoLeases
  <2>3. Quiet => Quiet'
    BY <2>1 DEF Quiet
  <2>4. NetInv'
    BY <2>1, <2>3 DEF UniqueInv, NetInv, Setting
  <2>5. UserInv'
    BY <2>1, NobodyRuns
  <2> QED BY <2>1, <2>2, <2>4, <2>5 DEF UniqueInv, SavedInv
<1>3. CASE Restart
  <2>1. /\ net' = saved.net /\ lease' = saved.lease /\ saved' = saved
        /\ \A u \in Users : pc'[u] = "idle"
        /\ \A a \in Admins : apc'[a] = "idle"
    BY <1>3 DEF Restart
  <2>2. UserInv'
    BY <2>1, NobodyRuns
  <2>3. NetInv'
    BY <2>1 DEF UniqueInv, SavedInv, NetInv, Quiet, Setting
  <2> QED BY <2>1, <2>2, <2>3 DEF UniqueInv, SavedInv
<1>4. CASE UNCHANGED vars
  BY <1>1, <1>4 DEF vars
<1>5. CASE Day
  BY <1>1, <1>5 DEF Day
<1> QED BY <1>2, <1>3, <1>4, <1>5, UserUnique, AdminUnique DEF Next, AddNetworkAny, ClearTask

(* With one administrator who does not overlap the users' requests, and
   networks with room for every user, no address of LeaseServerTreansfer is
   ever leased twice: through renewals, lost removals, allocations from the
   least idle address or the oldest lease, changes and removals of the
   network, expiries and restarts. *)
THEOREM UniqueWithoutOverlap == Orderly /\ Spec => []UniqueLeases
<1> SUFFICES ASSUME Orderly PROVE Spec => []UniqueLeases
  OBVIOUS
<1>1. UniqueInv => UniqueLeases
  BY DEF UniqueInv, Distinct, UniqueLeases
<1>2. TypeInv /\ UniqueInv /\ [Next]_vars => UniqueInv'
  BY UniqueStep
<1> QED BY <1>1, <1>2, TypeInit, TypeStep, UniqueInit, PTL DEF Spec

------------------------------------------------------------------------------
(* Leases that have not run out stay where they are. *)

LEMMA LeastOfDays ==
    Min({StaticDays, IPDays}) <= StaticDays /\ Min({StaticDays, IPDays}) <= IPDays
<1>1. \E x \in {StaticDays, IPDays} : \A y \in {StaticDays, IPDays} : x <= y
  BY AgesOrdered
<1>2. \A y \in {StaticDays, IPDays} : Min({StaticDays, IPDays}) <= y
  BY <1>1 DEF Min
<1> QED BY <1>2

(* What an allocation takes from others has run out. *)
TakesOld(v, a, vs) ==
    \A u \in Users : u # v /\ lease[u] # None /\ (u \in vs \/ lease[u] = a)
                        => age[u] > StaticDays \/ age[u] > IPDays

LEMMA PickTakesOld ==
    ASSUME TypeInv, UniqueInv, Orderly, NEW v \in Users,
           DynamicIP(v) \/ StaticIP(v), ~Fail(v)
    PROVE  \E a, vs : Settle(v, a, vs) /\ TakesOld(v, a, vs)
<1>1. pc[v] = "pick" /\ lease[v] = None /\ net # None
  BY DEF DynamicIP, StaticIP, UniqueInv, UserInv, TypeInv
<1>2. CASE DynamicIP(v)
  <2>1. CASE DynamicRange(net) \ Taken # {}
    <3> DEFINE a == Min(DynamicRange(net) \ Taken)
    <3>1. Settle(v, a, {})
      BY <1>2, <2>1 DEF DynamicIP
    <3>2. a \notin Taken /\ a \in Nat
      BY <1>1, <1>2, LeastIdle DEF DynamicIP, TypeInv
    <3> HIDE DEF a
    <3>3. TakesOld(v, a, {})
      BY <3>2, NoneIsNothing DEF TakesOld, Taken
    <3> QED BY <3>1, <3>3
  <2>2. CASE DynamicRange(net) \ Taken = {}
    <3>1. PICK w \in Users : lease[w] # None /\ age[w] > IPDays /\ Settle(v, lease[w], {w})
      BY <1>2, <2>2 DEF DynamicIP
    <3>2. TakesOld(v, lease[w], {w})
      BY <3>1 DEF TakesOld, UniqueInv, Distinct
    <3> QED BY <3>1, <3>2
  <2> QED BY <2>1, <2>2
<1>3. CASE StaticIP(v)
  <2> DEFINE a == Rebase(req[v], net)
  <2>1. CASE HoldersOf(a) \ {v} = {}
    <3>1. Settle(v, a, {})
      BY <1>3, <2>1 DEF StaticIP
    <3>2. TakesOld(v, a, {})
      BY <2>1 DEF TakesOld, HoldersOf
    <3> QED BY <3>1, <3>2
  <2>2. CASE HoldersOf(a) \ {v} # {}
    <3>1. PICK w \in HoldersOf(a) \ {v} : age[w] > StaticDays /\ Settle(v, a, {w})
      BY <1>3, <2>2 DEF StaticIP
    <3>2. TakesOld(v, a, {w})
      BY <3>1 DEF TakesOld, HoldersOf, UniqueInv, Distinct
    <3> QED BY <3>1, <3>2
  <2> QED BY <2>1, <2>2
<1> QED BY <1>2, <1>3

LEMMA NoStealStep ==
    ASSUME TypeInv, UniqueInv, Orderly, [Next]_vars, NEW u \in Users, NEW v \in Users,
           u # v, lease[u] # None, pc[v] = "pick", pc'[v] = "add",
           lease[u] \in {val'[v]} \cup ({lease[u]} \ {lease'[u]})
    PROVE  age[u] > Min({StaticDays, IPDays})
<1>1. DynamicIP(v) \/ StaticIP(v)
  <2> USE DEF Finish, adminVars, userVars, cacheVars
  <2>0. pc \in [Users -> Places]
    BY DEF TypeInv, TypeOK, Places
  <2>1. ASSUME UNCHANGED pc PROVE FALSE
    BY <2>1
  <2>2. ASSUME NEW w \in Users, NEW p \in Places, pc' = [pc EXCEPT ![w] = p]
        PROVE  w = v /\ p = "add"
    BY <2>0, <2>2
  <2>3. CASE UNCHANGED vars \/ Day \/ RemoveNetwork \/ Restart
    BY <2>3 DEF vars, Day, RemoveNetwork, Restart
  <2>4. ASSUME NEW a \in Admins,
               \/ \E n \in Networks : AddNetwork(a, n)
               \/ Create(a) \/ SetIP(a) \/ SetPrefix(a) \/ ClearUsers(a)
        PROVE  FALSE
    BY <2>1, <2>4 DEF AddNetwork, Create, SetIP, SetPrefix, ClearUsers
  <2>5. ASSUME NEW w \in Users,
               \/ \E r \in Requests \cup {AnyIP} : LeaseIP(w, r)
               \/ FindRenew(w) \/ RenewWrite(w) \/ FindOther(w) \/ RemoveSelf(w)
               \/ FindNone(w) \/ Lock(w) \/ PickUnset(w) \/ AddUser(w)
               \/ Orphaned(w) \/ LeaseExp(w)
        PROVE  FALSE
    <3>1. \/ UNCHANGED pc
          \/ \E p \in Places \ {"add"} : pc' = [pc EXCEPT ![w] = p]
      BY <2>5 DEF LeaseIP, FindRenew, RenewWrite, FindOther, RemoveSelf, FindNone, Lock,
                  PickUnset, Fail, AddUser, Orphaned, LeaseExp, Places
    <3> QED BY <2>1, <2>2, <3>1
  <2>6. ASSUME NEW w \in Users, DynamicIP(w) \/ StaticIP(w) PROVE w = v
    <3>1. \E p \in Places : pc' = [pc EXCEPT ![w] = p]
      BY <2>6 DEF DynamicIP, StaticIP, Settle, Fail, Places
    <3> QED BY <2>2, <3>1
  <2> QED BY <2>3, <2>4, <2>5, <2>6 DEF Next, AddNetworkAny, ClearTask
<1>2. ~Fail(v)
  BY DEF Fail, Finish, TypeInv, TypeOK
<1>3. PICK a, vs : Settle(v, a, vs) /\ TakesOld(v, a, vs)
  BY <1>1, <1>2, PickTakesOld
<1>4. val'[v] = a /\ (lease'[u] # lease[u] => u \in vs)
  BY <1>3 DEF Settle, Evict, TypeInv, TypeOK
<1>5. age[u] > StaticDays \/ age[u] > IPDays
  BY <1>3, <1>4 DEF TakesOld
<1>6. age[u] \in Nat /\ Min({StaticDays, IPDays}) \in Nat
  <2>1. \E x \in {StaticDays, IPDays} : \A y \in {StaticDays, IPDays} : x <= y
    BY AgesOrdered
  <2>2. Min({StaticDays, IPDays}) \in {StaticDays, IPDays}
    BY <2>1 DEF Min
  <2>3. age[u] \in 0 .. MaxDays
    BY DEF TypeInv, TypeOK
  <2> QED BY <2>2, <2>3, AgesOrdered
<1> QED BY <1>5, <1>6, LeastOfDays, AgesOrdered

(* Under the same hypothesis a lease that has not run out is not given to
   another user: an allocation takes an address nobody has, or the lease that
   is too old, and no second user stands at that address. *)
THEOREM LiveLeasesStay == Orderly /\ Spec => NoSteal
<1> SUFFICES ASSUME Orderly PROVE Spec => NoSteal
  OBVIOUS
<1>1. TypeInv /\ UniqueInv /\ [Next]_vars => UniqueInv'
  BY UniqueStep
<1> DEFINE Kept == \A u, v \in Users :
              /\ u # v /\ lease[u] # None
              /\ pc[v] = "pick" /\ pc'[v] = "add" /\ Quiet
              /\ lease[u] \in {val'[v]} \cup ({lease[u]} \ {lease'[u]})
              => age[u] > Min({StaticDays, IPDays})
<1>2. TypeInv /\ UniqueInv /\ [Next]_vars => [Kept]_vars
  BY NoStealStep
<1> QED BY <1>1, <1>2, TypeInit, TypeStep, UniqueInit, PTL DEF Spec, NoSteal
===============================================================================
