--------------------------- MODULE WebLists_proofs ----------------------------
(***************************************************************************)
(* Proofs about the lists of the web console: those that are polled        *)
(* (WebPolls), for any component and any of its loops, and those that are  *)
(* loaded on demand (WebSearch), for any of them; and for any number of    *)
(* failures, changes and choices.                                          *)
(*                                                                         *)
(* Each has an invariant, with one lemma for each action that keeps a part *)
(* of it, and a lemma on what it shows.  PollInv says that answers come in *)
(* order, that a hashcode is the version of what is shown, and how many    *)
(* timers and requests a loop has; SearchInv, which request the rows of a  *)
(* list will be the answer of.                                             *)
(***************************************************************************)
EXTENDS WebPolls, WebSearch, FiniteSetTheorems, SequenceTheorems, TLAPS

-------------------------------------------------------------------------------
(* Polled lists *)

Pages == [{"page", "order", "key"} -> {1, 2}]
PollReplies ==
    {NoAnswer, [code |-> "error"]}
    \union [code : {"ok"}, n : Nat, keys : SUBSET Nat, busy : BOOLEAN, page : {1, 2}, full : BOOLEAN]

(* Requests for one of the loops in some set. *)
Polls(names) ==
    [loop : names, left : BOOLEAN, hash : Nat, choice : Pages, answer : PollReplies]

PollTypes ==
    /\ part \in Parts \union {NoPart} /\ open \in BOOLEAN /\ real \in BOOLEAN
    /\ wire \in Seq(Polls(Followed)) /\ timer \subseteq Followed
    /\ stray \in [Followed -> Nat] /\ ghosts \in [Followed -> Nat]
    /\ hash \in [{Loop[l].hash : l \in Followed} -> Nat]
    /\ view \in [Followed -> [n : Nat, of : Pages, any : BOOLEAN, loading : BOOLEAN, busy : BOOLEAN]]
    /\ choice \in [Followed -> Pages]
    /\ source \in [Followed -> [n : Nat, keys : SUBSET Nat, busy : BOOLEAN]]
    /\ did \in [changes : Nat, events : Nat, flying : Nat]

(* The requests of a component that was left. *)
LeftOnes == {i \in DOMAIN wire : wire[i].left}

Owned(l) == Loop[l].hash \notin {"none", "hashcode1"}

(* The requests that are answered are the first ones. *)
InOrder ==
    \A i, j \in DOMAIN wire : i < j /\ wire[j].answer # NoAnswer => wire[i].answer # NoAnswer

(* The answers to the requests of a loop come with newer and newer versions,
   none older than what is shown or newer than what there is to show; and one
   that says that nothing changed says so of what is shown. *)
Awaited(l) ==
    \A i \in Flying(l) :
        /\ wire[i].hash <= view[l].n
        /\ wire[i].answer.code = "ok" =>
              /\ view[l].n <= wire[i].answer.n /\ wire[i].answer.n <= source[l].n
              /\ wire[i].answer.full \/ wire[i].hash = wire[i].answer.n
              /\ \A j \in Flying(l) :
                    j > i /\ wire[j].answer.code = "ok" => wire[i].answer.n <= wire[j].answer.n

(* The hashcode is the version of what is shown. *)
HashIsShown(l) ==
    /\ view[l].n <= source[l].n
    /\ hash[Loop[l].hash] \in {0, view[l].n}
    /\ real /\ Loop[l].hash = "hashcode" => hash[Loop[l].hash] = 0

HashInv == \A l \in Followed : Owned(l) => HashIsShown(l) /\ Awaited(l)

(* A loop that goes on has one timer or one request; if there are more, not all
   of them are timers that nobody can clear. *)
LoopInv ==
    /\ ~open => timer = {} /\ LeftOnes = DOMAIN wire /\ \A l \in Followed : stray[l] = 0
    /\ \A l \in Followed :
          /\ Loop[l].again = "never" => l \notin timer /\ stray[l] = 0
          /\ open /\ Loop[l].again = "always" =>
                /\ Chains(l) >= stray[l] + 1
                /\ Loop[l].restarts \/ Chains(l) = 1

GhostsOf(names, g) == {x \in names \X Nat : 1 <= x[2] /\ x[2] <= g[x[1]]}
Ghosts == GhostsOf(Followed, ghosts)

(* The loops of the list of plans beyond the first. *)
Extra == IF open /\ "plans" \in Followed THEN Chains("plans") - 1 ELSE 0

(* What goes on for a component that was left, and the loops beyond the first
   of the list of plans, were requests under way. *)
GhostInv ==
    part # NoPart /\ Here.clears =>
        /\ IsFiniteSet(Ghosts)
        /\ Cardinality(Ghosts) + Cardinality(LeftOnes) + Extra <= did.flying

PollInv == PollTypes /\ InOrder /\ HashInv /\ LoopInv /\ GhostInv

-------------------------------------------------------------------------------
(* The loops and the components *)

Hashes == {"none", "tuntap", "socks5", "tunnel", "forward", "sforward", "updater", "access",
           "hashcode", "hashcode1"}
LoopRecords ==
    [hash : Hashes, frail : BOOLEAN, paged : BOOLEAN, again : {"always", "never", "busy"},
     shows : BOOLEAN, switch : BOOLEAN, restarts : BOOLEAN]

(* The loop that has a hashcode for itself. *)
Owner(h) == IF h = "hashcode" THEN "forwardConnections" ELSE h

LoopOK(l, r) ==
    /\ r \in LoopRecords
    /\ r.hash \notin {"none", "hashcode1"} => r.shows /\ ~r.frail /\ Owner(r.hash) = l
    /\ r.restarts => r.again = "always" /\ r.hash = "none" /\ l = "plans"
    /\ r.again = "busy" => l = "updaterServer"
    /\ l = "plans" => r.restarts

LEMMA VersionedIs ==
    /\ LoopOK("forwardConnections", Versioned("hashcode"))
    /\ LoopOK("tuntapConnections", Versioned("hashcode1"))
    /\ LoopOK("socks5Connections", Versioned("hashcode1"))
    /\ LoopOK("forward", Versioned("forward")) /\ LoopOK("sforward", Versioned("sforward"))
    /\ LoopOK("updater", Versioned("updater")) /\ LoopOK("access", Versioned("access"))
    /\ LoopOK("tunnel", Versioned("tunnel"))
    /\ LoopOK("tuntap", _getTuntapInfo) /\ LoopOK("socks5", _getSocks5Info)
BY DEF Plain, Versioned, LoopRecords, Hashes, LoopOK, Owner, _getTuntapInfo, _getSocks5Info

LEMMA LoopIs == \A l \in DOMAIN Loop : LoopOK(l, Loop[l])
<1> TAKE l \in DOMAIN Loop
<1>1. CASE l \in {"signList1", "stopwatch", "relayNodes", "sforwardNodes", "connectionNodes",
                  "testTarget", "testLocal", "forwardTest"}
  <2>1. Loop[l] = Plain
    BY <1>1 DEF Loop, _getSignList1, _getStopwatch, _setRelaySubscribe, _setSForwardSubscribe,
                _subscribeNodes, _testTargetForwardInfo, _testLocalSForwardInfo, _subscribeForwardTest
  <2> QED BY <1>1, <2>1 DEF Plain, LoopOK, LoopRecords, Hashes
<1>2. CASE l \in {"p2pOperating", "relayOperating", "subscribeUpdater"}
  <2>1. Loop[l] \in {getTunnelOperating, getRelayOperating, _subscribeUpdater}
    BY <1>2 DEF Loop
  <2> QED BY <1>2, <2>1 DEF getTunnelOperating, getRelayOperating, _subscribeUpdater, Plain, LoopOK,
                            LoopRecords, Hashes
<1>3. CASE l \in {"relayFlows", "sforwardFlows", "forwardFlows", "socks5Flows", "tunnelFlows"}
  <2>1. Loop[l] = Paged
    BY <1>3 DEF Loop, _getRelayFlows, _getSForwardFlows, _getForwardFlows, _getSocks5Flows,
                _getTunnelFlows
  <2> QED BY <1>3, <2>1 DEF Paged, Plain, LoopOK, LoopRecords, Hashes
<1>4. CASE l \in {"names", "onlineMap", "citys"}
  <2>1. Loop[l] = [Plain EXCEPT !.again = "never"]
    BY <1>4 DEF Loop, _getNames, _getOnlineMap, _getCitys, Once
  <2> QED BY <1>4, <2>1 DEF Plain, LoopOK, LoopRecords, Hashes
<1>5. CASE l \in {"flows", "messengerFlows"}
  <2>1. Loop[l] \in {_getFlows, _getMessengerFlows}
    BY <1>5 DEF Loop
  <2> QED BY <1>5, <2>1 DEF _getFlows, _getMessengerFlows, Plain, LoopOK, LoopRecords, Hashes
<1>6. CASE l \in {"tunnel", "forward", "sforward", "updater", "access"}
  <2>1. \/ l = "tunnel" /\ Loop[l] = _getTunnelInfo
        \/ l = "forward" /\ Loop[l] = _getForwardCountInfo
        \/ l = "sforward" /\ Loop[l] = _getSForwardCountInfo
        \/ l = "updater" /\ Loop[l] = _getUpdater
        \/ l = "access" /\ Loop[l] = _getAccessInfo
    BY <1>6 DEF Loop
  <2> QED BY <2>1, VersionedIs DEF _getTunnelInfo, _getForwardCountInfo, _getSForwardCountInfo,
             _getUpdater, _getAccessInfo
<1>7. CASE l \in {"tuntap", "socks5"}
  <2>1. \/ l = "tuntap" /\ Loop[l] = _getTuntapInfo
        \/ l = "socks5" /\ Loop[l] = _getSocks5Info
    BY <1>7 DEF Loop
  <2> QED BY <2>1, VersionedIs
<1>8. CASE l = "forwardConnections"
  <2>1. Loop[l] = _getForwardConnections
    BY <1>8 DEF Loop
  <2> QED BY <1>8, <2>1, VersionedIs DEF _getForwardConnections
<1>9. CASE l \in {"tuntapConnections", "socks5Connections"}
  <2>1. \/ l = "tuntapConnections" /\ Loop[l] = _getTuntapConnections
        \/ l = "socks5Connections" /\ Loop[l] = _getSocks5Connections
    BY <1>9 DEF Loop
  <2> QED BY <2>1, VersionedIs DEF _getTuntapConnections, _getSocks5Connections
<1>10. CASE l = "updaterServer"
  <2>1. Loop[l] = [Plain EXCEPT !.again = "busy"]
    BY <1>10 DEF Loop, _getUpdaterServer
  <2> QED BY <1>10, <2>1 DEF Plain, LoopOK, LoopRecords, Hashes
<1>11. CASE l = "plans"
  <2>1. Loop[l] = [Plain EXCEPT !.restarts = TRUE]
    BY <1>11 DEF Loop, _getPlans
  <2> QED BY <1>11, <2>1 DEF Plain, LoopOK, LoopRecords, Hashes
<1> QED BY <1>1, <1>2, <1>3, <1>4, <1>5, <1>6, <1>7, <1>8, <1>9, <1>10, <1>11 DEF Loop

(* What the components that clear their timers start. *)
ComponentOK(c) ==
    /\ \A i \in DOMAIN c.loops : /\ c.loops[i] \in DOMAIN Loop
                                 /\ c.clears => c.loops[i] # "updaterServer"
                                 /\ c.loops[i] = "plans" => DOMAIN c.loops = {1}

LEMMA ComponentsAre == \A c \in DOMAIN Components : ComponentOK(Components[c])
<1> DEFINE Names == DOMAIN Loop
           Lone == {"flows", "messengerFlows", "relayFlows", "sforwardFlows", "onlineMap", "citys",
                    "stopwatch", "relayNodes", "sforwardNodes", "connectionNodes", "testTarget",
                    "forwardTest", "plans"}
<1>0. /\ {"signList1", "tuntap", "socks5", "tunnel", "p2pOperating", "relayOperating",
          "forwardConnections", "tuntapConnections", "socks5Connections", "forward", "sforward",
          "updater", "subscribeUpdater", "access", "forwardFlows", "socks5Flows",
          "tunnelFlows", "names", "updaterServer", "testLocal"} \subseteq Names
      /\ Lone \subseteq Names
  BY DEF Loop
<1>1. \A x : Component(x, {}).loops = x /\ \A y : Component(x, y).loops = x /\ Component(x, y).clears = TRUE
  BY DEF Component
<1> HIDE DEF Names
<1>2. ComponentOK(ListIndex)
  BY <1>0, <1>1 DEF ListIndex, Names, ComponentOK
<1>3. ComponentOK(NetList)
  BY <1>0, <1>1 DEF NetList, Names, ComponentOK
<1>4. /\ ComponentOK(ServerFlowForward) /\ ComponentOK(ServerFlowSocks5)
      /\ ComponentOK(ServerFlowTunnel) /\ ComponentOK(SForwardTests)
  BY <1>0, <1>1 DEF ServerFlowForward, ServerFlowSocks5, ServerFlowTunnel, SForwardTests, Names, ComponentOK
<1>5. ASSUME NEW l \in Lone, NEW offers PROVE ComponentOK(Component(<<l>>, offers))
  BY <1>0, <1>1, <1>5 DEF Names, ComponentOK
<1>6. ComponentOK(ServerVersion)
  BY <1>0 DEF ServerVersion, Component, Names, ComponentOK
<1>7. /\ ComponentOK(FlowIndex) /\ ComponentOK(ServerFlowMessenger) /\ ComponentOK(ServerFlowRelay)
      /\ ComponentOK(ServerFlowSForward) /\ ComponentOK(OnlineMap) /\ ComponentOK(OnlineAllMap)
  BY <1>5 DEF FlowIndex, ServerFlowMessenger, ServerFlowRelay, ServerFlowSForward, OnlineMap, OnlineAllMap
<1>8. /\ ComponentOK(Stopwatch) /\ ComponentOK(RelayConfig) /\ ComponentOK(ForwardConfig)
      /\ ComponentOK(ConnectionsEdit) /\ ComponentOK(ForwardTests)
      /\ ComponentOK(TuntapForwardTests) /\ ComponentOK(PlanList)
  BY <1>5 DEF Stopwatch, RelayConfig, ForwardConfig, ConnectionsEdit, ForwardTests,
              TuntapForwardTests, PlanList
<1> QED BY <1>2, <1>3, <1>4, <1>6, <1>7, <1>8 DEF Components

(* What is followed are loops of the component. *)
LEMMA FollowedIs ==
    ASSUME NEW p \in Parts
    PROVE  /\ p # NoPart /\ p.loops \in Seq(STRING) /\ Len(p.loops) \in Nat
           /\ DOMAIN p.loops = 1 .. Len(p.loops)
           /\ \A i \in DOMAIN p.loops : p.loops[i] \in DOMAIN Loop
           /\ \A i, j \in DOMAIN p.loops : p.loops[i] = p.loops[j] => i = j
           /\ Components[p.of].clears => \A i \in DOMAIN p.loops : p.loops[i] # "updaterServer"
           /\ (\E i \in DOMAIN p.loops : p.loops[i] = "plans") =>
                 \A i \in DOMAIN p.loops : p.loops[i] = "plans"
<1> DEFINE c == Components[p.of]
<1>1. p.of \in DOMAIN Components /\ p.loops \in Seq(STRING)
  BY WebPollsAssumption DEF WebPollsAssumption
<1>2. p # NoPart
  <2>1. "none" \notin DOMAIN Components
    BY DEF Components
  <2> QED BY <1>1, <2>1 DEF NoPart
<1>3. Len(p.loops) \in Nat /\ DOMAIN p.loops = 1 .. Len(p.loops)
  BY <1>1, LenProperties
<1>4. ComponentOK(c)
  BY <1>1, ComponentsAre
<1>5. ASSUME NEW i \in DOMAIN p.loops PROVE \E j \in DOMAIN c.loops : p.loops[i] = c.loops[j]
  BY WebPollsAssumption DEF WebPollsAssumption
<1>6. \A i, j \in DOMAIN p.loops : p.loops[i] = p.loops[j] => i = j
  BY WebPollsAssumption DEF WebPollsAssumption
<1> HIDE DEF c
<1>7. \A i \in DOMAIN p.loops : p.loops[i] \in DOMAIN Loop
  BY <1>4, <1>5 DEF ComponentOK
<1>8. c.clears => \A i \in DOMAIN p.loops : p.loops[i] # "updaterServer"
  BY <1>4, <1>5 DEF ComponentOK
<1>9. ASSUME NEW i \in DOMAIN p.loops, p.loops[i] = "plans", NEW j \in DOMAIN p.loops
      PROVE  p.loops[j] = "plans"
  BY <1>4, <1>5, <1>9 DEF ComponentOK
<1> QED BY <1>1, <1>2, <1>3, <1>6, <1>7, <1>8, <1>9 DEF c

LEMMA PartIs ==
    ASSUME part \in Parts \union {NoPart}
    PROVE  /\ Followed \subseteq DOMAIN Loop
           /\ part = NoPart => Followed = {}
           /\ part # NoPart /\ Here.clears => "updaterServer" \notin Followed
           /\ "plans" \in Followed => Followed = {"plans"}
           /\ \A l \in Followed : LoopOK(l, Loop[l])
<1>1. part = NoPart => Followed = {}
  BY DEF NoPart, Followed
<1>2. CASE part = NoPart
  BY <1>1, <1>2
<1>3. CASE part \in Parts
  <2>1. Followed \subseteq DOMAIN Loop
    BY <1>3, FollowedIs DEF Followed
  <2>2. "plans" \in Followed => Followed = {"plans"}
    BY <1>3, FollowedIs DEF Followed
  <2>3. Here.clears => "updaterServer" \notin Followed
    BY <1>3, FollowedIs DEF Followed, Here
  <2> QED BY <1>1, <2>1, <2>2, <2>3, LoopIs
<1> QED BY <1>2, <1>3

-------------------------------------------------------------------------------
(* Counting requests *)

FlyingOf(q, l) == {i \in DOMAIN q : q[i].loop = l /\ ~q[i].left}
LeftOf(q) == {i \in DOMAIN q : q[i].left}

(* Indices of a queue, and those of its rest. *)
LEMMA ShiftCount ==
    ASSUME NEW n \in Nat, NEW I, I \subseteq 1 .. (n + 1), NEW J, J \subseteq 1 .. n,
           \A i \in 1 .. n : i \in J <=> i + 1 \in I
    PROVE  /\ IsFiniteSet(I) /\ IsFiniteSet(J) /\ Cardinality(I) \in Nat /\ Cardinality(J) \in Nat
           /\ 1 \in I => Cardinality(J) = Cardinality(I) - 1
           /\ 1 \notin I => Cardinality(J) = Cardinality(I)
<1>1. IsFiniteSet(I) /\ IsFiniteSet(J)
  <2>1. IsFiniteSet(1 .. (n + 1)) /\ IsFiniteSet(1 .. n)
    BY FS_Interval
  <2> QED BY <2>1, FS_Subset
<1>2. Cardinality(I) \in Nat /\ Cardinality(J) \in Nat
  BY <1>1, FS_CardinalityType
<1> DEFINE K == I \ {1}
           f == [j \in J |-> j + 1]
<1>3. f \in Bijection(J, K)
  <2>1. f \in [J -> K]
    OBVIOUS
  <2>2. \A a, b \in J : f[a] = f[b] => a = b
    OBVIOUS
  <2>3. \A k \in K : \E j \in J : f[j] = k
    <3>1. ASSUME NEW k \in K PROVE k - 1 \in J /\ f[k - 1] = k
      OBVIOUS
    <3> QED BY <3>1
  <2> HIDE DEF f
  <2> QED BY <2>1, <2>2, <2>3 DEF Bijection, Injection, Surjection, IsInjective
<1>4. ExistsBijection(J, K)
  BY <1>3 DEF ExistsBijection
<1>5. Cardinality(J) = Cardinality(K)
  BY <1>1, <1>4, FS_Bijection
<1>6. 1 \in I => Cardinality(K) = Cardinality(I) - 1
  BY <1>1, FS_RemoveElement
<1>7. 1 \notin I => K = I
  OBVIOUS
<1> QED BY <1>1, <1>2, <1>5, <1>6, <1>7

(* One more request. *)
LEMMA MoreCount ==
    ASSUME NEW n \in Nat, NEW I, I \subseteq 1 .. n
    PROVE  /\ IsFiniteSet(I) /\ Cardinality(I) \in Nat
           /\ IsFiniteSet(I \union {n + 1}) /\ Cardinality(I \union {n + 1}) = Cardinality(I) + 1
<1>1. IsFiniteSet(I)
  <2>1. IsFiniteSet(1 .. n)
    BY FS_Interval
  <2> QED BY <2>1, FS_Subset
<1>2. n + 1 \notin I
  OBVIOUS
<1> QED BY <1>1, <1>2, FS_AddElement, FS_CardinalityType

LEMMA TailCounts ==
    ASSUME NEW S, NEW q \in Seq(S), q # <<>>
    PROVE  /\ Tail(q) \in Seq(S) /\ Head(q) = q[1] /\ q[1] \in S /\ 1 \in DOMAIN q
           /\ Len(q) \in Nat /\ DOMAIN q = 1 .. Len(q) /\ DOMAIN Tail(q) = 1 .. (Len(q) - 1)
           /\ \A i \in DOMAIN Tail(q) : i + 1 \in DOMAIN q /\ Tail(q)[i] = q[i + 1]
           /\ Cardinality(LeftOf(q)) \in Nat /\ Cardinality(LeftOf(Tail(q))) \in Nat
           /\ Cardinality(LeftOf(Tail(q))) = IF q[1].left THEN Cardinality(LeftOf(q)) - 1
                                             ELSE Cardinality(LeftOf(q))
           /\ \A l : /\ Cardinality(FlyingOf(q, l)) \in Nat
                     /\ Cardinality(FlyingOf(Tail(q), l)) \in Nat
                     /\ Cardinality(FlyingOf(Tail(q), l)) =
                           IF q[1].loop = l /\ ~q[1].left THEN Cardinality(FlyingOf(q, l)) - 1
                           ELSE Cardinality(FlyingOf(q, l))
<1>1. /\ Tail(q) \in Seq(S) /\ Head(q) = q[1] /\ Len(Tail(q)) = Len(q) - 1
      /\ \A i \in 1 .. Len(Tail(q)) : Tail(q)[i] = q[i + 1]
      /\ Len(q) \in Nat /\ Len(q) >= 1
  BY HeadTailProperties, LenProperties, EmptySeq
<1> DEFINE n == Len(q) - 1
           t == Tail(q)
<1>2. n \in Nat /\ DOMAIN q = 1 .. (n + 1) /\ DOMAIN t = 1 .. n /\ Len(q) = n + 1
  BY <1>1, LenProperties
<1>3. \A i \in 1 .. n : t[i] = q[i + 1]
  BY <1>1
<1>4. q[1] \in S
  BY <1>1, ElementOfSeq
<1> HIDE DEF n, t
<1>5. /\ LeftOf(q) \subseteq 1 .. (n + 1) /\ LeftOf(t) \subseteq 1 .. n
      /\ \A i \in 1 .. n : i \in LeftOf(t) <=> i + 1 \in LeftOf(q)
      /\ 1 \in LeftOf(q) <=> q[1].left
  BY <1>2, <1>3 DEF LeftOf
<1>6. /\ Cardinality(LeftOf(q)) \in Nat /\ Cardinality(LeftOf(t)) \in Nat
      /\ Cardinality(LeftOf(t)) = IF q[1].left THEN Cardinality(LeftOf(q)) - 1
                                  ELSE Cardinality(LeftOf(q))
  <2>1. /\ Cardinality(LeftOf(q)) \in Nat /\ Cardinality(LeftOf(t)) \in Nat
        /\ 1 \in LeftOf(q) => Cardinality(LeftOf(t)) = Cardinality(LeftOf(q)) - 1
        /\ 1 \notin LeftOf(q) => Cardinality(LeftOf(t)) = Cardinality(LeftOf(q))
    <3>1. n \in Nat /\ LeftOf(q) \subseteq 1 .. (n + 1) /\ LeftOf(t) \subseteq 1 .. n
      BY <1>2, <1>5
    <3>2. \A i \in 1 .. n : i \in LeftOf(t) <=> i + 1 \in LeftOf(q)
      BY <1>5
    <3> QED BY ONLY <3>1, <3>2, ShiftCount, ZenonT(30)
  <2> QED BY <1>5, <2>1
<1>7. ASSUME NEW l
      PROVE  /\ Cardinality(FlyingOf(q, l)) \in Nat /\ Cardinality(FlyingOf(t, l)) \in Nat
             /\ Cardinality(FlyingOf(t, l)) =
                   IF q[1].loop = l /\ ~q[1].left THEN Cardinality(FlyingOf(q, l)) - 1
                   ELSE Cardinality(FlyingOf(q, l))
  <2>1. /\ FlyingOf(q, l) \subseteq 1 .. (n + 1) /\ FlyingOf(t, l) \subseteq 1 .. n
        /\ \A i \in 1 .. n : i \in FlyingOf(t, l) <=> i + 1 \in FlyingOf(q, l)
        /\ 1 \in FlyingOf(q, l) <=> q[1].loop = l /\ ~q[1].left
    BY <1>2, <1>3 DEF FlyingOf
  <2>2. /\ Cardinality(FlyingOf(q, l)) \in Nat /\ Cardinality(FlyingOf(t, l)) \in Nat
        /\ 1 \in FlyingOf(q, l) => Cardinality(FlyingOf(t, l)) = Cardinality(FlyingOf(q, l)) - 1
        /\ 1 \notin FlyingOf(q, l) => Cardinality(FlyingOf(t, l)) = Cardinality(FlyingOf(q, l))
    <3>1. n \in Nat /\ FlyingOf(q, l) \subseteq 1 .. (n + 1) /\ FlyingOf(t, l) \subseteq 1 .. n
      BY <1>2, <2>1
    <3>2. \A i \in 1 .. n : i \in FlyingOf(t, l) <=> i + 1 \in FlyingOf(q, l)
      BY <2>1
    <3> QED BY ONLY <3>1, <3>2, ShiftCount, ZenonT(30)
  <2> QED BY <2>1, <2>2
<1>8. \A i \in DOMAIN t : i + 1 \in DOMAIN q /\ t[i] = q[i + 1]
  BY <1>2, <1>3
<1>9. 1 \in DOMAIN q /\ DOMAIN q = 1 .. Len(q) /\ DOMAIN t = 1 .. (Len(q) - 1)
  BY <1>2
<1> QED BY <1>1, <1>4, <1>6, <1>7, <1>8, <1>9 DEF t

LEMMA SendCounts ==
    ASSUME NEW S, NEW q \in Seq(S), NEW m \in S
    PROVE  /\ Append(q, m) \in Seq(S) /\ Len(q) \in Nat
           /\ DOMAIN q = 1 .. Len(q) /\ DOMAIN Append(q, m) = 1 .. (Len(q) + 1)
           /\ (\A i \in DOMAIN q : Append(q, m)[i] = q[i]) /\ Append(q, m)[Len(q) + 1] = m
           /\ Cardinality(LeftOf(q)) \in Nat /\ Cardinality(LeftOf(Append(q, m))) \in Nat
           /\ Cardinality(LeftOf(Append(q, m))) = IF m.left THEN Cardinality(LeftOf(q)) + 1
                                                  ELSE Cardinality(LeftOf(q))
           /\ \A l : /\ Cardinality(FlyingOf(q, l)) \in Nat
                     /\ Cardinality(FlyingOf(Append(q, m), l)) \in Nat
                     /\ Cardinality(FlyingOf(Append(q, m), l)) =
                           IF m.loop = l /\ ~m.left THEN Cardinality(FlyingOf(q, l)) + 1
                           ELSE Cardinality(FlyingOf(q, l))
<1> DEFINE a == Append(q, m)
           n == Len(q)
<1>1. /\ a \in Seq(S) /\ Len(a) = n + 1 /\ n \in Nat
      /\ \A i \in 1 .. n : a[i] = q[i]
      /\ a[n + 1] = m
  BY AppendProperties, LenProperties
<1>2. DOMAIN q = 1 .. n /\ DOMAIN a = 1 .. (n + 1)
  BY <1>1, LenProperties
<1> HIDE DEF a, n
<1>3. /\ LeftOf(q) \subseteq 1 .. n
      /\ LeftOf(a) = IF m.left THEN LeftOf(q) \union {n + 1} ELSE LeftOf(q)
  BY <1>1, <1>2 DEF LeftOf
<1>4. /\ Cardinality(LeftOf(q)) \in Nat
      /\ Cardinality(LeftOf(a)) = IF m.left THEN Cardinality(LeftOf(q)) + 1
                                  ELSE Cardinality(LeftOf(q))
  <2>1. Cardinality(LeftOf(q)) \in Nat /\ Cardinality(LeftOf(q) \union {n + 1}) = Cardinality(LeftOf(q)) + 1
    BY <1>1, <1>3, MoreCount
  <2>2. CASE m.left
    BY <1>3, <2>1, <2>2
  <2>3. CASE ~m.left
    BY <1>3, <2>1, <2>3
  <2> QED BY <2>2, <2>3
<1>5. ASSUME NEW l
      PROVE  /\ Cardinality(FlyingOf(q, l)) \in Nat
             /\ Cardinality(FlyingOf(a, l)) =
                   IF m.loop = l /\ ~m.left THEN Cardinality(FlyingOf(q, l)) + 1
                   ELSE Cardinality(FlyingOf(q, l))
  <2>1. /\ FlyingOf(q, l) \subseteq 1 .. n
        /\ FlyingOf(a, l) = IF m.loop = l /\ ~m.left THEN FlyingOf(q, l) \union {n + 1}
                            ELSE FlyingOf(q, l)
    BY <1>1, <1>2 DEF FlyingOf
  <2>2. /\ Cardinality(FlyingOf(q, l)) \in Nat
        /\ Cardinality(FlyingOf(q, l) \union {n + 1}) = Cardinality(FlyingOf(q, l)) + 1
    BY <1>1, <2>1, MoreCount
  <2>3. CASE m.loop = l /\ ~m.left
    BY <2>1, <2>2, <2>3
  <2>4. CASE ~(m.loop = l /\ ~m.left)
    BY <2>1, <2>2, <2>4
  <2> QED BY <2>3, <2>4
<1>6. Cardinality(LeftOf(a)) \in Nat /\ \A l : Cardinality(FlyingOf(a, l)) \in Nat
  BY <1>4, <1>5
<1> QED BY <1>1, <1>2, <1>4, <1>5, <1>6 DEF a, n

LEMMA CountTypes ==
    ASSUME NEW S, NEW q \in Seq(S)
    PROVE  /\ IsFiniteSet(LeftOf(q)) /\ Cardinality(LeftOf(q)) \in Nat
           /\ \A l : IsFiniteSet(FlyingOf(q, l)) /\ Cardinality(FlyingOf(q, l)) \in Nat
<1>1. Len(q) \in Nat /\ DOMAIN q = 1 .. Len(q)
  BY LenProperties
<1>2. LeftOf(q) \subseteq 1 .. Len(q) /\ \A l : FlyingOf(q, l) \subseteq 1 .. Len(q)
  BY <1>1 DEF LeftOf, FlyingOf
<1>3. \A I : I \subseteq 1 .. Len(q) => IsFiniteSet(I) /\ Cardinality(I) \in Nat
  BY <1>1, MoreCount
<1> QED BY <1>2, <1>3

LEMMA Counted ==
    ASSUME NEW S, NEW f \in [S -> Nat], NEW k \in S
    PROVE  /\ [f EXCEPT ![k] = @ + 1] \in [S -> Nat]
           /\ f[k] > 0 => [f EXCEPT ![k] = @ - 1] \in [S -> Nat]
OBVIOUS

LEMMA Happened ==
    ASSUME NEW d \in [changes : Nat, events : Nat, flying : Nat], NEW k \in Nat
    PROVE  /\ d.flying \in Nat
           /\ [d EXCEPT !.events = @ + 1] \in [changes : Nat, events : Nat, flying : Nat]
           /\ [d EXCEPT !.events = @ + 1].flying = d.flying
           /\ [d EXCEPT !.changes = @ + 1] \in [changes : Nat, events : Nat, flying : Nat]
           /\ [d EXCEPT !.changes = @ + 1].flying = d.flying
           /\ [d EXCEPT !.events = @ + 1, !.flying = @ + k]
                 \in [changes : Nat, events : Nat, flying : Nat]
           /\ [d EXCEPT !.events = @ + 1, !.flying = @ + k].flying = d.flying + k
<1>1. d.changes \in Nat /\ d.events \in Nat /\ d.flying \in Nat
  OBVIOUS
<1>2. \A a, b \in Nat :
         /\ [d EXCEPT !.events = a, !.flying = b] \in [changes : Nat, events : Nat, flying : Nat]
         /\ [d EXCEPT !.events = a, !.flying = b].flying = b
  OBVIOUS
<1>3. d.events + 1 \in Nat /\ d.flying + k \in Nat
  BY <1>1
<1>4. /\ [d EXCEPT !.events = @ + 1, !.flying = @ + k]
            \in [changes : Nat, events : Nat, flying : Nat]
      /\ [d EXCEPT !.events = @ + 1, !.flying = @ + k].flying = d.flying + k
  BY <1>2, <1>3
<1> QED BY <1>1, <1>4

LEMMA SetsAre ==
    LeftOnes = LeftOf(wire) /\ \A l : Flying(l) = FlyingOf(wire, l)
BY DEF LeftOnes, LeftOf, Flying, FlyingOf

-------------------------------------------------------------------------------
(* Types *)

LEMMA RequestIs ==
    ASSUME NEW names, NEW l \in names, hash'[Loop[l].hash] \in Nat, choice'[l] \in Pages
    PROVE  /\ Request(l) \in Polls(names) /\ [Request(l) EXCEPT !.left = TRUE] \in Polls(names)
           /\ Request(l).loop = l /\ Request(l).left = FALSE
           /\ Request(l).hash = hash'[Loop[l].hash] /\ Request(l).answer = NoAnswer
           /\ [Request(l) EXCEPT !.left = TRUE].left = TRUE
           /\ [Request(l) EXCEPT !.left = TRUE].loop = l
           /\ [Request(l) EXCEPT !.left = TRUE].answer = NoAnswer
BY DEF Request, Polls, PollReplies

LEMMA HashOf ==
    ASSUME PollTypes, NEW l \in Followed
    PROVE  /\ hash[Loop[l].hash] \in Nat /\ Loop[l].hash \in DOMAIN hash /\ choice[l] \in Pages
           /\ view[l] \in [n : Nat, of : Pages, any : BOOLEAN, loading : BOOLEAN, busy : BOOLEAN]
           /\ source[l] \in [n : Nat, keys : SUBSET Nat, busy : BOOLEAN]
           /\ stray[l] \in Nat /\ ghosts[l] \in Nat
BY DEF PollTypes

LEMMA PollTypesStart == PollsInit => PollTypes
<1> SUFFICES ASSUME PollsInit PROVE PollTypes
  OBVIOUS
<1>1. Followed = {} /\ <<>> \in Seq(Polls({}))
  BY EmptySeq DEF PollsInit, Followed, NoPart
<1>2. did \in [changes : Nat, events : Nat, flying : Nat]
  BY DEF PollsInit
<1>3. \A S : <<>> \in [{} -> S]
  OBVIOUS
<1>4. {Loop[l].hash : l \in Followed} = {}
  BY <1>1
<1> QED BY <1>1, <1>2, <1>3, <1>4 DEF PollsInit, PollTypes

PollViews == [n : Nat, of : Pages, any : BOOLEAN, loading : BOOLEAN, busy : BOOLEAN]
PollSources == [n : Nat, keys : SUBSET Nat, busy : BOOLEAN]

LEMMA MountIs ==
    ASSUME PollTypes, NEW p \in Parts, onMounted(p)
    PROVE  /\ DOMAIN p.loops = 1 .. Len(p.loops) /\ Len(p.loops) \in Nat
           /\ Followed' = {p.loops[i] : i \in DOMAIN p.loops}
           /\ part' = p /\ open' = TRUE /\ real' = FALSE /\ timer' = {} /\ did' = did
           /\ hash' = [h \in {Loop[l].hash : l \in Followed'} |-> 0]
           /\ view' = [l \in Followed' |-> Nothing] /\ choice' = [l \in Followed' |-> FirstPage]
           /\ stray' = [l \in Followed' |-> 0]
           /\ wire \in Seq(Polls(Followed')) /\ wire' \in Seq(Polls(Followed'))
           /\ Len(wire) \in Nat /\ DOMAIN wire = 1 .. Len(wire)
           /\ DOMAIN wire' = 1 .. (Len(wire) + Len(p.loops))
           /\ \A i \in DOMAIN wire : wire'[i] = wire[i]
           /\ \A i \in DOMAIN p.loops :
                 /\ wire'[Len(wire) + i].loop = p.loops[i] /\ wire'[Len(wire) + i].left = FALSE
                 /\ wire'[Len(wire) + i].hash = 0 /\ wire'[Len(wire) + i].answer = NoAnswer
<1>1. /\ p.loops \in Seq(STRING) /\ Len(p.loops) \in Nat /\ DOMAIN p.loops = 1 .. Len(p.loops)
      /\ part' = p /\ open' = TRUE /\ real' = FALSE /\ timer' = {} /\ did' = did
  BY FollowedIs DEF onMounted
<1>2. Followed' = {p.loops[i] : i \in DOMAIN p.loops}
  BY <1>1 DEF Followed
<1>3. FirstPage \in Pages
  BY DEF FirstPage, Pages
<1>4. /\ hash' = [h \in {Loop[l].hash : l \in Followed'} |-> 0]
      /\ view' = [l \in Followed' |-> Nothing] /\ choice' = [l \in Followed' |-> FirstPage]
      /\ stray' = [l \in Followed' |-> 0]
  BY <1>2 DEF onMounted, Provide
<1>5. hash' \in [{Loop[l].hash : l \in Followed'} -> Nat] /\ choice' \in [Followed' -> Pages]
  BY <1>3, <1>4
<1>6. wire \in Seq(Polls(Followed'))
  <2>1. CASE part = p
    BY <1>1, <2>1 DEF Followed, PollTypes
  <2>2. CASE part = NoPart
    <3>1. Followed = {} /\ Polls({}) = {}
      BY <2>2, PartIs DEF Polls, PollTypes
    <3>2. wire \in Seq({})
      BY <3>1 DEF PollTypes
    <3>3. {} \subseteq Polls(Followed')
      OBVIOUS
    <3> QED BY <3>2, <3>3, SeqMonotonic
  <2> QED BY <2>1, <2>2 DEF onMounted
<1>7. \A l \in Followed' : /\ Request(l) \in Polls(Followed') /\ Request(l).loop = l
                           /\ Request(l).left = FALSE /\ Request(l).hash = 0
                           /\ Request(l).answer = NoAnswer
  <2> TAKE l \in Followed'
  <2>1. hash'[Loop[l].hash] = 0 /\ choice'[l] \in Pages
    BY <1>4, <1>5
  <2>2. hash'[Loop[l].hash] \in Nat
    BY <2>1
  <2>3. /\ Request(l) \in Polls(Followed') /\ Request(l).loop = l
        /\ Request(l).left = FALSE /\ Request(l).hash = hash'[Loop[l].hash]
        /\ Request(l).answer = NoAnswer
    BY <2>1, <2>2, RequestIs
  <2> QED BY <2>1, <2>3
<1> DEFINE new == [i \in DOMAIN p.loops |-> Request(p.loops[i])]
<1>8. new \in Seq(Polls(Followed')) /\ Len(new) = Len(p.loops)
      /\ \A i \in DOMAIN p.loops : new[i] = Request(p.loops[i])
  <2>1. \A i \in 1 .. Len(p.loops) : Request(p.loops[i]) \in Polls(Followed')
    BY <1>1, <1>2, <1>7
  <2>2. new \in Seq(Polls(Followed')) /\ DOMAIN new = 1 .. Len(p.loops)
    BY <1>1, <2>1, IsASeq
  <2>3. Len(new) = Len(p.loops)
    BY <1>1, <2>2
  <2> QED BY <2>2, <2>3
<1>9. wire' = wire \o new
  BY DEF onMounted
<1> HIDE DEF new
<1>10. Len(wire) \in Nat /\ DOMAIN wire = 1 .. Len(wire)
  BY <1>6, LenProperties
<1>11. /\ wire' \in Seq(Polls(Followed')) /\ Len(wire') = Len(wire) + Len(p.loops)
       /\ \A i \in 1 .. Len(wire) + Len(p.loops) :
             wire'[i] = IF i <= Len(wire) THEN wire[i] ELSE new[i - Len(wire)]
  <2> DEFINE S == Polls(Followed')
             w == wire
  <2>1. w \in Seq(S) /\ new \in Seq(S)
    BY <1>6, <1>8
  <2> HIDE DEF S, w
  <2>2. /\ w \o new \in Seq(S) /\ Len(w \o new) = Len(w) + Len(new)
        /\ \A i \in 1 .. Len(w) + Len(new) :
              (w \o new)[i] = IF i <= Len(w) THEN w[i] ELSE new[i - Len(w)]
    BY <2>1, ConcatProperties
  <2> QED BY <1>8, <1>9, <2>2 DEF S, w
<1>12. DOMAIN wire' = 1 .. (Len(wire) + Len(p.loops))
  BY <1>11, LenProperties
<1>13. \A i \in DOMAIN wire : wire'[i] = wire[i]
  BY <1>1, <1>10, <1>11
<1>14. ASSUME NEW i \in DOMAIN p.loops
       PROVE  /\ wire'[Len(wire) + i].loop = p.loops[i] /\ wire'[Len(wire) + i].left = FALSE
              /\ wire'[Len(wire) + i].hash = 0 /\ wire'[Len(wire) + i].answer = NoAnswer
  <2>1. i \in 1 .. Len(p.loops) /\ p.loops[i] \in Followed'
    BY <1>1, <1>2
  <2>2. wire'[Len(wire) + i] = new[i]
    <3>1. Len(wire) + i \in 1 .. Len(wire) + Len(p.loops) /\ ~(Len(wire) + i <= Len(wire))
          /\ Len(wire) + i - Len(wire) = i
      BY <1>1, <1>10, <2>1
    <3> QED BY <1>11, <3>1
  <2> QED BY <1>7, <1>8, <2>1, <2>2
<1> QED BY <1>1, <1>2, <1>4, <1>6, <1>10, <1>11, <1>12, <1>13, <1>14

LEMMA PollTypesMount ==
    ASSUME PollTypes, NEW p \in Parts, onMounted(p)
    PROVE  PollTypes'
<1>1. /\ part' = p /\ open' = TRUE /\ real' = FALSE /\ timer' = {} /\ did' = did
      /\ hash' = [h \in {Loop[l].hash : l \in Followed'} |-> 0]
      /\ view' = [l \in Followed' |-> Nothing] /\ choice' = [l \in Followed' |-> FirstPage]
      /\ stray' = [l \in Followed' |-> 0]
      /\ wire' \in Seq(Polls(Followed'))
  BY MountIs
<1>2. FirstPage \in Pages /\ Nothing \in PollViews /\ NewSource \in PollSources
  BY DEF FirstPage, Pages, Nothing, PollViews, NewSource, PollSources
<1>3. /\ hash' \in [{Loop[l].hash : l \in Followed'} -> Nat] /\ view' \in [Followed' -> PollViews]
      /\ choice' \in [Followed' -> Pages] /\ stray' \in [Followed' -> Nat]
  BY <1>1, <1>2
<1>4. ghosts' \in [Followed' -> Nat] /\ source' \in [Followed' -> PollSources]
  <2>1. CASE part = NoPart
    BY <1>1, <1>2, <2>1 DEF onMounted
  <2>2. CASE part = p /\ part # NoPart
    <3>1. Followed' = Followed /\ ghosts' = ghosts /\ source' = source
      BY <1>1, <2>2 DEF onMounted, Followed
    <3> QED BY <3>1 DEF PollTypes, PollSources
  <2> QED BY <2>1, <2>2 DEF onMounted
<1> QED BY <1>1, <1>3, <1>4 DEF PollTypes, PollViews, PollSources

(* One more request at the end. *)
LEMMA PollTypesSend ==
    ASSUME PollTypes, NEW l \in Followed, UNCHANGED <<hash, choice>>
    PROVE  /\ Append(wire, Request(l)) \in Seq(Polls(Followed))
           /\ Append(wire, [Request(l) EXCEPT !.left = TRUE]) \in Seq(Polls(Followed))
           /\ Request(l) \in Polls(Followed) /\ [Request(l) EXCEPT !.left = TRUE] \in Polls(Followed)
<1>1. hash'[Loop[l].hash] \in Nat /\ choice'[l] \in Pages
  BY HashOf
<1>2. Request(l) \in Polls(Followed) /\ [Request(l) EXCEPT !.left = TRUE] \in Polls(Followed)
  BY <1>1, RequestIs
<1> QED BY <1>2, AppendProperties DEF PollTypes

LEMMA AnswersAre ==
    ASSUME PollTypes, NEW i \in DOMAIN wire, NEW a \in Answers(wire[i])
    PROVE  /\ wire[i] \in Polls(Followed) /\ wire[i].loop \in Followed
           /\ a # NoAnswer /\ a \in PollReplies
           /\ [wire[i] EXCEPT !.answer = a] \in Polls(Followed)
           /\ [wire[i] EXCEPT !.answer = a].loop = wire[i].loop
           /\ [wire[i] EXCEPT !.answer = a].left = wire[i].left
           /\ [wire[i] EXCEPT !.answer = a].hash = wire[i].hash
           /\ [wire[i] EXCEPT !.answer = a].answer = a
<1>1. wire[i] \in Polls(Followed)
  BY ElementOfSeq, LenProperties DEF PollTypes
<1> DEFINE m == wire[i]
<1>2. /\ m \in Polls(Followed) /\ m.loop \in Followed /\ m.hash \in Nat /\ m.left \in BOOLEAN
      /\ m.choice \in Pages
  BY <1>1 DEF Polls
<1>3. source[m.loop] \in [n : Nat, keys : SUBSET Nat, busy : BOOLEAN]
  BY <1>2, HashOf
<1>4. a \in Answers(m)
  OBVIOUS
<1> HIDE DEF m
<1>5. m.choice.page \in {1, 2}
  BY <1>2 DEF Pages
<1>6. a \in PollReplies /\ a # NoAnswer
  <2>1. CASE a = [code |-> "error"]
    BY <2>1 DEF PollReplies, NoAnswer
  <2>2. CASE a # [code |-> "error"]
    <3>1. \E full \in BOOLEAN :
             a = [code |-> "ok", n |-> source[m.loop].n, keys |-> source[m.loop].keys,
                  busy |-> source[m.loop].busy, page |-> m.choice.page, full |-> full]
      BY <1>4, <2>2 DEF Answers
    <3>2. a.code = "ok"
      BY <3>1
    <3>3. a \in [code : {"ok"}, n : Nat, keys : SUBSET Nat, busy : BOOLEAN, page : {1, 2},
                 full : BOOLEAN]
      BY <1>3, <1>5, <3>1
    <3> QED BY <3>2, <3>3 DEF PollReplies, NoAnswer
  <2> QED BY <2>1, <2>2
<1>7. /\ [m EXCEPT !.answer = a] \in Polls(Followed)
      /\ [m EXCEPT !.answer = a].loop = m.loop /\ [m EXCEPT !.answer = a].left = m.left
      /\ [m EXCEPT !.answer = a].hash = m.hash /\ [m EXCEPT !.answer = a].answer = a
  BY <1>2, <1>6 DEF Polls
<1> QED BY <1>2, <1>6, <1>7 DEF m

LEMMA PollTypesServe ==
    ASSUME PollTypes, Serve
    PROVE  /\ PollTypes'
           /\ UNCHANGED <<part, open, timer, stray, ghosts, hash, real, view, choice, source>>
           /\ DOMAIN wire' = DOMAIN wire
           /\ \E i \in DOMAIN wire : \E a \in Answers(wire[i]) :
                 /\ wire[i].answer = NoAnswer /\ \A j \in 1 .. (i - 1) : wire[j].answer # NoAnswer
                 /\ \A j \in DOMAIN wire :
                       /\ wire'[j].loop = wire[j].loop /\ wire'[j].left = wire[j].left
                       /\ wire'[j].hash = wire[j].hash
                       /\ wire'[j].answer = IF j = i THEN a ELSE wire[j].answer
           /\ did'.flying = did.flying
<1>0. PICK i \in DOMAIN wire : \E a \in Answers(wire[i]) :
         /\ wire[i].answer = NoAnswer /\ \A j \in 1 .. (i - 1) : wire[j].answer # NoAnswer
         /\ wire' = [wire EXCEPT ![i].answer = a]
         /\ did' = IF a.code = "error" THEN [did EXCEPT !.events = @ + 1] ELSE did
  BY DEF Serve
<1>1. PICK a \in Answers(wire[i]) :
         /\ wire[i].answer = NoAnswer /\ \A j \in 1 .. (i - 1) : wire[j].answer # NoAnswer
         /\ wire' = [wire EXCEPT ![i].answer = a]
         /\ did' = IF a.code = "error" THEN [did EXCEPT !.events = @ + 1] ELSE did
  BY <1>0
<1>2. UNCHANGED <<part, open, timer, stray, ghosts, hash, real, view, choice, source>>
  BY DEF Serve
<1>3. DOMAIN wire = 1 .. Len(wire) /\ wire \in Seq(Polls(Followed)) /\ Len(wire) \in Nat
  BY LenProperties DEF PollTypes
<1> DEFINE m == [wire[i] EXCEPT !.answer = a]
<1>4. wire' = [wire EXCEPT ![i] = m]
  BY <1>1
<1>5. /\ m \in Polls(Followed) /\ m.loop = wire[i].loop /\ m.left = wire[i].left
      /\ m.hash = wire[i].hash /\ m.answer = a
  BY AnswersAre
<1> HIDE DEF m
<1>6. /\ wire' \in Seq(Polls(Followed)) /\ Len(wire') = Len(wire)
      /\ \A j \in 1 .. Len(wire) : wire'[j] = IF j = i THEN m ELSE wire[j]
  BY <1>3, <1>4, <1>5, ExceptSeq
<1>7. DOMAIN wire' = DOMAIN wire
  BY <1>3, <1>6, LenProperties
<1>8. \A j \in DOMAIN wire :
         /\ wire'[j].loop = wire[j].loop /\ wire'[j].left = wire[j].left
         /\ wire'[j].hash = wire[j].hash /\ wire'[j].answer = IF j = i THEN a ELSE wire[j].answer
  BY <1>3, <1>5, <1>6
<1>9. did' \in [changes : Nat, events : Nat, flying : Nat] /\ did'.flying = did.flying
  <2>1. did \in [changes : Nat, events : Nat, flying : Nat]
    BY DEF PollTypes
  <2>2. did' = [did EXCEPT !.events = @ + 1] \/ did' = did
    BY <1>1
  <2> QED BY <2>1, <2>2
<1>10. Followed' = Followed
  BY <1>2 DEF Followed
<1>11. PollTypes'
  BY <1>2, <1>6, <1>9, <1>10 DEF PollTypes
<1> QED BY <1>1, <1>2, <1>7, <1>8, <1>9, <1>11

(* The first request, answered. *)
LEMMA HeadIs ==
    ASSUME PollTypes, Deliver
    PROVE  /\ wire # <<>> /\ wire' = Tail(wire) /\ Head(wire) = wire[1] /\ 1 \in DOMAIN wire
           /\ wire[1] \in Polls(Followed) /\ wire[1].loop \in Followed /\ wire[1].left \in BOOLEAN
           /\ wire[1].answer \in PollReplies /\ wire[1].answer # NoAnswer
           /\ wire[1].choice \in Pages /\ wire[1].hash \in Nat
           /\ UNCHANGED <<part, open, real, want, source, did>>
           /\ wire[1].left => ReceiveLate(wire[1])
           /\ ~wire[1].left => Receive(wire[1])
<1>1. wire # <<>> /\ wire' = Tail(wire) /\ wire \in Seq(Polls(Followed))
  BY DEF Deliver, PollTypes
<1>2. Head(wire) = wire[1] /\ wire[1] \in Polls(Followed) /\ 1 \in DOMAIN wire
  BY <1>1, TailCounts
<1> QED BY <1>1, <1>2 DEF Deliver, Polls

LEMMA ReplyIs ==
    ASSUME NEW a \in PollReplies, a # NoAnswer
    PROVE  \/ a = [code |-> "error"] /\ a.code = "error"
           \/ /\ a.code = "ok" /\ a.n \in Nat /\ a.keys \in SUBSET Nat /\ a.busy \in BOOLEAN
              /\ a.page \in {1, 2} /\ a.full \in BOOLEAN
BY DEF PollReplies, NoAnswer

LEMMA PollTypesDeliver == PollTypes /\ Deliver => PollTypes'
<1> SUFFICES ASSUME PollTypes, Deliver PROVE PollTypes'
  OBVIOUS
<1> DEFINE m == wire[1]
           l == m.loop
           a == m.answer
<1>1. /\ l \in Followed /\ a \in PollReplies /\ a # NoAnswer /\ m.choice \in Pages
      /\ UNCHANGED <<part, open, real, want, source, did>>
      /\ m.left \in BOOLEAN
      /\ m.left => ReceiveLate(m)
      /\ ~m.left => Receive(m)
  BY HeadIs
<1>2. Followed' = Followed
  BY <1>1 DEF Followed
<1>3. wire' \in Seq(Polls(Followed))
  <2>1. wire \in Seq(Polls(Followed))
    BY DEF PollTypes
  <2> QED BY <2>1, HeadIs, TailCounts
<1>4. \/ a.code = "error"
      \/ a.code = "ok" /\ a.n \in Nat /\ a.busy \in BOOLEAN /\ a.page \in {1, 2}
  BY <1>1, ReplyIs
<1> HIDE DEF m
<1>5. CASE m.left
  <2>1. ghosts' \in [Followed -> Nat] /\ UNCHANGED <<timer, stray, hash, view, choice>>
    <3>1. ghosts \in [Followed -> Nat]
      BY DEF PollTypes
    <3>2. ghosts' = ghosts \/ ghosts' = [ghosts EXCEPT ![l] = @ + 1]
      BY <1>1, <1>5 DEF ReceiveLate
    <3>3. UNCHANGED <<timer, stray, hash, view, choice>>
      BY <1>1, <1>5 DEF ReceiveLate
    <3>4. ghosts' \in [Followed -> Nat]
      BY <1>1, <3>1, <3>2, Counted
    <3> QED BY <3>3, <3>4
  <2> QED BY <1>1, <1>2, <1>3, <2>1 DEF PollTypes
<1>6. CASE ~m.left
  <2>0. AdoptHash(m) /\ AdoptList(m) /\ UNCHANGED ghosts
        /\ IF Again(m) THEN Arm(l) ELSE UNCHANGED <<timer, stray>>
    BY <1>1, <1>6 DEF Receive
  <2>1. timer' \subseteq Followed /\ stray' \in [Followed -> Nat]
    BY <1>1, <2>0 DEF Arm, PollTypes
  <2>2. hash' \in [{Loop[k].hash : k \in Followed} -> Nat]
    <3>1. hash \in [{Loop[k].hash : k \in Followed} -> Nat]
      BY DEF PollTypes
    <3>2. hash' = hash \/ (a.n \in Nat /\ hash' = [hash EXCEPT ![Loop[l].hash] = a.n])
      BY <1>4, <2>0 DEF AdoptHash
    <3> QED BY <3>1, <3>2
  <2>3. view' \in [Followed -> PollViews]
    <3>1. view \in [Followed -> PollViews]
      BY DEF PollTypes, PollViews
    <3>2. CASE Adopts(m)
      <4> DEFINE v == [n |-> a.n, of |-> m.choice, any |-> TRUE, loading |-> FALSE, busy |-> a.busy]
      <4>1. v \in PollViews
        BY <1>1, <1>4, <3>2 DEF Adopts, PollViews
      <4>2. view' = [view EXCEPT ![l] = v]
        BY <2>0, <3>2 DEF AdoptList
      <4> HIDE DEF v
      <4> QED BY <1>1, <3>1, <4>1, <4>2
    <3>3. CASE ~Adopts(m)
      BY <2>0, <3>1, <3>3 DEF AdoptList
    <3> QED BY <3>2, <3>3
  <2>4. choice' \in [Followed -> Pages]
    <3>1. choice \in [Followed -> Pages] /\ choice[l] \in Pages
      BY <1>1 DEF PollTypes
    <3>2. choice' = choice \/ (a.page \in {1, 2} /\ choice' = [choice EXCEPT ![l].page = a.page])
      BY <1>4, <2>0 DEF AdoptList
    <3>3. ASSUME a.page \in {1, 2} PROVE [choice[l] EXCEPT !.page = a.page] \in Pages
      BY <3>1, <3>3 DEF Pages
    <3> QED BY <3>1, <3>2, <3>3
  <2> QED BY <1>1, <1>2, <1>3, <2>0, <2>1, <2>2, <2>3, <2>4 DEF PollTypes, PollViews
<1> QED BY <1>1, <1>5, <1>6

LEMMA PollTypesFire ==
    ASSUME PollTypes, NEW l \in Followed, Fire(l) \/ GhostPoll(l) \/ remove(l)
    PROVE  PollTypes'
<1>1. UNCHANGED <<part, open, real, hash, choice, view, source>> /\ Followed' = Followed
  BY DEF Fire, GhostPoll, remove, Followed
<1>2. wire' \in Seq(Polls(Followed))
  BY <1>1, PollTypesSend DEF Fire, GhostPoll, remove
<1>3. timer' \subseteq Followed
  BY DEF Fire, GhostPoll, remove, PollTypes
<1>4. stray' \in [Followed -> Nat]
  <2>1. stray \in [Followed -> Nat]
    BY DEF PollTypes
  <2>2. stray' = stray \/ (stray[l] > 0 /\ stray' = [stray EXCEPT ![l] = @ - 1])
    BY DEF Fire, GhostPoll, remove
  <2> QED BY <2>1, <2>2, Counted
<1>5. ghosts' \in [Followed -> Nat]
  <2>1. ghosts \in [Followed -> Nat]
    BY DEF PollTypes
  <2>2. ghosts' = ghosts \/ (ghosts[l] > 0 /\ ghosts' = [ghosts EXCEPT ![l] = @ - 1])
    BY DEF Fire, GhostPoll, remove
  <2> QED BY <2>1, <2>2, Counted
<1>6. did' \in [changes : Nat, events : Nat, flying : Nat]
  <2>1. did \in [changes : Nat, events : Nat, flying : Nat]
    BY DEF PollTypes
  <2>2. CASE Fire(l) \/ GhostPoll(l)
    BY <2>1, <2>2 DEF Fire, GhostPoll
  <2>3. CASE remove(l)
    <3>1. Cardinality(Flying(l)) \in Nat
      <4>1. wire \in Seq(Polls(Followed))
        BY DEF PollTypes
      <4> QED BY <4>1, CountTypes, SetsAre
    <3>2. did' = [did EXCEPT !.events = @ + 1, !.flying = @ + Cardinality(Flying(l))]
      BY <2>3 DEF remove
    <3> QED BY <2>1, <3>1, <3>2, Happened
  <2> QED BY <2>2, <2>3
<1> QED BY <1>1, <1>2, <1>3, <1>4, <1>5, <1>6 DEF PollTypes

(* The requests of a component that is left. *)
LEMMA LeaveIs ==
    ASSUME PollTypes, NEW C, Leave(C)
    PROVE  /\ wire' \in Seq(Polls(Followed)) /\ DOMAIN wire' = DOMAIN wire
           /\ \A i \in DOMAIN wire : wire'[i].left = TRUE /\ wire'[i].answer = wire[i].answer
           /\ Followed' = Followed
<1>1. DOMAIN wire = 1 .. Len(wire) /\ wire \in Seq(Polls(Followed)) /\ Len(wire) \in Nat
  BY LenProperties DEF PollTypes
<1>2. \A i \in DOMAIN wire : wire[i] \in Polls(Followed)
  BY <1>1, ElementOfSeq
<1>3. \A i \in DOMAIN wire : /\ [wire[i] EXCEPT !.left = TRUE] \in Polls(Followed)
                             /\ [wire[i] EXCEPT !.left = TRUE].left = TRUE
                             /\ [wire[i] EXCEPT !.left = TRUE].answer = wire[i].answer
  BY <1>2 DEF Polls
<1>4. wire' = [i \in 1 .. Len(wire) |-> [wire[i] EXCEPT !.left = TRUE]]
  BY <1>1 DEF Leave
<1>5. wire' \in Seq(Polls(Followed))
  BY <1>1, <1>3, <1>4, IsASeq
<1>6. Followed' = Followed
  BY DEF Leave, Followed
<1>7. /\ DOMAIN wire' = DOMAIN wire
      /\ \A i \in DOMAIN wire : wire'[i].left = TRUE /\ wire'[i].answer = wire[i].answer
  BY <1>1, <1>3, <1>4
<1> QED BY <1>5, <1>6, <1>7

LEMMA PollTypesLeave ==
    ASSUME PollTypes, NEW C, Leave(C)
    PROVE  PollTypes'
<1>1. /\ wire' \in Seq(Polls(Followed)) /\ Followed' = Followed
  BY LeaveIs
<1>2. UNCHANGED <<part, hash, real, view, choice, source>> /\ open' = FALSE /\ timer' = {}
  BY DEF Leave
<1>3. stray' \in [Followed -> Nat] /\ ghosts' \in [Followed -> Nat]
  <2>1. stray \in [Followed -> Nat] /\ ghosts \in [Followed -> Nat]
    BY DEF PollTypes
  <2>2. /\ stray' = [l \in Followed |-> 0]
        /\ ghosts' = [l \in Followed |->
                        ghosts[l] + stray[l] + (IF l \in timer \ C THEN 1 ELSE 0)]
    BY DEF Leave
  <2> QED BY <2>1, <2>2
<1>4. did' \in [changes : Nat, events : Nat, flying : Nat]
  <2> DEFINE U == UNION {Flying(l) : l \in Followed}
  <2>1. Cardinality(U) \in Nat
    <3>1. wire \in Seq(Polls(Followed))
      BY DEF PollTypes
    <3>2. Len(wire) \in Nat /\ DOMAIN wire = 1 .. Len(wire)
      BY <3>1, LenProperties
    <3>3. U \subseteq 1 .. Len(wire)
      BY <3>2 DEF Flying
    <3> QED BY <3>2, <3>3, MoreCount
  <2>2. did' = [did EXCEPT !.events = @ + 1, !.flying = @ + Cardinality(U)]
    BY DEF Leave
  <2>3. did \in [changes : Nat, events : Nat, flying : Nat]
    BY DEF PollTypes
  <2> HIDE DEF U
  <2> QED BY <2>1, <2>2, <2>3, Happened
<1> QED BY <1>1, <1>2, <1>3, <1>4 DEF PollTypes

LEMMA PollTypesUser ==
    ASSUME PollTypes, NEW l \in Followed,
           updateRealTime \/ handleTuntap(l) \/ handleUpdate(l)
              \/ \E field \in {"page", "order", "key"} : Choose(l, field)
    PROVE  PollTypes'
<1>1. UNCHANGED <<part, open, wire, timer, ghosts>> /\ Followed' = Followed
  BY DEF updateRealTime, handleTuntap, handleUpdate, Choose, Followed
<1>2. did' \in [changes : Nat, events : Nat, flying : Nat]
  <2>1. did \in [changes : Nat, events : Nat, flying : Nat]
    BY DEF PollTypes
  <2>2. did' = [did EXCEPT !.events = @ + 1]
    BY DEF updateRealTime, handleTuntap, handleUpdate, Choose, Choosing
  <2> QED BY <2>1, <2>2
<1>3. stray' \in [Followed -> Nat]
  <2>1. stray \in [Followed -> Nat]
    BY DEF PollTypes
  <2>2. stray' = stray \/ stray' = [stray EXCEPT ![l] = @ + 1]
    BY DEF updateRealTime, handleTuntap, handleUpdate, Choose
  <2> QED BY <2>1, <2>2, Counted
<1>4. hash' \in [{Loop[k].hash : k \in Followed} -> Nat] /\ real' \in BOOLEAN
  <2>1. hash \in [{Loop[k].hash : k \in Followed} -> Nat] /\ real \in BOOLEAN
    BY DEF PollTypes
  <2>2. \/ hash' = hash /\ real' = real
        \/ /\ hash' = [h \in DOMAIN hash |-> IF h \in {"hashcode", "hashcode1"} THEN 0 ELSE hash[h]]
           /\ real' = ~real
    BY DEF updateRealTime, handleTuntap, handleUpdate, Choose
  <2>3. [h \in DOMAIN hash |-> IF h \in {"hashcode", "hashcode1"} THEN 0 ELSE hash[h]]
           \in [{Loop[k].hash : k \in Followed} -> Nat]
    <3> DEFINE H == {Loop[k].hash : k \in Followed}
    <3>1. hash \in [H -> Nat]
      BY <2>1
    <3> HIDE DEF H
    <3>2. [h \in DOMAIN hash |-> IF h \in {"hashcode", "hashcode1"} THEN 0 ELSE hash[h]] \in [H -> Nat]
      BY <3>1
    <3> QED BY <3>2 DEF H
  <2>4. real' \in BOOLEAN
    BY <2>1, <2>2
  <2> QED BY <2>1, <2>2, <2>3, <2>4
<1>5. view' \in [Followed -> PollViews]
  <2>1. view \in [Followed -> PollViews]
    BY DEF PollTypes, PollViews
  <2>2. view' = view \/ view' = [view EXCEPT ![l].loading = TRUE]
    BY DEF updateRealTime, handleTuntap, handleUpdate, Choose
  <2>3. view[l] \in PollViews /\ [view[l] EXCEPT !.loading = TRUE] \in PollViews
    BY <2>1 DEF PollViews
  <2> QED BY <2>1, <2>2, <2>3
<1>6. choice' \in [Followed -> Pages]
  <2>1. choice \in [Followed -> Pages]
    BY DEF PollTypes
  <2>2. choice' = choice \/ \E field \in {"page", "order", "key"} :
                               choice' = [choice EXCEPT ![l][field] = 3 - @]
    BY DEF updateRealTime, handleTuntap, handleUpdate, Choose
  <2>3. ASSUME NEW field \in {"page", "order", "key"}
        PROVE  [choice[l] EXCEPT ![field] = 3 - @] \in Pages
    BY <2>1 DEF Pages
  <2> QED BY <2>1, <2>2, <2>3
<1>7. source' \in [Followed -> PollSources]
  <2>1. source \in [Followed -> PollSources]
    BY DEF PollTypes, PollSources
  <2>2. source' = source \/ source' = [source EXCEPT ![l].n = @ + 1]
    BY DEF updateRealTime, handleTuntap, handleUpdate, Choose
  <2>3. source[l] \in PollSources /\ [source[l] EXCEPT !.n = @ + 1] \in PollSources
    BY <2>1 DEF PollSources
  <2> QED BY <2>1, <2>2, <2>3
<1> QED BY <1>1, <1>2, <1>3, <1>4, <1>5, <1>6, <1>7 DEF PollTypes, PollViews, PollSources

LEMMA ChangeIs ==
    ASSUME PollTypes, NEW l \in Followed, Change(l)
    PROVE  /\ PollTypes'
           /\ UNCHANGED <<part, open, wire, timer, stray, ghosts, hash, real, view, choice>>
           /\ source'[l].n = source[l].n + 1 /\ did'.flying = did.flying
           /\ \A k \in Followed \ {l} : source'[k] = source[k]
<1>1. PICK busy \in BOOLEAN, keys \in {source[l].keys, source[l].keys \union {source[l].n + 1}} :
         source' = [source EXCEPT ![l] = [n |-> source[l].n + 1, busy |-> busy, keys |-> keys]]
  BY DEF Change
<1>2. UNCHANGED <<part, open, wire, timer, stray, ghosts, hash, real, view, choice>>
      /\ did' = [did EXCEPT !.changes = @ + 1] /\ Followed' = Followed
  BY DEF Change, Followed
<1>3. source \in [Followed -> PollSources] /\ source[l].n \in Nat /\ source[l].keys \in SUBSET Nat
  BY DEF PollTypes, PollSources
<1>4. [n |-> source[l].n + 1, busy |-> busy, keys |-> keys] \in PollSources
  BY <1>1, <1>3 DEF PollSources
<1>5. source' \in [Followed -> PollSources] /\ source'[l].n = source[l].n + 1
      /\ \A k \in Followed \ {l} : source'[k] = source[k]
  BY <1>1, <1>3, <1>4
<1>6. did' \in [changes : Nat, events : Nat, flying : Nat] /\ did'.flying = did.flying
  BY <1>2, Happened DEF PollTypes
<1>7. PollTypes'
  BY <1>2, <1>5, <1>6 DEF PollTypes, PollSources
<1> QED BY <1>2, <1>5, <1>6, <1>7

(* The actions, as the proofs below take them. *)
LEMMA PollActions ==
    ASSUME [PollsNext]_pollVars
    PROVE  \/ \E p \in Parts : onMounted(p)
           \/ \E C : Leave(C) /\ (Here.clears => C = Followed)
           \/ Serve \/ Deliver
           \/ \E l \in Followed : Fire(l) \/ GhostPoll(l) \/ remove(l)
           \/ \E l \in Followed :
                 updateRealTime \/ handleTuntap(l) \/ handleUpdate(l)
                    \/ \E field \in {"page", "order", "key"} : Choose(l, field)
           \/ \E l \in Followed : Change(l)
           \/ UNCHANGED pollVars
<1>1. CASE onUnmounted
  BY <1>1 DEF onUnmounted
<1>2. CASE updateRealTime
  BY <1>2 DEF updateRealTime
<1>3. CASE PollsNext /\ ~onUnmounted /\ ~updateRealTime
  BY <1>3 DEF PollsNext
<1> QED BY <1>1, <1>2, <1>3

LEMMA PollTypesStep == PollTypes /\ [PollsNext]_pollVars => PollTypes'
<1> SUFFICES ASSUME PollTypes, [PollsNext]_pollVars PROVE PollTypes'
  OBVIOUS
<1>1. CASE UNCHANGED pollVars
  <2>1. Followed' = Followed
    BY <1>1 DEF pollVars, Followed
  <2> QED BY <1>1, <2>1 DEF pollVars, PollTypes
<1> QED BY <1>1, PollActions, PollTypesMount, PollTypesServe, PollTypesDeliver, PollTypesFire,
           PollTypesLeave, PollTypesUser, ChangeIs

-------------------------------------------------------------------------------
(* Answers come in order *)

LEMMA InOrderStep == PollTypes /\ InOrder /\ [PollsNext]_pollVars => InOrder'
<1> SUFFICES ASSUME PollTypes, InOrder, [PollsNext]_pollVars PROVE InOrder'
  OBVIOUS
<1>0. wire \in Seq(Polls(Followed)) /\ Len(wire) \in Nat /\ DOMAIN wire = 1 .. Len(wire)
  BY LenProperties DEF PollTypes
<1>1. ASSUME NEW p \in Parts, onMounted(p) PROVE InOrder'
  <2>1. /\ DOMAIN p.loops = 1 .. Len(p.loops) /\ Len(p.loops) \in Nat
        /\ DOMAIN wire' = 1 .. (Len(wire) + Len(p.loops))
        /\ \A i \in DOMAIN wire : wire'[i] = wire[i]
        /\ \A i \in DOMAIN p.loops : wire'[Len(wire) + i].answer = NoAnswer
    BY <1>1, MountIs
  <2>2. ASSUME NEW j \in DOMAIN wire', wire'[j].answer # NoAnswer PROVE j \in DOMAIN wire
    <3>1. CASE j > Len(wire)
      <4>1. j - Len(wire) \in DOMAIN p.loops /\ Len(wire) + (j - Len(wire)) = j
        BY <1>0, <2>1, <3>1
      <4> QED BY <2>1, <2>2, <4>1
    <3> QED BY <1>0, <2>1, <3>1
  <2>3. \A i \in DOMAIN wire', j \in DOMAIN wire : i < j => i \in DOMAIN wire
    BY <1>0, <2>1
  <2> QED BY <2>1, <2>2, <2>3 DEF InOrder
<1>2. CASE Serve
  <2>1. DOMAIN wire' = DOMAIN wire
    BY <1>2, PollTypesServe
  <2>2. PICK i \in DOMAIN wire : \E a \in Answers(wire[i]) :
                 /\ wire[i].answer = NoAnswer /\ \A j \in 1 .. (i - 1) : wire[j].answer # NoAnswer
                 /\ \A j \in DOMAIN wire : wire'[j].answer = IF j = i THEN a ELSE wire[j].answer
    BY <1>2, PollTypesServe
  <2>3. PICK a \in Answers(wire[i]) :
                 /\ wire[i].answer = NoAnswer /\ \A j \in 1 .. (i - 1) : wire[j].answer # NoAnswer
                 /\ \A j \in DOMAIN wire : wire'[j].answer = IF j = i THEN a ELSE wire[j].answer
    BY <2>2
  <2>4. a # NoAnswer
    BY AnswersAre
  <2>5. ASSUME NEW k \in DOMAIN wire, NEW j \in DOMAIN wire, k < j, wire'[j].answer # NoAnswer
        PROVE  wire'[k].answer # NoAnswer
    <3>1. CASE k = i
      BY <2>3, <2>4, <3>1
    <3>2. CASE j = i /\ k # i
      BY <1>0, <2>3, <2>5, <3>2
    <3>3. CASE j # i /\ k # i
      BY <2>3, <2>5, <3>3 DEF InOrder
    <3> QED BY <3>1, <3>2, <3>3
  <2> QED BY <2>1, <2>5 DEF InOrder
<1>3. CASE Deliver
  <2>1. wire # <<>> /\ wire' = Tail(wire)
    BY <1>3, HeadIs
  <2>2. /\ DOMAIN wire' = 1 .. (Len(wire) - 1)
        /\ \A i \in DOMAIN wire' : i + 1 \in DOMAIN wire /\ wire'[i] = wire[i + 1]
    BY <1>0, <2>1, TailCounts
  <2>3. \A i, j \in DOMAIN wire' : i < j => i + 1 < j + 1
    BY <1>0, <2>2
  <2> QED BY <2>2, <2>3 DEF InOrder
<1>4. ASSUME NEW l \in Followed, Fire(l) \/ GhostPoll(l) \/ remove(l) PROVE InOrder'
  <2>1. UNCHANGED <<hash, choice>>
    BY <1>4 DEF Fire, GhostPoll, remove
  <2>2. PICK m \in Polls(Followed) : wire' = Append(wire, m) /\ m.answer = NoAnswer
    <3>1. /\ Request(l) \in Polls(Followed) /\ Request(l).answer = NoAnswer
          /\ [Request(l) EXCEPT !.left = TRUE] \in Polls(Followed)
          /\ [Request(l) EXCEPT !.left = TRUE].answer = NoAnswer
      BY <2>1, HashOf, RequestIs
    <3>2. wire' = Append(wire, Request(l)) \/ wire' = Append(wire, [Request(l) EXCEPT !.left = TRUE])
      BY <1>4 DEF Fire, GhostPoll, remove
    <3> QED BY <3>1, <3>2
  <2>3. /\ DOMAIN wire' = 1 .. (Len(wire) + 1)
        /\ \A i \in DOMAIN wire : wire'[i] = wire[i]
        /\ wire'[Len(wire) + 1] = m
    BY <1>0, <2>2, SendCounts
  <2>4. ASSUME NEW j \in DOMAIN wire', wire'[j].answer # NoAnswer PROVE j \in DOMAIN wire
    <3>1. j # Len(wire) + 1
      BY <2>2, <2>3, <2>4
    <3> QED BY <1>0, <2>3, <3>1
  <2>5. \A i \in DOMAIN wire', j \in DOMAIN wire : i < j => i \in DOMAIN wire
    BY <1>0, <2>3
  <2> QED BY <2>3, <2>4, <2>5 DEF InOrder
<1>5. ASSUME NEW C, Leave(C) PROVE InOrder'
  BY <1>5, LeaveIs DEF InOrder
<1>6. CASE wire' = wire
  BY <1>6 DEF InOrder
<1>7. ASSUME NEW l \in Followed,
             \/ updateRealTime \/ handleTuntap(l) \/ handleUpdate(l) \/ Change(l)
             \/ \E field \in {"page", "order", "key"} : Choose(l, field)
      PROVE  wire' = wire
  BY <1>7 DEF updateRealTime, handleTuntap, handleUpdate, Change, Choose
<1>8. CASE UNCHANGED pollVars
  BY <1>6, <1>8 DEF pollVars
<1> QED BY <1>1, <1>2, <1>3, <1>4, <1>5, <1>6, <1>7, <1>8, PollActions

-------------------------------------------------------------------------------
(* A hashcode is the version of what is shown *)

LEMMA FlyingIs == \A l : \A i : i \in Flying(l) <=> i \in DOMAIN wire /\ wire[i].loop = l /\ ~wire[i].left
BY DEF Flying

(* A loop that has its hashcode for itself. *)
LEMMA OwnedIs ==
    ASSUME PollTypes, NEW l \in Followed, Owned(l)
    PROVE  /\ Loop[l].hash # "none" /\ Loop[l].hash # "hashcode1" /\ Loop[l].shows /\ ~Loop[l].frail
           /\ \A k \in Followed : Loop[k].hash = Loop[l].hash => k = l
<1>1. \A k \in Followed : LoopOK(k, Loop[k])
  BY PartIs DEF PollTypes
<1> QED BY <1>1 DEF LoopOK, Owned

LEMMA HashMount ==
    ASSUME PollTypes, LoopInv, NEW p \in Parts, onMounted(p)
    PROVE  HashInv'
<1>1. /\ DOMAIN p.loops = 1 .. Len(p.loops) /\ Len(p.loops) \in Nat /\ real' = FALSE
      /\ hash' = [h \in {Loop[l].hash : l \in Followed'} |-> 0]
      /\ view' = [l \in Followed' |-> Nothing]
      /\ Len(wire) \in Nat /\ DOMAIN wire = 1 .. Len(wire)
      /\ DOMAIN wire' = 1 .. (Len(wire) + Len(p.loops))
      /\ \A i \in DOMAIN wire : wire'[i] = wire[i]
      /\ \A i \in DOMAIN p.loops :
            wire'[Len(wire) + i].hash = 0 /\ wire'[Len(wire) + i].answer = NoAnswer
  BY MountIs
<1>2. PollTypes'
  BY PollTypesMount
<1>3. \A i \in DOMAIN wire : wire[i].left
  <2>1. LeftOnes = DOMAIN wire
    BY DEF LoopInv, onMounted
  <2> QED BY <2>1 DEF LeftOnes
<1>4. ASSUME NEW i \in DOMAIN wire', ~wire'[i].left
      PROVE  wire'[i].hash = 0 /\ wire'[i].answer.code # "ok"
  <2>1. i > Len(wire)
    BY <1>1, <1>3, <1>4
  <2>2. i - Len(wire) \in DOMAIN p.loops /\ Len(wire) + (i - Len(wire)) = i
    BY <1>1, <2>1
  <2>3. wire'[i].hash = 0 /\ wire'[i].answer = NoAnswer
    BY <1>1, <2>2
  <2> QED BY <2>3 DEF NoAnswer
<1>5. ASSUME NEW l \in Followed' PROVE HashIsShown(l)' /\ Awaited(l)'
  <2>1. view'[l].n = 0 /\ hash'[Loop[l].hash] = 0
    BY <1>1 DEF Nothing
  <2>2. source'[l].n \in Nat
    BY <1>2 DEF PollTypes
  <2>3. Awaited(l)'
    BY <1>4, <2>1 DEF Awaited, Flying
  <2> QED BY <1>1, <2>1, <2>2, <2>3 DEF HashIsShown
<1> QED BY <1>5 DEF HashInv

LEMMA HashServe ==
    ASSUME PollTypes, InOrder, HashInv, Serve
    PROVE  HashInv'
<1>0. wire \in Seq(Polls(Followed)) /\ Len(wire) \in Nat /\ DOMAIN wire = 1 .. Len(wire)
  BY LenProperties DEF PollTypes
<1>1. /\ UNCHANGED <<part, hash, real, view, source>> /\ DOMAIN wire' = DOMAIN wire
  BY PollTypesServe
<1>2. PICK i \in DOMAIN wire : \E a \in Answers(wire[i]) :
         /\ wire[i].answer = NoAnswer
         /\ \A j \in DOMAIN wire :
               /\ wire'[j].loop = wire[j].loop /\ wire'[j].left = wire[j].left
               /\ wire'[j].hash = wire[j].hash
               /\ wire'[j].answer = IF j = i THEN a ELSE wire[j].answer
  BY PollTypesServe
<1>3. PICK a \in Answers(wire[i]) :
         \A j \in DOMAIN wire :
               /\ wire'[j].loop = wire[j].loop /\ wire'[j].left = wire[j].left
               /\ wire'[j].hash = wire[j].hash
               /\ wire'[j].answer = IF j = i THEN a ELSE wire[j].answer
  BY <1>2
<1>4. Followed' = Followed
  BY <1>1 DEF Followed
<1>5. \A l : Flying(l)' = Flying(l)
  BY <1>1, <1>3 DEF Flying
<1>6. \A j \in DOMAIN wire : i < j => wire[j].answer = NoAnswer
  BY <1>2 DEF InOrder
<1>7. \A l \in Followed : HashIsShown(l) => HashIsShown(l)'
  BY <1>1 DEF HashIsShown
<1>8. ASSUME NEW l \in Followed, Owned(l) PROVE Awaited(l)'
  <2>1. Loop[l].hash # "none" /\ HashIsShown(l) /\ Awaited(l)
    BY <1>8 DEF Owned, HashInv
  <2>2. ASSUME wire[i].loop = l, a.code = "ok"
        PROVE  a.n = source[l].n /\ (a.full \/ wire[i].hash = a.n)
    <3>1. a \in Answers(wire[i])
      OBVIOUS
    <3>2. a # [code |-> "error"]
      BY <2>2
    <3>3. a = [code |-> "ok", n |-> source[l].n, keys |-> source[l].keys,
               busy |-> source[l].busy, page |-> wire[i].choice.page,
               full |-> Loop[l].hash = "none" \/ wire[i].hash # source[l].n]
      BY <2>2, <3>1, <3>2 DEF Answers
    <3> QED BY <3>3, <2>1
  <2>3. view[l].n \in Nat /\ source[l].n \in Nat /\ view[l].n <= source[l].n
    BY <2>1, HashOf DEF HashIsShown
  <2>4. ASSUME NEW k \in Flying(l), wire'[k].answer.code = "ok"
        PROVE  /\ view[l].n <= wire'[k].answer.n /\ wire'[k].answer.n <= source[l].n
               /\ wire'[k].answer.full \/ wire'[k].hash = wire'[k].answer.n
               /\ \A j \in Flying(l) :
                    j > k /\ wire'[j].answer.code = "ok" => wire'[k].answer.n <= wire'[j].answer.n
    <3>1. k \in DOMAIN wire /\ wire[k].loop = l
      BY <2>4 DEF Flying
    <3>2. CASE k = i
      <4>1. wire'[k].answer = a /\ wire'[k].hash = wire[i].hash
        BY <1>3, <3>1, <3>2
      <4>2. a.n = source[l].n /\ (a.full \/ wire[i].hash = a.n)
        BY <2>2, <2>4, <3>1, <3>2, <4>1
      <4>3. ASSUME NEW j \in Flying(l), j > k PROVE wire'[j].answer.code # "ok"
        <5>1. j \in DOMAIN wire /\ j # i /\ i < j
          BY <1>0, <3>2, <4>3 DEF Flying
        <5>2. wire'[j].answer = NoAnswer
          BY <1>3, <1>6, <5>1
        <5> QED BY <5>2 DEF NoAnswer
      <4> QED BY <2>3, <4>1, <4>2, <4>3
    <3>3. CASE k # i
      <4>1. wire'[k].answer = wire[k].answer /\ wire'[k].hash = wire[k].hash
        BY <1>3, <3>1, <3>3
      <4>2. /\ view[l].n <= wire[k].answer.n /\ wire[k].answer.n <= source[l].n
            /\ wire[k].answer.full \/ wire[k].hash = wire[k].answer.n
            /\ \A j \in Flying(l) :
                  j > k /\ wire[j].answer.code = "ok" => wire[k].answer.n <= wire[j].answer.n
        BY <2>1, <2>4, <4>1 DEF Awaited
      <4>3. ASSUME NEW j \in Flying(l), j > k, wire'[j].answer.code = "ok"
            PROVE  wire[k].answer.n <= wire'[j].answer.n
        <5>1. j \in DOMAIN wire /\ wire[j].loop = l
          BY <4>3 DEF Flying
        <5>2. CASE j = i
          <6>1. wire'[j].answer = a
            BY <1>3, <5>1, <5>2
          <6>2. a.n = source[l].n
            BY <2>2, <4>3, <5>1, <5>2, <6>1
          <6> QED BY <4>2, <6>1, <6>2
        <5>3. CASE j # i
          <6>1. wire'[j].answer = wire[j].answer
            BY <1>3, <5>1, <5>3
          <6> QED BY <4>2, <4>3, <6>1
        <5> QED BY <5>2, <5>3
      <4> QED BY <4>1, <4>2, <4>3
    <3> QED BY <3>2, <3>3
  <2>5. \A k \in Flying(l) : wire'[k].hash <= view[l].n
    <3>1. \A k \in Flying(l) : k \in DOMAIN wire /\ wire[k].hash <= view[l].n
      BY <2>1 DEF Awaited, Flying
    <3> QED BY <1>3, <3>1
  <2>6. view' = view /\ source' = source /\ Flying(l)' = Flying(l)
    BY <1>1, <1>5
  <2> QED BY <2>4, <2>5, <2>6 DEF Awaited
<1> QED BY <1>4, <1>7, <1>8 DEF HashInv

(* What an answer does to the list and the hashcode of its loop, and of another. *)
LEMMA ReceiveIs ==
    ASSUME PollTypes, NEW m \in Polls(Followed), m.answer # NoAnswer, Receive(m),
           NEW l \in Followed, Owned(l)
    PROVE  /\ m.loop # l => view'[l] = view[l] /\ hash'[Loop[l].hash] = hash[Loop[l].hash]
           /\ m.loop = l /\ m.answer.code # "ok" =>
                 view'[l] = view[l] /\ hash'[Loop[l].hash] = hash[Loop[l].hash]
           /\ m.loop = l /\ m.answer.code = "ok" =>
                 /\ view'[l].n = IF m.answer.full THEN m.answer.n ELSE view[l].n
                 /\ hash'[Loop[l].hash] = IF real /\ Loop[l].hash = "hashcode"
                                          THEN hash[Loop[l].hash] ELSE m.answer.n
<1>1. m.loop \in Followed /\ m.choice \in Pages /\ m.answer \in PollReplies
  BY DEF Polls
<1>2. /\ Loop[l].hash # "none" /\ Loop[l].hash # "hashcode1" /\ Loop[l].shows /\ ~Loop[l].frail
      /\ \A k \in Followed : Loop[k].hash = Loop[l].hash => k = l
  BY OwnedIs
<1>3. AdoptHash(m) /\ AdoptList(m)
  BY DEF Receive
<1>4. /\ hash \in [{Loop[k].hash : k \in Followed} -> Nat]
      /\ view \in [Followed -> PollViews]
  BY DEF PollTypes, PollViews
<1>5. m.loop # l => view'[l] = view[l]
  BY <1>1, <1>3, <1>4 DEF AdoptList
<1>6. m.loop # l => hash'[Loop[l].hash] = hash[Loop[l].hash]
  BY <1>1, <1>2, <1>3, <1>4 DEF AdoptHash
<1>7. ASSUME m.loop = l, m.answer.code # "ok"
      PROVE  view'[l] = view[l] /\ hash'[Loop[l].hash] = hash[Loop[l].hash]
  BY <1>3, <1>7 DEF AdoptHash, AdoptList, Adopts
<1>8. ASSUME m.loop = l, m.answer.code = "ok"
      PROVE  view'[l].n = IF m.answer.full THEN m.answer.n ELSE view[l].n
  <2>1. Adopts(m) <=> m.answer.full
    BY <1>2, <1>8 DEF Adopts, Throws
  <2> QED BY <1>1, <1>3, <1>4, <1>8, <2>1 DEF AdoptList
<1>9. ASSUME m.loop = l, m.answer.code = "ok"
      PROVE  hash'[Loop[l].hash] = IF real /\ Loop[l].hash = "hashcode"
                                   THEN hash[Loop[l].hash] ELSE m.answer.n
  BY <1>1, <1>2, <1>3, <1>4, <1>9 DEF AdoptHash
<1> QED BY <1>5, <1>6, <1>7, <1>8, <1>9

LEMMA HashDeliver ==
    ASSUME PollTypes, HashInv, Deliver
    PROVE  HashInv'
<1> DEFINE m == wire[1]
           a == m.answer
<1>1. /\ wire # <<>> /\ wire' = Tail(wire) /\ 1 \in DOMAIN wire /\ m \in Polls(Followed)
      /\ a \in PollReplies /\ a # NoAnswer
      /\ UNCHANGED <<part, real, source>>
      /\ m.left => ReceiveLate(m)
      /\ ~m.left => Receive(m)
  BY HeadIs
<1>2. Followed' = Followed
  BY <1>1 DEF Followed
<1>3. wire \in Seq(Polls(Followed)) /\ Len(wire) \in Nat /\ DOMAIN wire = 1 .. Len(wire)
  BY LenProperties DEF PollTypes
<1>4. /\ DOMAIN wire' = 1 .. (Len(wire) - 1)
      /\ \A i \in DOMAIN wire' : i + 1 \in DOMAIN wire /\ wire'[i] = wire[i + 1]
  BY <1>1, <1>3, TailCounts
<1>5. \A l : \A i \in Flying(l)' : i \in DOMAIN wire' /\ i + 1 \in Flying(l) /\ wire'[i] = wire[i + 1]
  BY <1>4 DEF Flying
<1>6. \/ a.code = "error"
      \/ a.code = "ok" /\ a.n \in Nat /\ a.full \in BOOLEAN
  BY <1>1, ReplyIs
<1>7. ASSUME NEW l \in Followed, Owned(l) PROVE HashIsShown(l)' /\ Awaited(l)'
  <2>0. HashIsShown(l) /\ Awaited(l)
    BY <1>7 DEF HashInv
  <2>1. /\ view[l].n \in Nat /\ source[l].n \in Nat /\ view[l].n <= source[l].n
        /\ hash[Loop[l].hash] \in {0, view[l].n}
        /\ real /\ Loop[l].hash = "hashcode" => hash[Loop[l].hash] = 0
    BY <2>0, HashOf DEF HashIsShown
  \* The others stay in order.
  <2>2. ASSUME view'[l].n = view[l].n, hash'[Loop[l].hash] = hash[Loop[l].hash]
        PROVE  HashIsShown(l)' /\ Awaited(l)'
    <3>1. HashIsShown(l)'
      BY <1>1, <2>0, <2>2 DEF HashIsShown
    <3>2. ASSUME NEW i \in Flying(l)', NEW j \in Flying(l)'
          PROVE  /\ i + 1 \in Flying(l) /\ j + 1 \in Flying(l) /\ (j > i => j + 1 > i + 1)
                 /\ wire'[i] = wire[i + 1] /\ wire'[j] = wire[j + 1]
      BY <1>3, <1>4, <1>5
    <3>3. Awaited(l)'
      BY <1>1, <2>0, <2>2, <3>2 DEF Awaited
    <3> QED BY <3>1, <3>3
  <2>3. CASE m.left
    <3>1. view' = view /\ hash' = hash
      BY <1>1, <2>3 DEF ReceiveLate
    <3> QED BY <2>2, <3>1
  <2>4. CASE ~m.left /\ (m.loop # l \/ a.code # "ok")
    BY <1>1, <1>7, <2>2, <2>4, ReceiveIs
  <2>5. CASE ~m.left /\ m.loop = l /\ a.code = "ok"
    <3>1. 1 \in Flying(l)
      BY <1>1, <2>5 DEF Flying
    <3>2. /\ m.hash <= view[l].n /\ view[l].n <= a.n /\ a.n <= source[l].n
          /\ a.full \/ m.hash = a.n
          /\ \A j \in Flying(l) : j > 1 /\ wire[j].answer.code = "ok" => a.n <= wire[j].answer.n
      BY <2>0, <2>5, <3>1 DEF Awaited
    <3>3. a.n \in Nat /\ m.hash \in Nat
      BY <1>1, <1>6, <2>5 DEF Polls
    <3>4. /\ view'[l].n = IF a.full THEN a.n ELSE view[l].n
          /\ hash'[Loop[l].hash] = IF real /\ Loop[l].hash = "hashcode"
                                   THEN hash[Loop[l].hash] ELSE a.n
      BY <1>1, <1>7, <2>5, ReceiveIs
    <3>5. view'[l].n = a.n
      BY <2>1, <3>2, <3>3, <3>4
    <3>6. HashIsShown(l)'
      BY <1>1, <2>1, <3>2, <3>4, <3>5 DEF HashIsShown
    <3>7. ASSUME NEW i \in Flying(l)'
          PROVE  /\ wire'[i].hash <= a.n
                 /\ wire'[i].answer.code = "ok" =>
                       /\ a.n <= wire'[i].answer.n /\ wire'[i].answer.n <= source[l].n
                       /\ wire'[i].answer.full \/ wire'[i].hash = wire'[i].answer.n
                       /\ \A j \in Flying(l)' : j > i /\ wire'[j].answer.code = "ok" =>
                                                   wire'[i].answer.n <= wire'[j].answer.n
      <4>1. i + 1 \in Flying(l) /\ wire'[i] = wire[i + 1] /\ i + 1 > 1 /\ i + 1 \in DOMAIN wire
        BY <1>3, <1>4, <1>5
      <4>2. wire[i + 1].hash <= view[l].n
        BY <2>0, <4>1 DEF Awaited
      <4>3. wire[i + 1].hash \in Nat
        <5>1. wire[i + 1] \in Polls(Followed)
          BY <1>3, <4>1, ElementOfSeq
        <5> QED BY <5>1 DEF Polls
      <4>4. wire'[i].hash <= a.n
        BY <2>1, <3>2, <3>3, <4>1, <4>2, <4>3
      <4>5. ASSUME wire'[i].answer.code = "ok"
            PROVE  /\ a.n <= wire'[i].answer.n /\ wire'[i].answer.n <= source[l].n
                   /\ wire'[i].answer.full \/ wire'[i].hash = wire'[i].answer.n
        BY <2>0, <3>2, <4>1, <4>5 DEF Awaited
      <4>6. ASSUME wire'[i].answer.code = "ok", NEW j \in Flying(l)', j > i,
                   wire'[j].answer.code = "ok"
            PROVE  wire'[i].answer.n <= wire'[j].answer.n
        <5>1. j + 1 \in Flying(l) /\ wire'[j] = wire[j + 1] /\ j + 1 > i + 1
          BY <1>3, <1>4, <1>5, <4>6
        <5> QED BY <2>0, <4>1, <4>6, <5>1 DEF Awaited
      <4> QED BY <4>4, <4>5, <4>6
    <3>8. Awaited(l)'
      <4>1. source' = source
        BY <1>1
      <4> QED BY <3>5, <3>7, <4>1 DEF Awaited
    <3> QED BY <3>6, <3>8
  <2>6. m.left \in BOOLEAN
    BY <1>1 DEF Polls
  <2> QED BY <2>3, <2>4, <2>5, <2>6
<1> QED BY <1>2, <1>7 DEF HashInv

LEMMA HashSend ==
    ASSUME PollTypes, HashInv, NEW l \in Followed, Fire(l) \/ GhostPoll(l) \/ remove(l)
    PROVE  HashInv'
<1>1. UNCHANGED <<part, hash, choice, real, view, source>> /\ Followed' = Followed
  BY DEF Fire, GhostPoll, remove, Followed
<1>2. PICK m \in Polls(Followed) :
         /\ wire' = Append(wire, m) /\ m.answer = NoAnswer /\ m.loop = l
         /\ ~m.left => m.hash = hash[Loop[l].hash]
  <2>1. /\ Request(l) \in Polls(Followed) /\ Request(l).answer = NoAnswer
        /\ [Request(l) EXCEPT !.left = TRUE] \in Polls(Followed)
        /\ [Request(l) EXCEPT !.left = TRUE].answer = NoAnswer
        /\ [Request(l) EXCEPT !.left = TRUE].left = TRUE
        /\ [Request(l) EXCEPT !.left = TRUE].loop = l
        /\ Request(l).loop = l /\ Request(l).hash = hash[Loop[l].hash]
    BY <1>1, HashOf, RequestIs
  <2>2. wire' = Append(wire, Request(l)) \/ wire' = Append(wire, [Request(l) EXCEPT !.left = TRUE])
    BY DEF Fire, GhostPoll, remove
  <2> QED BY <2>1, <2>2
<1>3. wire \in Seq(Polls(Followed)) /\ Len(wire) \in Nat /\ DOMAIN wire = 1 .. Len(wire)
  BY LenProperties DEF PollTypes
<1>4. /\ DOMAIN wire' = 1 .. (Len(wire) + 1)
      /\ \A i \in DOMAIN wire : wire'[i] = wire[i]
      /\ wire'[Len(wire) + 1] = m
  BY <1>2, <1>3, SendCounts
<1>5. ASSUME NEW k \in Followed, Owned(k), HashIsShown(k), Awaited(k) PROVE Awaited(k)'
  <2>1. view[k].n \in Nat /\ hash[Loop[k].hash] <= view[k].n
    BY <1>5, HashOf DEF HashIsShown
  <2>2. ASSUME NEW i \in Flying(k)', i \notin Flying(k)
        PROVE  wire'[i].answer.code # "ok" /\ wire'[i].hash <= view[k].n
    <3>1. i = Len(wire) + 1
      BY <1>3, <1>4, <2>2 DEF Flying
    <3>2. wire'[i] = m /\ m.loop = k /\ ~m.left
      BY <1>4, <2>2, <3>1 DEF Flying
    <3> QED BY <1>2, <2>1, <3>2 DEF NoAnswer
  <2>3. ASSUME NEW i \in Flying(k)', wire'[i].answer.code = "ok" PROVE i \in Flying(k)
    BY <2>2, <2>3
  <2>4. \A i \in Flying(k) : wire'[i] = wire[i]
    BY <1>4 DEF Flying
  <2>5. view' = view /\ source' = source
    BY <1>1
  <2> QED BY <1>5, <2>2, <2>3, <2>4, <2>5 DEF Awaited
<1>6. \A k \in Followed : HashIsShown(k) => HashIsShown(k)'
  BY <1>1 DEF HashIsShown
<1> QED BY <1>1, <1>5, <1>6 DEF HashInv

(* What the user does sends nothing. *)
LEMMA HashRest ==
    ASSUME PollTypes, HashInv, UNCHANGED wire, Followed' = Followed,
           \A l \in Followed :
              /\ view'[l].n = view[l].n
              /\ source'[l].n = source[l].n \/ source'[l].n = source[l].n + 1
              /\ hash'[Loop[l].hash] = hash[Loop[l].hash] \/ hash'[Loop[l].hash] = 0
              /\ real' /\ Loop[l].hash = "hashcode" => real \/ hash'[Loop[l].hash] = 0
    PROVE  HashInv'
<1>1. ASSUME NEW l \in Followed, Owned(l), HashIsShown(l), Awaited(l) PROVE HashIsShown(l)' /\ Awaited(l)'
  <2>1. view[l].n \in Nat /\ source[l].n \in Nat /\ source[l].n <= source'[l].n
        /\ source'[l].n \in Nat /\ view'[l].n = view[l].n
    BY HashOf
  <2>2. HashIsShown(l)'
    BY <1>1, <2>1 DEF HashIsShown
  <2>3. Flying(l)' = Flying(l) /\ wire' = wire
    BY DEF Flying
  <2>4. ASSUME NEW i \in Flying(l), wire[i].answer.code = "ok" PROVE wire[i].answer.n \in Nat
    <3>1. wire[i] \in Polls(Followed)
      BY ElementOfSeq, LenProperties DEF PollTypes, Flying
    <3>2. wire[i].answer \in PollReplies /\ wire[i].answer # NoAnswer
      BY <2>4, <3>1 DEF Polls, NoAnswer
    <3> QED BY <2>4, <3>2, ReplyIs
  <2>5. Awaited(l)'
    BY <1>1, <2>1, <2>3, <2>4 DEF Awaited
  <2> QED BY <2>2, <2>5
<1> QED BY <1>1 DEF HashInv

LEMMA HashStep ==
    PollTypes /\ InOrder /\ HashInv /\ LoopInv /\ [PollsNext]_pollVars => HashInv'
<1> SUFFICES ASSUME PollTypes, InOrder, HashInv, LoopInv, [PollsNext]_pollVars PROVE HashInv'
  OBVIOUS
<1>0. /\ view \in [Followed -> PollViews] /\ source \in [Followed -> PollSources]
      /\ hash \in [{Loop[k].hash : k \in Followed} -> Nat] /\ real \in BOOLEAN
  BY DEF PollTypes, PollViews, PollSources
<1>1. ASSUME NEW C, Leave(C) PROVE HashInv'
  <2>1. Followed' = Followed /\ \A l : Flying(l)' = {}
    BY <1>1, LeaveIs DEF Flying
  <2>2. UNCHANGED <<view, source, hash, real>>
    BY <1>1 DEF Leave
  <2>3. \A l \in Followed : HashIsShown(l) => HashIsShown(l)'
    BY <2>2 DEF HashIsShown
  <2>4. \A l \in Followed : Awaited(l)'
    BY <2>1 DEF Awaited
  <2> QED BY <2>1, <2>3, <2>4 DEF HashInv
<1>2. ASSUME NEW l \in Followed, NEW field \in {"page", "order", "key"}, Choose(l, field)
      PROVE  HashInv'
  <2>1. UNCHANGED <<part, wire, view, source, hash, real>> /\ Followed' = Followed
    BY <1>2 DEF Choose, Followed
  <2> QED BY <2>1, HashRest
<1>3. CASE updateRealTime
  <2>1. UNCHANGED <<part, wire, view, source>> /\ Followed' = Followed
    BY <1>3 DEF updateRealTime, Followed
  <2>2. \A h \in DOMAIN hash : hash'[h] = IF h \in {"hashcode", "hashcode1"} THEN 0 ELSE hash[h]
    BY <1>3 DEF updateRealTime
  <2>3. \A l \in Followed :
           /\ hash'[Loop[l].hash] = hash[Loop[l].hash] \/ hash'[Loop[l].hash] = 0
           /\ Loop[l].hash = "hashcode" => hash'[Loop[l].hash] = 0
    BY <2>2, HashOf
  <2> QED BY <2>1, <2>3, HashRest
<1>4. ASSUME NEW l \in Followed, handleTuntap(l) PROVE HashInv'
  <2>1. UNCHANGED <<part, wire, hash, real>> /\ Followed' = Followed
        /\ view' = [view EXCEPT ![l].loading = TRUE]
        /\ (source' = source \/ source' = [source EXCEPT ![l].n = @ + 1])
    BY <1>4 DEF handleTuntap, Followed
  <2>2. \A k \in Followed : view'[k].n = view[k].n
    BY <1>0, <2>1 DEF PollViews
  <2>3. \A k \in Followed : source'[k].n = source[k].n \/ source'[k].n = source[k].n + 1
    BY <1>0, <2>1 DEF PollSources
  <2> QED BY <2>1, <2>2, <2>3, HashRest
<1>5. ASSUME NEW l \in Followed, handleUpdate(l) PROVE HashInv'
  <2>1. UNCHANGED <<part, wire, view, source, hash, real>> /\ Followed' = Followed
    BY <1>5 DEF handleUpdate, Followed
  <2> QED BY <2>1, HashRest
<1>6. ASSUME NEW l \in Followed, Change(l) PROVE HashInv'
  <2>1. /\ UNCHANGED <<part, wire, view, hash, real>> /\ Followed' = Followed
        /\ source'[l].n = source[l].n + 1 /\ \A k \in Followed \ {l} : source'[k] = source[k]
    BY <1>6, ChangeIs DEF Followed
  <2>2. \A k \in Followed : source'[k].n = source[k].n \/ source'[k].n = source[k].n + 1
    BY <2>1
  <2> QED BY <2>1, <2>2, HashRest
<1>7. CASE UNCHANGED pollVars
  <2>1. UNCHANGED <<part, wire, view, source, hash, real>> /\ Followed' = Followed
    BY <1>7 DEF pollVars, Followed
  <2> QED BY <2>1, HashRest
<1> QED BY <1>1, <1>2, <1>3, <1>4, <1>5, <1>6, <1>7, PollActions, HashMount, HashServe,
           HashDeliver, HashSend

-------------------------------------------------------------------------------
(* Loops neither end nor double *)

(* How many requests a step adds or takes away. *)
LEMMA CountsSame ==
    ASSUME (Serve /\ PollTypes) \/ UNCHANGED wire
    PROVE  LeftOnes' = LeftOnes /\ \A l : Flying(l)' = Flying(l)
<1>1. CASE Serve /\ PollTypes
  <2>1. DOMAIN wire' = DOMAIN wire
        /\ \A j \in DOMAIN wire : wire'[j].loop = wire[j].loop /\ wire'[j].left = wire[j].left
    BY <1>1, PollTypesServe
  <2> QED BY <2>1 DEF LeftOnes, Flying
<1>2. CASE UNCHANGED wire
  BY <1>2 DEF LeftOnes, Flying
<1> QED BY <1>1, <1>2

LEMMA CountsIn ==
    ASSUME PollTypes
    PROVE  /\ IsFiniteSet(LeftOnes) /\ Cardinality(LeftOnes) \in Nat
           /\ \A l : Cardinality(Flying(l)) \in Nat
BY CountTypes, SetsAre DEF PollTypes

LEMMA CountsDeliver ==
    ASSUME PollTypes, Deliver
    PROVE  /\ Cardinality(LeftOnes)' = IF wire[1].left THEN Cardinality(LeftOnes) - 1
                                       ELSE Cardinality(LeftOnes)
           /\ \A l : Cardinality(Flying(l))' =
                        IF wire[1].loop = l /\ ~wire[1].left THEN Cardinality(Flying(l)) - 1
                        ELSE Cardinality(Flying(l))
<1>1. wire # <<>> /\ wire' = Tail(wire) /\ wire \in Seq(Polls(Followed))
  BY HeadIs DEF PollTypes
<1>2. /\ LeftOnes = LeftOf(wire) /\ LeftOnes' = LeftOf(Tail(wire))
      /\ \A l : Flying(l) = FlyingOf(wire, l) /\ Flying(l)' = FlyingOf(Tail(wire), l)
  BY <1>1 DEF LeftOnes, Flying, LeftOf, FlyingOf
<1> QED BY <1>1, <1>2, TailCounts

LEMMA CountsSend ==
    ASSUME PollTypes, NEW l \in Followed, Fire(l) \/ GhostPoll(l) \/ remove(l)
    PROVE  /\ Fire(l) \/ remove(l) =>
                 /\ Cardinality(LeftOnes)' = Cardinality(LeftOnes)
                 /\ \A k : Cardinality(Flying(k))' = IF k = l THEN Cardinality(Flying(k)) + 1
                                                     ELSE Cardinality(Flying(k))
           /\ GhostPoll(l) =>
                 /\ Cardinality(LeftOnes)' = Cardinality(LeftOnes) + 1
                 /\ \A k : Cardinality(Flying(k))' = Cardinality(Flying(k))
<1> DEFINE q == wire
           S == Polls(Followed)
           r == Request(l)
           g == [Request(l) EXCEPT !.left = TRUE]
<1>1. /\ q \in Seq(S) /\ r \in S /\ g \in S /\ r.loop = l /\ r.left = FALSE /\ g.left = TRUE
  <2>1. UNCHANGED <<hash, choice>>
    BY DEF Fire, GhostPoll, remove
  <2> QED BY <2>1, HashOf, RequestIs DEF PollTypes
<1>2. /\ Fire(l) \/ remove(l) => wire' = Append(q, r)
      /\ GhostPoll(l) => wire' = Append(q, g)
  BY DEF Fire, GhostPoll, remove
<1>3. /\ LeftOnes = LeftOf(q) /\ LeftOnes' = LeftOf(wire')
      /\ \A k : Flying(k) = FlyingOf(q, k) /\ Flying(k)' = FlyingOf(wire', k)
  BY DEF LeftOnes, Flying, LeftOf, FlyingOf
<1> HIDE DEF q, S, r, g
<1>4. /\ Cardinality(LeftOf(Append(q, r))) = Cardinality(LeftOf(q))
      /\ \A k : Cardinality(FlyingOf(Append(q, r), k)) =
                   IF k = l THEN Cardinality(FlyingOf(q, k)) + 1 ELSE Cardinality(FlyingOf(q, k))
  BY <1>1, SendCounts
<1>5. /\ Cardinality(LeftOf(Append(q, g))) = Cardinality(LeftOf(q)) + 1
      /\ \A k : Cardinality(FlyingOf(Append(q, g), k)) = Cardinality(FlyingOf(q, k))
  BY <1>1, SendCounts
<1> QED BY <1>2, <1>3, <1>4, <1>5

LEMMA CountsMount ==
    ASSUME PollTypes, LoopInv, NEW p \in Parts, onMounted(p)
    PROVE  /\ LeftOnes' = LeftOnes /\ LeftOnes = DOMAIN wire
           /\ \A l \in Followed' : Cardinality(Flying(l))' = 1
<1>1. /\ DOMAIN p.loops = 1 .. Len(p.loops) /\ Len(p.loops) \in Nat
      /\ Followed' = {p.loops[i] : i \in DOMAIN p.loops}
      /\ Len(wire) \in Nat /\ DOMAIN wire = 1 .. Len(wire)
      /\ DOMAIN wire' = 1 .. (Len(wire) + Len(p.loops))
      /\ \A i \in DOMAIN wire : wire'[i] = wire[i]
      /\ \A i \in DOMAIN p.loops :
            wire'[Len(wire) + i].loop = p.loops[i] /\ wire'[Len(wire) + i].left = FALSE
  BY MountIs
<1>2. LeftOnes = DOMAIN wire
  BY DEF LoopInv, onMounted
<1>3. \A i \in DOMAIN wire : wire'[i].left
  BY <1>1, <1>2 DEF LeftOnes
<1>4. ASSUME NEW j \in DOMAIN wire', j \notin DOMAIN wire
      PROVE  j - Len(wire) \in DOMAIN p.loops /\ wire'[j].left = FALSE
             /\ wire'[j].loop = p.loops[j - Len(wire)]
  <2>1. j - Len(wire) \in DOMAIN p.loops /\ Len(wire) + (j - Len(wire)) = j
    BY <1>1, <1>4
  <2> QED BY <1>1, <2>1
<1>5. LeftOnes' = LeftOnes
  <2>1. DOMAIN wire \subseteq DOMAIN wire'
    BY <1>1
  <2> QED BY <1>2, <1>3, <1>4, <2>1 DEF LeftOnes
<1>6. ASSUME NEW l \in Followed' PROVE Cardinality(Flying(l))' = 1
  <2>1. PICK i \in DOMAIN p.loops : p.loops[i] = l
    BY <1>1
  <2>2. Len(wire) + i \in DOMAIN wire'
    BY <1>1
  <2>3. \A k \in DOMAIN p.loops : p.loops[k] = l => k = i
    BY <2>1, FollowedIs
  <2>4. ASSUME NEW j \in DOMAIN wire', wire'[j].loop = l, ~wire'[j].left PROVE j = Len(wire) + i
    <3>1. j - Len(wire) \in DOMAIN p.loops /\ p.loops[j - Len(wire)] = l
      BY <1>3, <1>4, <2>4
    <3> QED BY <1>1, <2>3, <3>1
  <2>5. Flying(l)' = {Len(wire) + i}
    BY <1>1, <2>1, <2>2, <2>4 DEF Flying
  <2>6. Cardinality({Len(wire) + i}) = 1
    BY FS_Singleton
  <2> QED BY <2>5, <2>6
<1> QED BY <1>2, <1>5, <1>6

LEMMA CountsLeave ==
    ASSUME PollTypes, NEW C, Leave(C)
    PROVE  /\ \A l : Flying(l)' = {}
           /\ LeftOnes' = DOMAIN wire' /\ DOMAIN wire' = DOMAIN wire
           /\ Cardinality(UNION {Flying(l) : l \in Followed}) \in Nat
           /\ Cardinality(LeftOnes)' =
                 Cardinality(LeftOnes) + Cardinality(UNION {Flying(l) : l \in Followed})
<1> DEFINE U == UNION {Flying(l) : l \in Followed}
<1>1. DOMAIN wire' = DOMAIN wire /\ \A i \in DOMAIN wire : wire'[i].left = TRUE
  BY LeaveIs
<1>2. LeftOnes' = DOMAIN wire /\ \A l : Flying(l)' = {}
  BY <1>1 DEF LeftOnes, Flying
<1>3. wire \in Seq(Polls(Followed)) /\ Len(wire) \in Nat /\ DOMAIN wire = 1 .. Len(wire)
  BY LenProperties DEF PollTypes
<1>4. \A i \in DOMAIN wire : wire[i].loop \in Followed
  <2>1. \A i \in DOMAIN wire : wire[i] \in Polls(Followed)
    BY <1>3, ElementOfSeq
  <2> QED BY <2>1 DEF Polls
<1>5. DOMAIN wire = LeftOnes \union U /\ LeftOnes \cap U = {}
  BY <1>4 DEF LeftOnes, Flying
<1>6. IsFiniteSet(LeftOnes) /\ IsFiniteSet(U) /\ Cardinality(U) \in Nat
  <2>1. LeftOnes \subseteq 1 .. Len(wire) /\ U \subseteq 1 .. Len(wire)
    BY <1>3 DEF LeftOnes, Flying
  <2> QED BY <1>3, <2>1, MoreCount
<1> HIDE DEF U
<1>7. Cardinality(LeftOnes \union U) = Cardinality(LeftOnes) + Cardinality(U)
  <2>1. /\ IsFiniteSet(LeftOnes) /\ Cardinality(LeftOnes) \in Nat
        /\ Cardinality(LeftOnes \union U)
              = Cardinality(LeftOnes) + Cardinality(U) - Cardinality(LeftOnes \cap U)
    BY <1>6, FS_Union, FS_CardinalityType
  <2>2. Cardinality(LeftOnes \cap U) = 0
    BY <1>5, FS_EmptySet
  <2> QED BY <1>6, <2>1, <2>2
<1> QED BY <1>1, <1>2, <1>5, <1>6, <1>7 DEF U

(* The loops that are open: how many timers and requests they have. *)
OpenOK(l) ==
    /\ Loop[l].again = "never" => l \notin timer /\ stray[l] = 0
    /\ open /\ Loop[l].again = "always" =>
          /\ Chains(l) >= stray[l] + 1
          /\ Loop[l].restarts \/ Chains(l) = 1

LEMMA OpenIs ==
    LoopInv <=> /\ ~open => timer = {} /\ LeftOnes = DOMAIN wire /\ \A l \in Followed : stray[l] = 0
                /\ \A l \in Followed : OpenOK(l)
BY DEF LoopInv, OpenOK

(* A loop is as it was. *)
LEMMA ChainsSame ==
    ASSUME NEW l, Cardinality(Flying(l))' = Cardinality(Flying(l)),
           l \in timer' <=> l \in timer, stray'[l] = stray[l]
    PROVE  Chains(l)' = Chains(l)
BY DEF Chains

(* An answer that is followed by the next request, and a request, leave as many. *)
LEMMA ChainsDeliver ==
    ASSUME PollTypes, Deliver, NEW l \in Followed
    PROVE  /\ l # wire[1].loop \/ wire[1].left \/ Again(wire[1]) => Chains(l)' = Chains(l)
           /\ stray'[l] \in {stray[l], stray[l] + 1}
           /\ stray'[l] # stray[l] => Cardinality(Flying(l)) >= 1 /\ l \in timer
           /\ Loop[l].again = "never" => stray'[l] = stray[l] /\ (l \in timer' => l \in timer)
<1> DEFINE m == wire[1]
           F == Cardinality(Flying(l))
<1>1. /\ m \in Polls(Followed) /\ m.loop \in Followed /\ m.left \in BOOLEAN
      /\ 1 \in DOMAIN wire
      /\ m.left => ReceiveLate(m)
      /\ ~m.left => Receive(m)
  BY HeadIs
<1>2. /\ F \in Nat /\ stray[l] \in Nat /\ stray \in [Followed -> Nat]
      /\ F' = IF m.loop = l /\ ~m.left THEN F - 1 ELSE F
  BY CountsIn, CountsDeliver DEF PollTypes
<1>3. m.loop = l /\ ~m.left => F >= 1
  <2>1. ASSUME m.loop = l, ~m.left PROVE F # 0
    <3>1. 1 \in Flying(l)
      BY <1>1, <2>1 DEF Flying
    <3>2. IsFiniteSet(Flying(l))
      BY CountTypes, SetsAre DEF PollTypes
    <3> QED BY <3>1, <3>2, FS_EmptySet
  <2> QED BY <1>2, <2>1
<1>4. CASE m.left
  <2>1. UNCHANGED <<timer, stray>>
    BY <1>1, <1>4 DEF ReceiveLate
  <2> QED BY <1>2, <1>4, <2>1 DEF Chains
<1>5. CASE ~m.left /\ ~Again(m)
  <2>1. UNCHANGED <<timer, stray>>
    BY <1>1, <1>5 DEF Receive
  <2> QED BY <1>2, <1>5, <2>1 DEF Chains
<1>6. CASE ~m.left /\ Again(m)
  <2>1. Arm(m.loop)
    BY <1>1, <1>6 DEF Receive
  <2>2. Loop[m.loop].again # "never"
    BY <1>6 DEF Again
  <2>3. CASE m.loop # l
    <3>1. (l \in timer' <=> l \in timer) /\ stray'[l] = stray[l]
      BY <1>2, <2>1, <2>3 DEF Arm
    <3> QED BY <1>2, <2>3, <3>1 DEF Chains
  <2>4. CASE m.loop = l
    <3>1. l \in timer' /\ stray'[l] = IF l \in timer THEN stray[l] + 1 ELSE stray[l]
      BY <1>2, <2>1, <2>4 DEF Arm
    <3> QED BY <1>2, <1>3, <1>6, <2>2, <2>4, <3>1 DEF Chains
  <2> QED BY <2>3, <2>4
<1> QED BY <1>1, <1>4, <1>5, <1>6

LEMMA LoopMount ==
    ASSUME PollTypes, LoopInv, NEW p \in Parts, onMounted(p)
    PROVE  LoopInv'
<1>1. open' = TRUE /\ timer' = {} /\ stray' = [l \in Followed' |-> 0]
  BY MountIs
<1>2. ASSUME NEW l \in Followed' PROVE OpenOK(l)'
  <2>1. Cardinality(Flying(l))' = 1 /\ l \notin timer' /\ stray'[l] = 0
    BY <1>1, CountsMount
  <2> QED BY <2>1 DEF OpenOK, Chains
<1> QED BY <1>1, <1>2 DEF LoopInv, OpenOK

LEMMA LoopDeliver ==
    ASSUME PollTypes, LoopInv, Deliver
    PROVE  LoopInv'
<1>1. /\ wire # <<>> /\ wire' = Tail(wire) /\ wire[1] \in Polls(Followed) /\ 1 \in DOMAIN wire
      /\ wire[1].loop \in Followed /\ wire[1].left \in BOOLEAN
      /\ UNCHANGED <<part, open>> /\ (wire[1].left => ReceiveLate(wire[1]))
      /\ wire \in Seq(Polls(Followed))
  BY HeadIs DEF PollTypes
<1>2. Followed' = Followed
  BY <1>1 DEF Followed
<1>3. ASSUME ~open PROVE timer' = {} /\ LeftOnes' = DOMAIN wire' /\ \A l \in Followed : stray'[l] = 0
  <2>1. timer = {} /\ LeftOnes = DOMAIN wire /\ \A l \in Followed : stray[l] = 0
    BY <1>3 DEF LoopInv
  <2>2. \A i \in DOMAIN wire : wire[i].left
    BY <2>1 DEF LeftOnes
  <2>3. UNCHANGED <<timer, stray>>
    BY <1>1, <2>2 DEF ReceiveLate
  <2>4. \A i \in DOMAIN wire' : wire'[i].left
    BY <1>1, <2>2, TailCounts
  <2> QED BY <2>1, <2>3, <2>4 DEF LeftOnes
<1>4. ASSUME NEW l \in Followed PROVE OpenOK(l)'
  <2>0. LoopOK(l, Loop[l]) /\ OpenOK(l)
    BY PartIs, OpenIs DEF PollTypes
  <2>1. /\ l # wire[1].loop \/ wire[1].left \/ Again(wire[1]) => Chains(l)' = Chains(l)
        /\ stray'[l] \in {stray[l], stray[l] + 1}
        /\ stray'[l] # stray[l] => Cardinality(Flying(l)) >= 1 /\ l \in timer
        /\ Loop[l].again = "never" => stray'[l] = stray[l] /\ (l \in timer' => l \in timer)
    BY ChainsDeliver
  <2>2. Loop[l].again = "never" => l \notin timer' /\ stray'[l] = 0
    BY <2>0, <2>1 DEF OpenOK
  <2>3. ASSUME open, Loop[l].again = "always"
        PROVE  Chains(l)' >= stray'[l] + 1 /\ (Loop[l].restarts \/ Chains(l)' = 1)
    <3>1. Chains(l)' = Chains(l)
      <4>1. wire[1].loop = l => Again(wire[1])
        BY <2>3 DEF Again
      <4> QED BY <2>1, <4>1
    <3>2. Chains(l) >= stray[l] + 1 /\ (Loop[l].restarts \/ Chains(l) = 1)
      BY <2>0, <2>3 DEF OpenOK
    <3>3. stray[l] \in Nat /\ Cardinality(Flying(l)) \in Nat
      BY CountsIn, HashOf
    <3>4. CASE stray'[l] # stray[l]
      <4>1. Chains(l) = 1 + stray[l] + Cardinality(Flying(l)) /\ stray'[l] = stray[l] + 1
            /\ Cardinality(Flying(l)) >= 1
        BY <2>1, <3>4 DEF Chains
      <4> QED BY <3>1, <3>2, <3>3, <4>1
    <3>5. CASE stray'[l] = stray[l]
      BY <3>1, <3>2, <3>5
    <3> QED BY <3>4, <3>5
  <2> QED BY <1>1, <2>2, <2>3 DEF OpenOK
<1> QED BY <1>1, <1>2, <1>3, <1>4 DEF LoopInv, OpenOK

LEMMA LoopSend ==
    ASSUME PollTypes, LoopInv, NEW l \in Followed, Fire(l) \/ GhostPoll(l) \/ remove(l)
    PROVE  LoopInv'
<1>1. UNCHANGED <<part, open>> /\ Followed' = Followed
  BY DEF Fire, GhostPoll, remove, Followed
<1>2. /\ stray \in [Followed -> Nat] /\ wire \in Seq(Polls(Followed))
      /\ \A k : Cardinality(Flying(k)) \in Nat
  BY CountsIn DEF PollTypes
<1>3. ASSUME ~open PROVE timer' = {} /\ LeftOnes' = DOMAIN wire' /\ \A k \in Followed : stray'[k] = 0
  <2>1. timer = {} /\ LeftOnes = DOMAIN wire /\ \A k \in Followed : stray[k] = 0
    BY <1>3 DEF LoopInv
  <2>2. GhostPoll(l)
    BY <1>3 DEF Fire, remove
  <2>3. UNCHANGED <<timer, stray, hash, choice>> /\ wire' = Append(wire, [Request(l) EXCEPT !.left = TRUE])
    BY <2>2 DEF GhostPoll
  <2>4. /\ [Request(l) EXCEPT !.left = TRUE] \in Polls(Followed)
        /\ [Request(l) EXCEPT !.left = TRUE].left = TRUE
    BY <2>3, HashOf, RequestIs
  <2>5. \A i \in DOMAIN wire' : wire'[i].left
    <3> DEFINE g == [Request(l) EXCEPT !.left = TRUE]
    <3>1. /\ Len(wire) \in Nat /\ DOMAIN wire = 1 .. Len(wire)
          /\ DOMAIN wire' = 1 .. (Len(wire) + 1) /\ wire'[Len(wire) + 1] = g
          /\ \A i \in DOMAIN wire : wire'[i] = wire[i]
      BY <1>2, <2>3, <2>4, SendCounts
    <3>2. g.left = TRUE
      BY <2>4
    <3>3. \A i \in DOMAIN wire : wire[i].left
      BY <2>1 DEF LeftOnes
    <3> HIDE DEF g
    <3> QED BY <3>1, <3>2, <3>3
  <2> QED BY <2>1, <2>3, <2>5 DEF LeftOnes
<1>4. ASSUME NEW k \in Followed, GhostPoll(l) PROVE OpenOK(k)'
  <2>1. UNCHANGED <<timer, stray>>
    BY <1>4 DEF GhostPoll
  <2>2. Chains(k)' = Chains(k)
    BY <1>4, <2>1, CountsSend DEF Chains
  <2> QED BY <1>1, <2>1, <2>2, OpenIs DEF OpenOK
<1>5. ASSUME NEW k \in Followed, k # l, Fire(l) \/ remove(l) PROVE OpenOK(k)'
  <2>1. (k \in timer' <=> k \in timer) /\ stray'[k] = stray[k]
    BY <1>2, <1>5 DEF Fire, remove
  <2>2. Chains(k)' = Chains(k)
    BY <1>5, <2>1, CountsSend DEF Chains
  <2> QED BY <1>1, <2>1, <2>2, OpenIs DEF OpenOK
<1>6. ASSUME Fire(l) \/ remove(l) PROVE OpenOK(l)'
  <2> DEFINE F == Cardinality(Flying(l))
  <2>0. LoopOK(l, Loop[l]) /\ OpenOK(l)
    BY PartIs, OpenIs DEF PollTypes
  <2>1. F \in Nat /\ F' = F + 1 /\ stray[l] \in Nat
    BY <1>2, <1>6, CountsSend
  <2>2. l \notin timer'
    BY <1>6 DEF Fire, remove
  <2>3. \/ stray'[l] = stray[l] /\ (l \in timer \/ Loop[l].restarts)
        \/ stray[l] > 0 /\ stray'[l] = stray[l] - 1
    BY <1>2, <1>6 DEF Fire, remove
  <2>4. Loop[l].restarts => Loop[l].again = "always"
    BY <2>0 DEF LoopOK
  <2>5. Loop[l].again = "never" => stray'[l] = 0
    BY <2>0, <2>1, <2>3, <2>4 DEF OpenOK
  <2>6. ASSUME open, Loop[l].again = "always"
        PROVE  Chains(l)' >= stray'[l] + 1 /\ (Loop[l].restarts \/ Chains(l)' = 1)
    <3>1. Chains(l) = (IF l \in timer THEN 1 ELSE 0) + stray[l] + F
      BY DEF Chains
    <3>2. Chains(l)' = 0 + stray'[l] + (F + 1)
      BY <2>1, <2>2 DEF Chains
    <3>3. Chains(l) >= stray[l] + 1 /\ (Loop[l].restarts \/ Chains(l) = 1)
      BY <2>0, <2>6 DEF OpenOK
    <3> HIDE DEF F
    <3>4. stray'[l] \in Nat
      BY <2>1, <2>3
    <3>5. Chains(l)' >= stray'[l] + 1
      BY <2>1, <3>2, <3>4
    <3>6. CASE Loop[l].restarts
      BY <3>5, <3>6
    <3>7. CASE ~Loop[l].restarts
      <4>1. stray[l] = 0
        BY <2>1, <3>3, <3>7
      <4>2. stray'[l] = 0 /\ l \in timer
        BY <2>3, <3>7, <4>1
      <4>3. F = 0
        BY <2>1, <3>1, <3>3, <3>7, <4>1, <4>2
      <4> QED BY <3>2, <3>5, <4>2, <4>3
    <3> QED BY <3>6, <3>7
  <2> QED BY <1>1, <2>2, <2>5, <2>6 DEF OpenOK
<1>7. \A k \in Followed : OpenOK(k)'
  BY <1>4, <1>5, <1>6
<1> QED BY <1>1, <1>3, <1>7 DEF LoopInv, OpenOK

LEMMA LoopLeave ==
    ASSUME PollTypes, LoopInv, NEW C, Leave(C)
    PROVE  LoopInv'
<1>1. open' = FALSE /\ timer' = {} /\ stray' = [l \in Followed |-> 0] /\ Followed' = Followed
  BY LeaveIs DEF Leave
<1>2. LeftOnes' = DOMAIN wire'
  BY CountsLeave
<1> QED BY <1>1, <1>2 DEF LoopInv

LEMMA LoopRest ==
    ASSUME PollTypes, LoopInv, UNCHANGED <<part, open, timer>>, LeftOnes' = LeftOnes,
           \A l : Flying(l)' = Flying(l), DOMAIN wire' = DOMAIN wire,
           \A l \in Followed : stray'[l] = stray[l] \/ (Loop[l].again = "busy" /\ open)
    PROVE  LoopInv'
<1>1. Followed' = Followed
  BY DEF Followed
<1>2. ASSUME NEW l \in Followed PROVE OpenOK(l)'
  <2>1. CASE stray'[l] = stray[l]
    <3>1. Chains(l)' = Chains(l)
      BY <2>1 DEF Chains
    <3> QED BY <2>1, <3>1, OpenIs DEF OpenOK
  <2>2. CASE Loop[l].again = "busy"
    BY <2>2 DEF OpenOK
  <2> QED BY <2>1, <2>2
<1>3. ~open => timer = {} /\ LeftOnes = DOMAIN wire /\ \A l \in Followed : stray'[l] = 0
  BY DEF LoopInv
<1> QED BY <1>1, <1>2, <1>3 DEF LoopInv, OpenOK

LEMMA LoopStep == PollTypes /\ LoopInv /\ [PollsNext]_pollVars => LoopInv'
<1> SUFFICES ASSUME PollTypes, LoopInv, [PollsNext]_pollVars PROVE LoopInv'
  OBVIOUS
<1>1. CASE Serve
  <2>1. LeftOnes' = LeftOnes /\ \A l : Flying(l)' = Flying(l)
    BY <1>1, CountsSame
  <2>2. DOMAIN wire' = DOMAIN wire /\ UNCHANGED <<part, open, timer, stray>>
    BY <1>1, PollTypesServe
  <2> QED BY <2>1, <2>2, LoopRest
<1>2. ASSUME NEW l \in Followed,
             updateRealTime \/ handleTuntap(l) \/ handleUpdate(l)
                \/ \E field \in {"page", "order", "key"} : Choose(l, field)
      PROVE  LoopInv'
  <2>1. UNCHANGED <<part, open, wire, timer>>
    BY <1>2 DEF updateRealTime, handleTuntap, handleUpdate, Choose
  <2>2. LeftOnes' = LeftOnes /\ \A k : Flying(k)' = Flying(k)
    BY <2>1, CountsSame
  <2>3. \A k \in Followed : stray'[k] = stray[k] \/ (Loop[k].again = "busy" /\ open)
    <3>1. stray \in [Followed -> Nat]
      BY DEF PollTypes
    <3>2. stray' = stray \/ (stray' = [stray EXCEPT ![l] = @ + 1] /\ Loop[l].again = "busy" /\ open)
      BY <1>2 DEF updateRealTime, handleTuntap, handleUpdate, Choose, Choosing
    <3> QED BY <3>1, <3>2
  <2> QED BY <2>1, <2>2, <2>3, LoopRest
<1>3. ASSUME NEW l \in Followed, Change(l) PROVE LoopInv'
  <2>1. UNCHANGED <<part, open, wire, timer, stray>>
    BY <1>3, ChangeIs
  <2> QED BY <2>1, CountsSame, LoopRest
<1>4. CASE UNCHANGED pollVars
  <2>1. UNCHANGED <<part, open, wire, timer, stray>>
    BY <1>4 DEF pollVars
  <2> QED BY <2>1, CountsSame, LoopRest
<1> QED BY <1>1, <1>2, <1>3, <1>4, PollActions, LoopMount, LoopDeliver, LoopSend, LoopLeave

-------------------------------------------------------------------------------
(* What goes on after a component was left *)

LEMMA GhostMore ==
    ASSUME NEW names, NEW g \in [names -> Nat], NEW l \in names, IsFiniteSet(GhostsOf(names, g))
    PROVE  /\ IsFiniteSet(GhostsOf(names, [g EXCEPT ![l] = @ + 1]))
           /\ Cardinality(GhostsOf(names, [g EXCEPT ![l] = @ + 1])) = Cardinality(GhostsOf(names, g)) + 1
<1> DEFINE h == [g EXCEPT ![l] = @ + 1]
           x == <<l, g[l] + 1>>
<1>1. g[l] \in Nat /\ h[l] = g[l] + 1 /\ \A k \in names \ {l} : h[k] = g[k]
  OBVIOUS
<1>2. x \notin GhostsOf(names, g)
  BY <1>1 DEF GhostsOf
<1>3. GhostsOf(names, h) = GhostsOf(names, g) \union {x}
  <2> HIDE DEF h
  <2>1. ASSUME NEW k \in names, NEW n \in Nat
        PROVE  n <= h[k] <=> n <= g[k] \/ (k = l /\ n = g[l] + 1)
    <3>1. g[k] \in Nat /\ h[k] = IF k = l THEN g[l] + 1 ELSE g[k]
      BY <1>1
    <3> QED BY <3>1
  <2>2. x \in names \X Nat /\ 1 <= x[2]
    BY <1>1
  <2>3. \A y \in names \X Nat : y = <<y[1], y[2]>> /\ y[1] \in names /\ y[2] \in Nat
    OBVIOUS
  <2> QED BY <2>1, <2>2, <2>3 DEF GhostsOf
<1> HIDE DEF h, x
<1>4. /\ IsFiniteSet(GhostsOf(names, h))
      /\ Cardinality(GhostsOf(names, h)) = Cardinality(GhostsOf(names, g)) + 1
  BY <1>2, <1>3, FS_AddElement
<1> QED BY <1>4 DEF h

LEMMA GhostLess ==
    ASSUME NEW names, NEW g \in [names -> Nat], NEW l \in names, IsFiniteSet(GhostsOf(names, g)),
           g[l] > 0
    PROVE  /\ IsFiniteSet(GhostsOf(names, [g EXCEPT ![l] = @ - 1]))
           /\ Cardinality(GhostsOf(names, [g EXCEPT ![l] = @ - 1])) = Cardinality(GhostsOf(names, g)) - 1
<1> DEFINE h == [g EXCEPT ![l] = @ - 1]
           x == <<l, g[l]>>
<1>1. g[l] \in Nat /\ h[l] = g[l] - 1 /\ \A k \in names \ {l} : h[k] = g[k]
  OBVIOUS
<1>2. x \in GhostsOf(names, g)
  BY <1>1 DEF GhostsOf
<1>3. GhostsOf(names, h) = GhostsOf(names, g) \ {x}
  <2> HIDE DEF h
  <2>1. ASSUME NEW k \in names, NEW n \in Nat
        PROVE  n <= h[k] <=> n <= g[k] /\ ~(k = l /\ n = g[l])
    <3>1. g[k] \in Nat /\ h[k] = IF k = l THEN g[l] - 1 ELSE g[k]
      BY <1>1
    <3> QED BY <3>1
  <2>2. x \in names \X Nat /\ 1 <= x[2]
    BY <1>1
  <2>3. \A y \in names \X Nat : y = <<y[1], y[2]>> /\ y[1] \in names /\ y[2] \in Nat
    OBVIOUS
  <2> QED BY <2>1, <2>2, <2>3 DEF GhostsOf
<1> HIDE DEF h, x
<1>4. /\ IsFiniteSet(GhostsOf(names, h))
      /\ Cardinality(GhostsOf(names, h)) = Cardinality(GhostsOf(names, g)) - 1
  BY <1>2, <1>3, FS_RemoveElement
<1> QED BY <1>4 DEF h

(* The ghosts of one loop are as many as it has. *)
LEMMA GhostCount ==
    ASSUME NEW l, NEW g \in [{l} -> Nat]
    PROVE  IsFiniteSet(GhostsOf({l}, g)) /\ Cardinality(GhostsOf({l}, g)) = g[l]
<1> DEFINE n == g[l]
           f == [i \in 1 .. n |-> <<l, i>>]
           S == GhostsOf({l}, g)
<1>1. n \in Nat
  OBVIOUS
<1>2. f \in Bijection(1 .. n, S)
  <2>1. \A i \in 1 .. n : <<l, i>> \in S
    BY <1>1 DEF GhostsOf
  <2>2. f \in [1 .. n -> S]
    BY <2>1
  <2>3. \A a, b \in 1 .. n : f[a] = f[b] => a = b
    OBVIOUS
  <2>4. \A x \in S : \E i \in 1 .. n : f[i] = x
    <3>1. ASSUME NEW x \in S PROVE x[2] \in 1 .. n /\ f[x[2]] = x
      <4>1. x = <<l, x[2]>> /\ x[2] \in Nat /\ 1 <= x[2] /\ x[2] <= n
        BY DEF GhostsOf
      <4> QED BY <1>1, <4>1
    <3> QED BY <3>1
  <2> HIDE DEF f, S, n
  <2> QED BY <2>2, <2>3, <2>4 DEF Bijection, Injection, Surjection, IsInjective
<1>3. IsFiniteSet(1 .. n) /\ Cardinality(1 .. n) = n
  BY <1>1, FS_Interval
<1>4. ExistsBijection(1 .. n, S)
  BY <1>2 DEF ExistsBijection
<1> HIDE DEF S, n
<1>5. IsFiniteSet(S) /\ Cardinality(S) = n
  BY <1>3, <1>4, FS_Bijection
<1> QED BY <1>5 DEF S, n

(* The list of plans is asked for alone; it goes on while it is open. *)
LEMMA PlansIs ==
    ASSUME PollTypes
    PROVE  /\ "plans" \in Followed => /\ Followed = {"plans"} /\ Loop["plans"].again = "always"
                                      /\ Loop["plans"].restarts
           /\ \A l \in Followed : Loop[l].restarts => l = "plans"
           /\ part # NoPart /\ Here.clears => \A l \in Followed : Loop[l].again \in {"always", "never"}
<1>1. /\ "plans" \in Followed => Followed = {"plans"}
      /\ part # NoPart /\ Here.clears => "updaterServer" \notin Followed
      /\ \A l \in Followed : LoopOK(l, Loop[l])
  BY PartIs DEF PollTypes
<1> QED BY <1>1 DEF LoopOK, LoopRecords

LEMMA DidIs == PollTypes => did.flying \in Nat
BY Happened DEF PollTypes

LEMMA ExtraIs ==
    ASSUME PollTypes, LoopInv
    PROVE  /\ Extra \in Nat /\ (~open => Extra = 0)
           /\ \A l \in Followed : stray[l] \in Nat /\ Chains(l) \in Nat
           /\ open /\ "plans" \in Followed => Extra >= stray["plans"] /\ Extra = Chains("plans") - 1
<1>1. \A l \in Followed : stray[l] \in Nat /\ Chains(l) \in Nat
  <2> TAKE l \in Followed
  <2>1. stray[l] \in Nat /\ Cardinality(Flying(l)) \in Nat
    BY CountsIn, HashOf
  <2> QED BY <2>1 DEF Chains
<1>2. open /\ "plans" \in Followed => Chains("plans") >= stray["plans"] + 1
  BY PlansIs DEF LoopInv
<1> QED BY <1>1, <1>2 DEF Extra

LEMMA GhostMount ==
    ASSUME PollTypes, LoopInv, GhostInv, NEW p \in Parts, onMounted(p)
    PROVE  GhostInv'
<1>1. part' = p /\ did' = did /\ timer' = {} /\ stray' = [l \in Followed' |-> 0]
      /\ Followed' = {p.loops[i] : i \in DOMAIN p.loops}
  BY MountIs
<1>2. LeftOnes' = LeftOnes /\ LeftOnes = DOMAIN wire /\ \A l \in Followed' : Cardinality(Flying(l))' = 1
  BY CountsMount
<1>3. Extra' = 0
  <2>1. "plans" \in Followed' => Chains("plans")' = 1
    BY <1>1, <1>2 DEF Chains
  <2> QED BY <2>1 DEF Extra
<1>4. Extra = 0
  BY DEF onMounted, Extra
<1>5. CASE part = NoPart
  <2>1. ghosts' = [l \in Followed' |-> 0]
    <3>1. DOMAIN choice' = Followed'
      BY <1>1 DEF onMounted, Provide
    <3> QED BY <1>5, <3>1 DEF onMounted
  <2>2. Ghosts' = {}
    BY <2>1 DEF Ghosts, GhostsOf
  <2>3. LeftOnes = {}
    <3>1. Followed = {}
      BY <1>5, PartIs DEF PollTypes
    <3>2. wire \in Seq(Polls({})) /\ Polls({}) = {}
      BY <3>1 DEF PollTypes, Polls
    <3>3. \A i \in DOMAIN wire : wire[i] \in {}
      BY <3>2, ElementOfSeq, LenProperties
    <3> QED BY <3>3 DEF LeftOnes
  <2>4. did.flying \in Nat
    BY DidIs
  <2>5. IsFiniteSet({}) /\ Cardinality({}) = 0
    BY FS_EmptySet
  <2> QED BY <1>1, <1>2, <1>3, <2>2, <2>3, <2>4, <2>5 DEF GhostInv
<1>6. CASE part # NoPart
  <2>1. part = p /\ ghosts' = ghosts
    BY <1>6 DEF onMounted
  <2>2. Followed' = Followed /\ Here' = Here
    BY <1>1, <2>1 DEF Followed, Here
  <2>3. Ghosts' = Ghosts
    BY <2>1, <2>2 DEF Ghosts
  <2> QED BY <1>1, <1>2, <1>3, <1>4, <1>6, <2>1, <2>2, <2>3 DEF GhostInv
<1> QED BY <1>5, <1>6

LEMMA GhostDeliver ==
    ASSUME PollTypes, LoopInv, GhostInv, Deliver
    PROVE  GhostInv'
<1> DEFINE m == wire[1]
           L == Cardinality(LeftOnes)
           G == Cardinality(Ghosts)
<1>1. /\ m.loop \in Followed /\ m.left \in BOOLEAN
      /\ UNCHANGED <<part, open, did>>
      /\ (m.left => ReceiveLate(m)) /\ (~m.left => Receive(m))
  BY HeadIs
<1>2. Followed' = Followed /\ Here' = Here /\ did.flying \in Nat
  <2>1. did.flying \in Nat
    BY DidIs
  <2> QED BY <1>1, <2>1 DEF Followed, Here
<1>3. L \in Nat /\ L' = IF m.left THEN L - 1 ELSE L
  BY CountsIn, CountsDeliver
<1>4. Extra \in Nat /\ Extra' = Extra
  <2>1. ASSUME open, "plans" \in Followed PROVE Chains("plans")' = Chains("plans")
    <3>1. m.loop = "plans" => Again(m)
      BY <2>1, PlansIs DEF Again
    <3> QED BY <2>1, <3>1, ChainsDeliver
  <2> QED BY <1>1, <1>2, <2>1, ExtraIs DEF Extra
<1>5. ASSUME part # NoPart, Here.clears
      PROVE  IsFiniteSet(Ghosts)' /\ (IF m.left THEN G' \in {G, G + 1} ELSE G' = G) /\ G \in Nat
  <2>1. IsFiniteSet(Ghosts) /\ G \in Nat
    BY <1>5, FS_CardinalityType DEF GhostInv
  <2>2. CASE ghosts' = ghosts
    <3>1. Ghosts' = Ghosts
      BY <1>2, <2>2 DEF Ghosts
    <3> QED BY <2>1, <3>1
  <2>3. CASE m.left /\ ghosts' = [ghosts EXCEPT ![m.loop] = @ + 1]
    <3>1. ghosts \in [Followed -> Nat]
      BY DEF PollTypes
    <3>2. /\ IsFiniteSet(GhostsOf(Followed, [ghosts EXCEPT ![m.loop] = @ + 1]))
          /\ Cardinality(GhostsOf(Followed, [ghosts EXCEPT ![m.loop] = @ + 1])) = G + 1
      BY <1>1, <2>1, <3>1, GhostMore DEF Ghosts
    <3>3. Ghosts' = GhostsOf(Followed, [ghosts EXCEPT ![m.loop] = @ + 1])
      BY <1>2, <2>3 DEF Ghosts
    <3> QED BY <2>1, <2>3, <3>2, <3>3
  <2> QED BY <1>1, <2>2, <2>3 DEF ReceiveLate, Receive
<1>6. ASSUME part # NoPart, Here.clears
      PROVE  IsFiniteSet(Ghosts)' /\ G' + L' + Extra' <= did'.flying
  <2>1. G + L + Extra <= did.flying
    BY <1>6 DEF GhostInv
  <2>2. IsFiniteSet(Ghosts)' /\ (IF m.left THEN G' \in {G, G + 1} ELSE G' = G) /\ G \in Nat
    BY <1>5, <1>6
  <2>3. did'.flying = did.flying
    BY <1>1
  <2> HIDE DEF G, L
  <2>4. G' + L' + Extra' <= did'.flying
    BY <1>2, <1>3, <1>4, <2>1, <2>2, <2>3
  <2> QED BY <2>2, <2>4
<1> QED BY <1>1, <1>2, <1>6 DEF GhostInv

(* Ghosts and requests as they were, and no more loops than happened. *)
LEMMA GhostRest ==
    ASSUME PollTypes, LoopInv, GhostInv, UNCHANGED <<part, ghosts>>, LeftOnes' = LeftOnes,
           Extra' \in Nat, did'.flying \in Nat,
           part # NoPart /\ Here.clears => Extra' - Extra <= did'.flying - did.flying
    PROVE  GhostInv'
<1>1. Followed' = Followed /\ Here' = Here /\ did.flying \in Nat /\ Extra \in Nat
  <2>1. did.flying \in Nat /\ Extra \in Nat
    BY DidIs, ExtraIs
  <2> QED BY <2>1 DEF Followed, Here
<1>2. Ghosts' = Ghosts
  BY <1>1 DEF Ghosts
<1>3. ASSUME part # NoPart, Here.clears
      PROVE  /\ IsFiniteSet(Ghosts)
             /\ Cardinality(Ghosts) + Cardinality(LeftOnes) + Extra' <= did'.flying
  <2>1. IsFiniteSet(Ghosts) /\ Cardinality(Ghosts) + Cardinality(LeftOnes) + Extra <= did.flying
    BY <1>3 DEF GhostInv
  <2>2. Cardinality(Ghosts) \in Nat /\ Cardinality(LeftOnes) \in Nat
    BY <2>1, CountsIn, FS_CardinalityType
  <2> QED BY <1>1, <1>3, <2>1, <2>2
<1> QED BY <1>1, <1>2, <1>3 DEF GhostInv

(* The facts above, of the next state. *)
Bounded == did.flying \in Nat /\ Extra \in Nat

LEMMA BoundedIs == PollTypes /\ LoopInv => Bounded
BY DidIs, ExtraIs DEF Bounded

LEMMA NextIs == PollTypes' /\ LoopInv' => Bounded'
BY BoundedIs, PTL

LEMMA GhostSend ==
    ASSUME PollTypes, LoopInv, GhostInv, PollTypes', LoopInv', NEW l \in Followed,
           Fire(l) \/ GhostPoll(l) \/ remove(l)
    PROVE  GhostInv'
<1> DEFINE F == Cardinality(Flying(l))
           L == Cardinality(LeftOnes)
           G == Cardinality(Ghosts)
<1>1. UNCHANGED <<part, open>> /\ Followed' = Followed /\ Here' = Here
  BY DEF Fire, GhostPoll, remove, Followed, Here
<1>2. F \in Nat /\ L \in Nat /\ Extra \in Nat /\ Extra' \in Nat /\ did.flying \in Nat
      /\ did'.flying \in Nat /\ did \in [changes : Nat, events : Nat, flying : Nat]
      /\ stray \in [Followed -> Nat]
  <2>1. Extra' \in Nat /\ did'.flying \in Nat
    BY NextIs DEF Bounded
  <2> QED BY <2>1, CountsIn, ExtraIs, DidIs DEF PollTypes
<1>3. CASE GhostPoll(l)
  <2>1. UNCHANGED <<timer, stray, did>> /\ ghosts[l] > 0 /\ ghosts' = [ghosts EXCEPT ![l] = @ - 1]
    BY <1>3 DEF GhostPoll
  <2>2. L' = L + 1 /\ \A k : Cardinality(Flying(k))' = Cardinality(Flying(k))
    BY <1>3, CountsSend
  <2>3. Extra' = Extra
    <3>1. Chains("plans")' = Chains("plans")
      BY <2>1, <2>2 DEF Chains
    <3> QED BY <1>1, <3>1 DEF Extra
  <2>4. ASSUME part # NoPart, Here.clears PROVE IsFiniteSet(Ghosts)' /\ G' = G - 1 /\ G \in Nat
    <3>1. IsFiniteSet(Ghosts) /\ ghosts \in [Followed -> Nat]
      BY <2>4 DEF GhostInv, PollTypes
    <3>2. /\ IsFiniteSet(GhostsOf(Followed, [ghosts EXCEPT ![l] = @ - 1]))
          /\ Cardinality(GhostsOf(Followed, [ghosts EXCEPT ![l] = @ - 1])) = G - 1
      BY <2>1, <3>1, GhostLess DEF Ghosts
    <3>3. Ghosts' = GhostsOf(Followed, [ghosts EXCEPT ![l] = @ - 1])
      BY <1>1, <2>1 DEF Ghosts
    <3> QED BY <3>1, <3>2, <3>3, FS_CardinalityType
  <2>5. ASSUME part # NoPart, Here.clears
        PROVE  IsFiniteSet(Ghosts)' /\ G' + L' + Extra' <= did'.flying
    <3>1. G + L + Extra <= did.flying
      BY <2>5 DEF GhostInv
    <3>2. IsFiniteSet(Ghosts)' /\ G' = G - 1 /\ G \in Nat
      BY <2>4, <2>5
    <3> HIDE DEF G, L
    <3> QED BY <1>2, <2>1, <2>2, <2>3, <3>1, <3>2
  <2> QED BY <1>1, <2>5 DEF GhostInv
<1>4. CASE Fire(l) \/ remove(l)
  <2>1. ghosts' = ghosts
    BY <1>4 DEF Fire, remove
  <2>2. /\ L' = L /\ LeftOnes' = LeftOnes
        /\ \A k : Cardinality(Flying(k))' = IF k = l THEN Cardinality(Flying(k)) + 1
                                            ELSE Cardinality(Flying(k))
    <3>1. LeftOnes' = LeftOnes
      <4>1. UNCHANGED <<hash, choice>> /\ wire' = Append(wire, Request(l))
        BY <1>4 DEF Fire, remove
      <4>2. Request(l) \in Polls(Followed) /\ Request(l).left = FALSE
        BY <4>1, HashOf, RequestIs
      <4>3. /\ Len(wire) \in Nat /\ DOMAIN wire = 1 .. Len(wire)
            /\ DOMAIN wire' = 1 .. (Len(wire) + 1) /\ wire'[Len(wire) + 1] = Request(l)
            /\ \A i \in DOMAIN wire : wire'[i] = wire[i]
        <5>1. wire \in Seq(Polls(Followed))
          BY DEF PollTypes
        <5> QED BY <4>1, <4>2, <5>1, SendCounts
      <4> QED BY <4>2, <4>3 DEF LeftOnes
    <3> QED BY <1>4, <3>1, CountsSend
  <2>3. l \notin timer'
    BY <1>4 DEF Fire, remove
  <2>4. Extra' - Extra <= did'.flying - did.flying
    <3>1. CASE l # "plans" \/ "plans" \notin Followed \/ ~open
      <4>1. "plans" \notin Followed \/ ~open
        BY <3>1, PlansIs
      <4>2. Extra' = 0 /\ Extra = 0
        BY <1>1, <4>1 DEF Extra
      <4>3. did'.flying >= did.flying
        <5>1. did' = did \/ did' = [did EXCEPT !.events = @ + 1, !.flying = @ + F]
          BY <1>4 DEF Fire, remove
        <5>2. [did EXCEPT !.events = @ + 1, !.flying = @ + F].flying = did.flying + F
          BY <1>2, Happened
        <5>3. did'.flying = did.flying \/ did'.flying = did.flying + F
          BY <5>1, <5>2
        <5> HIDE DEF F
        <5> QED BY <1>2, <5>3
      <4> QED BY <1>2, <4>2, <4>3
    <3>2. CASE l = "plans" /\ open
      <4>1. Extra = Chains(l) - 1 /\ Extra' = Chains(l)' - 1
        BY <1>1, <3>2 DEF Extra
      <4>2. Chains(l) = (IF l \in timer THEN 1 ELSE 0) + stray[l] + F
        BY DEF Chains
      <4>3. Chains(l)' = 0 + stray'[l] + (F + 1)
        BY <2>2, <2>3 DEF Chains
      <4>4. Chains(l) >= stray[l] + 1 /\ stray[l] \in Nat
        BY <3>2, PlansIs, <1>2 DEF LoopInv
      <4>5. CASE Fire(l)
        <5>1. did' = did /\ \/ l \in timer /\ stray'[l] = stray[l]
                            \/ stray[l] > 0 /\ stray'[l] = stray[l] - 1
          BY <1>2, <4>5 DEF Fire
        <5> HIDE DEF F
        <5> QED BY <1>2, <4>1, <4>2, <4>3, <4>4, <5>1
      <4>6. CASE remove(l)
        <5>1. did' = [did EXCEPT !.events = @ + 1, !.flying = @ + F] /\ stray' = stray
          BY <4>6 DEF remove
        <5>2. did'.flying = did.flying + F
          BY <1>2, <5>1, Happened
        <5> HIDE DEF F
        <5> QED BY <1>2, <4>1, <4>2, <4>3, <4>4, <5>1, <5>2
      <4> QED BY <1>4, <4>5, <4>6
    <3> QED BY <3>1, <3>2
  <2> QED BY <1>1, <1>2, <2>1, <2>2, <2>4, GhostRest
<1> QED BY <1>3, <1>4

LEMMA GhostLeave ==
    ASSUME PollTypes, LoopInv, GhostInv, PollTypes', LoopInv', NEW C, Leave(C),
           Here.clears => C = Followed
    PROVE  GhostInv'
<1> DEFINE L == Cardinality(LeftOnes)
           G == Cardinality(Ghosts)
           U == Cardinality(UNION {Flying(l) : l \in Followed})
<1>1. /\ open /\ open' = FALSE /\ part' = part /\ Followed' = Followed /\ Here' = Here
      /\ did' = [did EXCEPT !.events = @ + 1, !.flying = @ + U]
      /\ ghosts' = [l \in Followed |->
                        ghosts[l] + stray[l] + (IF l \in timer \ C THEN 1 ELSE 0)]
  BY LeaveIs DEF Leave, Here
<1>2. L' = L + U /\ U \in Nat /\ L \in Nat
  BY CountsLeave, CountsIn
<1>3. did'.flying = did.flying + U /\ did.flying \in Nat
  BY <1>1, <1>2, Happened DEF PollTypes
<1>4. Extra' = 0 /\ Extra \in Nat
  BY <1>1, ExtraIs DEF Extra
<1>5. ghosts \in [Followed -> Nat] /\ stray \in [Followed -> Nat]
  BY DEF PollTypes
<1>6. ASSUME part # NoPart, Here.clears
      PROVE  IsFiniteSet(Ghosts)' /\ G' \in Nat /\ G \in Nat /\ G' <= G + Extra
  <2>1. IsFiniteSet(Ghosts) /\ G \in Nat
    BY <1>6, FS_CardinalityType DEF GhostInv
  <2>2. ghosts' = [l \in Followed |-> ghosts[l] + stray[l]]
    <3>1. \A l \in Followed : ghosts[l] + stray[l] + (IF l \in timer \ C THEN 1 ELSE 0)
                                 = ghosts[l] + stray[l]
      BY <1>5, <1>6
    <3> QED BY <1>1, <3>1
  <2>3. CASE "plans" \in Followed
    <3>1. Followed = {"plans"} /\ Extra >= stray["plans"] /\ stray["plans"] \in Nat
      BY <1>1, <2>3, PlansIs, ExtraIs
    <3>2. ghosts \in [{"plans"} -> Nat] /\ ghosts' \in [{"plans"} -> Nat]
          /\ ghosts'["plans"] = ghosts["plans"] + stray["plans"]
      BY <1>5, <2>2, <3>1
    <3>3. G = ghosts["plans"]
      BY <3>1, <3>2, GhostCount DEF Ghosts
    <3>4. IsFiniteSet(GhostsOf({"plans"}, ghosts'))
          /\ Cardinality(GhostsOf({"plans"}, ghosts')) = ghosts'["plans"]
      BY <3>2, GhostCount
    <3>5. Ghosts' = GhostsOf({"plans"}, ghosts')
      BY <1>1, <3>1 DEF Ghosts
    <3>6. ghosts["plans"] \in Nat
      BY <3>2
    <3> HIDE DEF G
    <3>7. IsFiniteSet(Ghosts)' /\ Cardinality(Ghosts)' = G + stray["plans"]
      BY <3>2, <3>3, <3>4, <3>5
    <3> QED BY <1>4, <2>1, <3>1, <3>7 DEF G
  <2>4. CASE "plans" \notin Followed
    <3>1. \A l \in Followed : stray[l] = 0
      <4> TAKE l \in Followed
      <4>2. Loop[l].again \in {"always", "never"} /\ ~Loop[l].restarts
        BY <1>6, <2>4, PlansIs
      <4>3. stray[l] \in Nat
        BY <1>5
      <4>4. Loop[l].again = "always" => Chains(l) >= stray[l] + 1 /\ Chains(l) = 1
        BY <1>1, <4>2 DEF LoopInv
      <4> QED BY <4>2, <4>3, <4>4 DEF LoopInv
    <3>2. ghosts' = ghosts
      BY <1>5, <2>2, <3>1
    <3>3. Ghosts' = Ghosts
      BY <1>1, <3>2 DEF Ghosts
    <3> QED BY <1>4, <2>1, <3>3
  <2> QED BY <2>3, <2>4
<1>7. ASSUME part # NoPart, Here.clears
      PROVE  IsFiniteSet(Ghosts)' /\ G' + L' + Extra' <= did'.flying
  <2>1. G + L + Extra <= did.flying
    BY <1>7 DEF GhostInv
  <2>2. IsFiniteSet(Ghosts)' /\ G' \in Nat /\ G \in Nat /\ G' <= G + Extra
    BY <1>6, <1>7
  <2> HIDE DEF G, L, U
  <2> QED BY <1>2, <1>3, <1>4, <2>1, <2>2
<1> QED BY <1>1, <1>7 DEF GhostInv

LEMMA GhostStep ==
    PollTypes /\ LoopInv /\ GhostInv /\ PollTypes' /\ LoopInv' /\ [PollsNext]_pollVars => GhostInv'
<1> SUFFICES ASSUME PollTypes, LoopInv, GhostInv, PollTypes', LoopInv', [PollsNext]_pollVars
             PROVE  GhostInv'
  OBVIOUS
<1>1. Extra' \in Nat /\ did'.flying \in Nat /\ Extra \in Nat /\ did.flying \in Nat
  BY NextIs, BoundedIs DEF Bounded
\* Neither a loop of the plans nor a request comes or goes.
<1>2. ASSUME UNCHANGED <<part, open, timer, ghosts>>, LeftOnes' = LeftOnes,
             \A l : Flying(l)' = Flying(l), did'.flying = did.flying,
             "plans" \in Followed => stray'["plans"] = stray["plans"]
      PROVE  GhostInv'
  <2>1. "plans" \in Followed => Chains("plans")' = Chains("plans")
    BY <1>2 DEF Chains
  <2>2. Followed' = Followed
    BY <1>2 DEF Followed
  <2>3. Extra' = Extra
    BY <1>2, <2>1, <2>2 DEF Extra
  <2> QED BY <1>1, <1>2, <2>3, GhostRest
<1>3. CASE Serve
  <2>1. LeftOnes' = LeftOnes /\ \A l : Flying(l)' = Flying(l)
    BY <1>3, CountsSame
  <2>2. UNCHANGED <<part, open, timer, stray, ghosts>> /\ did'.flying = did.flying
    BY <1>3, PollTypesServe
  <2> QED BY <1>2, <2>1, <2>2
<1>4. ASSUME NEW l \in Followed,
             updateRealTime \/ handleTuntap(l) \/ handleUpdate(l)
                \/ \E field \in {"page", "order", "key"} : Choose(l, field)
      PROVE  GhostInv'
  <2>1. UNCHANGED <<part, open, wire, timer, ghosts>>
    BY <1>4 DEF updateRealTime, handleTuntap, handleUpdate, Choose
  <2>2. LeftOnes' = LeftOnes /\ \A k : Flying(k)' = Flying(k)
    BY <2>1, CountsSame
  <2>3. "plans" \in Followed => stray'["plans"] = stray["plans"]
    <3>1. stray \in [Followed -> Nat]
      BY DEF PollTypes
    <3>2. stray' = stray \/ (stray' = [stray EXCEPT ![l] = @ + 1] /\ Loop[l].again = "busy")
      BY <1>4 DEF updateRealTime, handleTuntap, handleUpdate, Choose
    <3>3. "plans" \in Followed => Loop["plans"].again # "busy"
      BY PlansIs
    <3> QED BY <3>1, <3>2, <3>3
  <2>4. did'.flying = did.flying
    <3>1. did' = [did EXCEPT !.events = @ + 1]
      BY <1>4 DEF updateRealTime, handleTuntap, handleUpdate, Choose, Choosing
    <3>2. did \in [changes : Nat, events : Nat, flying : Nat]
      BY DEF PollTypes
    <3> QED BY <3>1, <3>2, Happened
  <2> QED BY <1>2, <2>1, <2>2, <2>3, <2>4
<1>5. ASSUME NEW l \in Followed, Change(l) PROVE GhostInv'
  <2>1. UNCHANGED <<part, open, wire, timer, stray, ghosts>> /\ did'.flying = did.flying
    BY <1>5, ChangeIs
  <2> QED BY <1>2, <2>1, CountsSame
<1>6. CASE UNCHANGED pollVars
  <2>1. UNCHANGED <<part, open, wire, timer, stray, ghosts, did>>
    BY <1>6 DEF pollVars
  <2> QED BY <1>2, <2>1, CountsSame
<1> QED BY <1>3, <1>4, <1>5, <1>6, PollActions, GhostMount, GhostDeliver, GhostSend, GhostLeave

-------------------------------------------------------------------------------
(* The invariant *)

LEMMA PollStarts == PollsInit => PollInv
<1> SUFFICES ASSUME PollsInit PROVE PollInv
  OBVIOUS
<1>1. PollTypes
  BY PollTypesStart
<1>2. /\ Followed = {} /\ part = NoPart /\ wire = <<>> /\ timer = {} /\ DOMAIN wire = {}
  BY DEF PollsInit, Followed, NoPart
<1>3. LeftOnes = DOMAIN wire
  BY <1>2 DEF LeftOnes
<1> QED BY <1>1, <1>2, <1>3 DEF PollInv, InOrder, HashInv, LoopInv, GhostInv

LEMMA PollStep == PollInv /\ [PollsNext]_pollVars => PollInv'
<1> SUFFICES ASSUME PollInv, [PollsNext]_pollVars PROVE PollInv'
  OBVIOUS
<1>1. PollTypes' /\ InOrder' /\ HashInv' /\ LoopInv'
  BY PollTypesStep, InOrderStep, HashStep, LoopStep DEF PollInv
<1>2. GhostInv'
  BY <1>1, GhostStep DEF PollInv
<1> QED BY <1>1, <1>2 DEF PollInv

LEMMA PollShows == PollInv => PollsTypeOK /\ ChainsKept /\ HashTellsView
<1> SUFFICES ASSUME PollInv PROVE PollsTypeOK /\ ChainsKept /\ HashTellsView
  OBVIOUS
<1>0. PollTypes /\ HashInv /\ LoopInv /\ GhostInv
  BY DEF PollInv
<1>1. PollsTypeOK
  <2>1. \A i \in DOMAIN wire : wire[i].loop \in Followed /\ wire[i].left \in BOOLEAN
    <3>1. \A i \in DOMAIN wire : wire[i] \in Polls(Followed)
      BY <1>0, ElementOfSeq, LenProperties DEF PollTypes
    <3> QED BY <3>1 DEF Polls
  <2>2. \A l \in Followed : /\ view[l].n \in Nat /\ source[l].n \in Nat
                            /\ choice[l] \in [{"page", "order", "key"} -> {1, 2}]
    BY <1>0, HashOf DEF Pages
  <2> QED BY <1>0, <2>1, <2>2 DEF PollTypes, PollsTypeOK
<1>2. HashTellsView
  <2>1. ASSUME NEW l \in Followed, Owned(l), hash[Loop[l].hash] = source[l].n
        PROVE  view[l].n = source[l].n
    <3>1. /\ view[l].n <= source[l].n /\ hash[Loop[l].hash] \in {0, view[l].n}
          /\ view[l].n \in Nat /\ source[l].n \in Nat
      BY <1>0, <2>1, HashOf DEF HashInv, HashIsShown
    <3> QED BY <2>1, <3>1
  <2> QED BY <2>1 DEF HashTellsView, Owned
<1>3. ASSUME open, NEW l \in Followed, Loop[l].again = "always"
      PROVE  IF Loop[l].restarts THEN Chains(l) >= 1 ELSE Chains(l) = 1
  <2>1. Chains(l) >= stray[l] + 1 /\ (Loop[l].restarts \/ Chains(l) = 1)
        /\ stray[l] \in Nat /\ Chains(l) \in Nat
    BY <1>0, <1>3, ExtraIs DEF LoopInv
  <2> QED BY <2>1
<1>4. ASSUME part # NoPart, Here.clears PROVE GhostChains <= did.flying
  <2> DEFINE Some == {g \in Followed \X (1 .. 9) : g[2] <= ghosts[g[1]]}
  <2>1. IsFiniteSet(Ghosts) /\ Cardinality(Ghosts) + Cardinality(LeftOnes) + Extra <= did.flying
    BY <1>0, <1>4 DEF GhostInv
  <2>2. Some \subseteq Ghosts
    BY DEF Ghosts, GhostsOf
  <2>3. Cardinality(Some) <= Cardinality(Ghosts) /\ Cardinality(Some) \in Nat
        /\ Cardinality(Ghosts) \in Nat
    <3> HIDE DEF Some
    <3> QED BY <2>1, <2>2, FS_Subset, FS_CardinalityType
  <2>4. GhostChains = Cardinality(LeftOnes) + Cardinality(Some)
    BY DEF GhostChains, LeftOnes
  <2>5. Extra \in Nat /\ did.flying \in Nat /\ Cardinality(LeftOnes) \in Nat
    BY <1>0, BoundedIs, CountsIn DEF Bounded
  <2> HIDE DEF Some
  <2> QED BY <2>1, <2>3, <2>4, <2>5
<1>5. ChainsKept
  BY <1>3, <1>4 DEF ChainsKept
<1> QED BY <1>1, <1>2, <1>5

LEMMA PollHolds == PollsInit /\ [][PollsNext]_pollVars => []PollInv
<1>1. PollsInit => PollInv
  BY PollStarts
<1>2. PollInv /\ [PollsNext]_pollVars => PollInv'
  BY PollStep
<1> QED BY <1>1, <1>2, PTL

(* The variables of the polled views keep their types. *)
THEOREM PollsTypeCorrect == PollsSpec => []PollsTypeOK
<1>1. PollInv => PollsTypeOK
  BY PollShows
<1> QED BY <1>1, PollHolds, PTL DEF PollsSpec

(* Whatever is followed, and however often it fails, is opened, left or
   restarted: a loop that is to go on neither ends nor doubles, and what goes on
   after its component was left (the timers that onUnmounted clears are not
   all there is) is no more than the requests that were under way. *)
THEOREM LoopsGoOn == PollsSpec => []ChainsKept
<1>1. PollInv => ChainsKept
  BY PollShows
<1> QED BY <1>1, PollHolds, PTL DEF PollsSpec

(* A hashcode that the server would answer with "nothing changed" is the one of
   what is shown: a list is never left stale by its own hashcode. *)
THEOREM HashcodesTell == PollsSpec => []HashTellsView
<1>1. PollInv => HashTellsView
  BY PollShows
<1> QED BY <1>1, PollHolds, PTL DEF PollsSpec

-------------------------------------------------------------------------------
(* Lists that are loaded on demand *)

Queries == [Fields -> {1, 2}]
Changes == [inPlace : BOOLEAN, reloads : BOOLEAN, drops : BOOLEAN, waits : BOOLEAN]
Replies == {NoReply, [code |-> "error"]} \union [code : {"ok"}, edits : Nat]

(* What is sent: an edit that is not shown at once has the rows loaded again. *)
Sends ==
    {m \in [kind : {"load", "edit", "order"}, of : Queries, change : Changes, answer : Replies] :
        /\ m.kind = "edit" => m.change.inPlace \/ m.change.reloads
        /\ m.kind # "edit" => m.change = Reloading}

IsLoad(m) == m.kind \in {"load", "order"}

(* The request whose rows will be shown, if nothing else is asked for. *)
LastAsked(q, i) == q[i].kind = "load" /\ \A j \in DOMAIN q : j > i => ~IsLoad(q[j])

(* It asks for what the controls show, as far as its answer leaves them alone,
   and for what the user chose last. *)
AsksFor(q, controls, choice1, excused) ==
    \A i \in DOMAIN q : LastAsked(q, i) =>
        /\ \A f \in Fields \ Listed.echoes : q[i].of[f] = controls[f]
        /\ excused \/ q[i].of = choice1

(* If nothing is asked for, the rows are of what the controls show. *)
RowsAreOf(q, shown1, controls, choice1, excused) ==
    (\A i \in DOMAIN q : ~IsLoad(q[i])) /\ ~shown1.failed =>
        shown1.of = controls /\ (excused \/ controls = choice1)

(* An answer that does not know of all edits is followed by an edit. *)
KnowsEdits(q, n) ==
    \A i \in DOMAIN q : q[i].answer.code = "ok" =>
        q[i].answer.edits = n \/ \E j \in DOMAIN q : j > i /\ q[j].kind = "edit"

(* The first h requests are answered. *)
Answered1st(q, h) == \A i \in DOMAIN q : q[i].answer # NoReply <=> i <= h

(* There is nothing under way but edits that are shown at once. *)
OnlyEdits(q) ==
    \A i \in DOMAIN q : q[i].kind = "edit" /\ ~q[i].change.reloads /\ q[i].answer.code # "error"

(* Then the rows are ahead of the machine by the edits it has not made yet. *)
CountsEdits(q, shown1, n) ==
    \E h \in 0 .. Len(q) :
        /\ Answered1st(q, h)
        /\ OnlyEdits(q) /\ ~shown1.failed /\ ~shown1.stale => shown1.edits = n + (Len(q) - h)

SearchTypes ==
    /\ list \in Lists \union {NoList} /\ loading \in BOOLEAN /\ lost \in BOOLEAN
    /\ query \in Queries /\ wanted \in Queries /\ edits \in Nat
    /\ rows \in [of : Queries, edits : Nat, stale : BOOLEAN, failed : BOOLEAN]
    /\ sent \in Seq(Sends)

ListedInv ==
    /\ \A f \in Fields \ Listed.echoes : query[f] = wanted[f]
    /\ AsksFor(sent, query, wanted, lost)
    /\ RowsAreOf(sent, rows, query, wanted, lost)
    /\ KnowsEdits(sent, edits)
    /\ CountsEdits(sent, rows, edits)

NothingListed ==
    /\ list = NoList /\ query = FirstQuery /\ wanted = FirstQuery /\ rows = NoRows
    /\ sent = <<>> /\ edits = 0 /\ ~loading

SearchInv ==
    /\ SearchTypes
    /\ loading => sent # <<>>
    /\ NothingListed \/ (list # NoList /\ ListedInv)

-------------------------------------------------------------------------------
(* The lists *)

TableOK(t) ==
    /\ t.asks \subseteq Fields /\ t.echoes \subseteq Fields /\ t.loads \in {1, 2}
    /\ t.spins \in BOOLEAN /\ t.orders \in BOOLEAN
    /\ t.orders => t.echoes = Fields
    /\ \A c \in t.changes : c \in Changes /\ (c.inPlace \/ c.reloads)

LEMMA TablesAre == \A l \in DOMAIN Tables : TableOK(Tables[l]) /\ l # NoList
<1>1. /\ Reloading \in Changes /\ Reloading.reloads /\ clearData \in Changes /\ clearData.reloads
      /\ Dropping \in Changes /\ Dropping.reloads
      /\ handleDsiabled \in Changes /\ handleDsiabled.inPlace
      /\ handleSetState \in Changes /\ handleSetState.inPlace
  BY DEF Reloading, clearData, Dropping, handleDsiabled, handleSetState, InPlace, Changes
<1> USE <1>1 DEF TableOK, Fields, NoList, Table
<1>2. TableOK(Logger)
  BY DEF Logger
<1>3. TableOK(Firewall)
  BY DEF Firewall, _checkFirewall, FirewallDel
<1>4. TableOK(Wakeup) /\ TableOK(WlistManager)
  BY DEF Wakeup, WlistManager
<1>5. TableOK(CdkeyManager) /\ TableOK(CdkeyMy)
  BY DEF CdkeyManager, CdkeyMy, Flags
<1>6. TableOK(Devices)
  BY DEF Devices
<1> HIDE DEF TableOK
<1> QED BY <1>2, <1>3, <1>4, <1>5, <1>6 DEF Tables

LEMMA ListedIs ==
    ASSUME list \in Lists \union {NoList}, list # NoList
    PROVE  TableOK(Listed)
<1>1. list \in DOMAIN Tables
  BY WebSearchAssumption DEF WebSearchAssumption
<1> QED BY <1>1, TablesAre DEF Listed

-------------------------------------------------------------------------------
(* Queues *)

LEMMA QueueTail ==
    ASSUME NEW q \in Seq(Sends), q # <<>>
    PROVE  /\ Tail(q) \in Seq(Sends) /\ Head(q) = q[1] /\ q[1] \in Sends
           /\ Len(q) \in Nat /\ Len(q) >= 1 /\ Len(Tail(q)) = Len(q) - 1
           /\ DOMAIN q = 1 .. Len(q) /\ DOMAIN Tail(q) = 1 .. (Len(q) - 1)
           /\ \A i \in DOMAIN Tail(q) : i + 1 \in DOMAIN q /\ Tail(q)[i] = q[i + 1]
<1>1. /\ Tail(q) \in Seq(Sends) /\ Head(q) = q[1] /\ Len(Tail(q)) = Len(q) - 1
      /\ \A i \in 1 .. Len(Tail(q)) : Tail(q)[i] = q[i + 1]
      /\ Len(q) \in Nat /\ Len(q) >= 1
  BY HeadTailProperties, LenProperties, EmptySeq
<1>2. DOMAIN q = 1 .. Len(q) /\ DOMAIN Tail(q) = 1 .. (Len(q) - 1)
  BY <1>1, LenProperties
<1>3. q[1] \in Sends
  BY <1>1, ElementOfSeq
<1> QED BY <1>1, <1>2, <1>3

LEMMA QueueMore ==
    ASSUME NEW q \in Seq(Sends), NEW m \in Sends
    PROVE  /\ Append(q, m) \in Seq(Sends) /\ Len(q) \in Nat /\ Append(q, m) # <<>>
           /\ DOMAIN q = 1 .. Len(q) /\ DOMAIN Append(q, m) = 1 .. (Len(q) + 1)
           /\ Len(Append(q, m)) = Len(q) + 1
           /\ \A i \in DOMAIN q : Append(q, m)[i] = q[i]
           /\ Append(q, m)[Len(q) + 1] = m
<1>1. /\ Append(q, m) \in Seq(Sends) /\ Len(Append(q, m)) = Len(q) + 1 /\ Len(q) \in Nat
      /\ \A i \in 1 .. Len(q) : Append(q, m)[i] = q[i]
      /\ Append(q, m)[Len(q) + 1] = m
  BY AppendProperties, LenProperties
<1>2. DOMAIN q = 1 .. Len(q) /\ DOMAIN Append(q, m) = 1 .. (Len(q) + 1)
  BY <1>1, LenProperties
<1> QED BY <1>1, <1>2, EmptySeq

(* Rests of a queue. *)
LEMMA TailAsksFor ==
    ASSUME NEW q \in Seq(Sends), q # <<>>, NEW c, NEW w, NEW x, AsksFor(q, c, w, x)
    PROVE  AsksFor(Tail(q), c, w, x)
<1> SUFFICES ASSUME NEW i \in DOMAIN Tail(q), LastAsked(Tail(q), i)
             PROVE  /\ \A f \in Fields \ Listed.echoes : Tail(q)[i].of[f] = c[f]
                    /\ x \/ Tail(q)[i].of = w
  BY DEF AsksFor
<1>1. i + 1 \in DOMAIN q /\ Tail(q)[i] = q[i + 1]
  BY QueueTail
<1>2. ASSUME NEW j \in DOMAIN q, j > i + 1 PROVE ~IsLoad(q[j])
  <2>1. j - 1 \in DOMAIN Tail(q) /\ j - 1 > i /\ Tail(q)[j - 1] = q[j]
    BY <1>2, QueueTail
  <2> QED BY <2>1 DEF LastAsked
<1>3. LastAsked(q, i + 1)
  BY <1>1, <1>2 DEF LastAsked
<1> QED BY <1>1, <1>3 DEF AsksFor

LEMMA TailKnowsEdits ==
    ASSUME NEW q \in Seq(Sends), q # <<>>, NEW n, KnowsEdits(q, n)
    PROVE  KnowsEdits(Tail(q), n)
<1> SUFFICES ASSUME NEW i \in DOMAIN Tail(q), Tail(q)[i].answer.code = "ok",
                    Tail(q)[i].answer.edits # n
             PROVE  \E j \in DOMAIN Tail(q) : j > i /\ Tail(q)[j].kind = "edit"
  BY DEF KnowsEdits
<1>1. i + 1 \in DOMAIN q /\ Tail(q)[i] = q[i + 1]
  BY QueueTail
<1>2. PICK j \in DOMAIN q : j > i + 1 /\ q[j].kind = "edit"
  BY <1>1 DEF KnowsEdits
<1>3. j - 1 \in DOMAIN Tail(q) /\ j - 1 > i /\ Tail(q)[j - 1] = q[j]
  BY <1>2, QueueTail
<1> QED BY <1>2, <1>3

(* One more request. *)
LEMMA MoreAsksFor ==
    ASSUME NEW q \in Seq(Sends), NEW m \in Sends, NEW c, NEW w, NEW x,
           m.kind = "edit" => AsksFor(q, c, w, x),
           m.kind = "load" => /\ \A f \in Fields \ Listed.echoes : m.of[f] = c[f]
                              /\ x \/ m.of = w
    PROVE  AsksFor(Append(q, m), c, w, x)
<1> DEFINE a == Append(q, m)
<1> SUFFICES ASSUME NEW i \in DOMAIN a, LastAsked(a, i)
             PROVE  (\A f \in Fields \ Listed.echoes : a[i].of[f] = c[f]) /\ (x \/ a[i].of = w)
  BY DEF AsksFor
<1>1. /\ Len(q) \in Nat /\ DOMAIN q = 1 .. Len(q) /\ DOMAIN a = 1 .. (Len(q) + 1)
      /\ (\A j \in DOMAIN q : a[j] = q[j]) /\ a[Len(q) + 1] = m
  BY QueueMore
<1> HIDE DEF a
<1>2. CASE i = Len(q) + 1
  BY <1>1, <1>2 DEF LastAsked
<1>3. CASE i # Len(q) + 1
  <2>1. i \in DOMAIN q /\ a[i] = q[i]
    BY <1>1, <1>3
  <2>2. ~IsLoad(m)
    BY <1>1, <1>3 DEF LastAsked
  <2>3. m.kind = "edit"
    BY <2>2 DEF IsLoad, Sends
  <2>4. LastAsked(q, i)
    BY <1>1, <2>1 DEF LastAsked
  <2> QED BY <2>1, <2>3, <2>4 DEF AsksFor
<1> QED BY <1>2, <1>3

LEMMA MoreKnowsEdits ==
    ASSUME NEW q \in Seq(Sends), NEW m \in Sends, m.answer = NoReply, NEW n, KnowsEdits(q, n)
    PROVE  KnowsEdits(Append(q, m), n)
<1> DEFINE a == Append(q, m)
<1>1. /\ Len(q) \in Nat /\ DOMAIN q = 1 .. Len(q) /\ DOMAIN a = 1 .. (Len(q) + 1)
      /\ (\A j \in DOMAIN q : a[j] = q[j]) /\ a[Len(q) + 1] = m
  BY QueueMore
<1> HIDE DEF a
<1>2. m.answer.code # "ok"
  BY DEF NoReply
<1>3. ASSUME NEW i \in DOMAIN a, a[i].answer.code = "ok"
      PROVE  a[i].answer.edits = n \/ \E j \in DOMAIN a : j > i /\ a[j].kind = "edit"
  <2>1. i \in DOMAIN q /\ a[i] = q[i]
    BY <1>1, <1>2, <1>3
  <2>2. q[i].answer.edits = n \/ \E j \in DOMAIN q : j > i /\ q[j].kind = "edit"
    BY <1>3, <2>1 DEF KnowsEdits
  <2> QED BY <1>1, <2>1, <2>2
<1> QED BY <1>3 DEF KnowsEdits, a

LEMMA MoreAnswered ==
    ASSUME NEW q \in Seq(Sends), NEW m \in Sends, m.answer = NoReply,
           NEW h \in 0 .. Len(q), Answered1st(q, h)
    PROVE  h \in 0 .. Len(Append(q, m)) /\ Answered1st(Append(q, m), h)
<1> DEFINE a == Append(q, m)
<1>1. /\ Len(q) \in Nat /\ DOMAIN q = 1 .. Len(q) /\ DOMAIN a = 1 .. (Len(q) + 1)
      /\ (\A j \in DOMAIN q : a[j] = q[j]) /\ a[Len(q) + 1] = m /\ Len(a) = Len(q) + 1
  BY QueueMore
<1> HIDE DEF a
<1>2. Answered1st(a, h)
  BY <1>1 DEF Answered1st
<1> QED BY <1>1, <1>2 DEF a

(* A load that is sent answers for everything before. *)
LEMMA MoreCounts ==
    ASSUME NEW q \in Seq(Sends), NEW m \in Sends, m.answer = NoReply, m.kind # "edit" \/ m.change.reloads,
           NEW s, NEW t, NEW n, CountsEdits(q, s, n)
    PROVE  CountsEdits(Append(q, m), t, n)
<1>1. PICK h \in 0 .. Len(q) : Answered1st(q, h)
  BY DEF CountsEdits
<1>2. h \in 0 .. Len(Append(q, m)) /\ Answered1st(Append(q, m), h)
  BY <1>1, MoreAnswered
<1>3. ~OnlyEdits(Append(q, m))
  BY QueueMore DEF OnlyEdits
<1> QED BY <1>2, <1>3 DEF CountsEdits

-------------------------------------------------------------------------------
(* The machine and its answers *)

LEMMA SearchStarts == SearchInit => SearchInv
<1>1. /\ FirstQuery \in Queries /\ NoRows.of = FirstQuery /\ NoRows.edits = 0
      /\ NoRows \in [of : Queries, edits : Nat, stale : BOOLEAN, failed : BOOLEAN]
  BY DEF FirstQuery, NoRows, Queries
<1>2. <<>> \in Seq(Sends)
  BY EmptySeq
<1> SUFFICES ASSUME SearchInit PROVE SearchInv
  OBVIOUS
<1>3. SearchTypes
  BY <1>1, <1>2 DEF SearchInit, SearchTypes
<1>4. NothingListed /\ ~loading
  BY DEF SearchInit, NothingListed
<1> QED BY <1>3, <1>4 DEF SearchInv

(* A list is open when something is under way. *)
LEMMA ListIsOpen ==
    ASSUME SearchInv, sent # <<>>
    PROVE  list # NoList /\ ListedInv /\ SearchTypes /\ TableOK(Listed)
BY ListedIs DEF SearchInv, NothingListed, SearchTypes

LEMMA HandleStep == SearchInv /\ Handle => SearchInv'
<1> SUFFICES ASSUME SearchInv, Handle PROVE SearchInv'
  OBVIOUS
<1>1. PICK i \in DOMAIN sent :
         /\ sent[i].answer = NoReply
         /\ \A j \in 1 .. (i - 1) : sent[j].answer # NoReply
         /\ \/ /\ edits' = IF sent[i].kind = "edit" THEN edits + 1 ELSE edits
               /\ sent' = [sent EXCEPT ![i].answer = [code |-> "ok", edits |-> edits']]
            \/ /\ sent' = [sent EXCEPT ![i].answer = [code |-> "error"]]
               /\ UNCHANGED edits
  BY DEF Handle
<1>2. UNCHANGED <<list, query, rows, loading, wanted, lost>>
  BY DEF Handle
<1>3. sent \in Seq(Sends) /\ edits \in Nat /\ sent # <<>> /\ Len(sent) \in Nat
      /\ DOMAIN sent = 1 .. Len(sent) /\ sent[i] \in Sends
  BY <1>1, EmptySeq, LenProperties, ElementOfSeq DEF SearchInv, SearchTypes
<1>4. list # NoList /\ ListedInv
  BY <1>3, ListIsOpen
<1>5. PICK a \in Replies :
         /\ sent' = [sent EXCEPT ![i].answer = a] /\ edits' \in Nat /\ a # NoReply
         /\ a.code = "ok" => a.edits = edits' /\ edits' = IF sent[i].kind = "edit" THEN edits + 1 ELSE edits
         /\ a.code # "ok" => a.code = "error" /\ edits' = edits
  <2>1. CASE /\ edits' = IF sent[i].kind = "edit" THEN edits + 1 ELSE edits
             /\ sent' = [sent EXCEPT ![i].answer = [code |-> "ok", edits |-> edits']]
    <3> DEFINE r == [code |-> "ok", edits |-> edits']
    <3>1. edits' \in Nat /\ r.code = "ok" /\ r.edits = edits'
      BY <1>3, <2>1
    <3>2. r \in Replies /\ r # NoReply /\ sent' = [sent EXCEPT ![i].answer = r]
      BY <2>1, <3>1 DEF Replies, NoReply
    <3> QED BY <2>1, <3>1, <3>2
  <2>2. CASE /\ sent' = [sent EXCEPT ![i].answer = [code |-> "error"]]
             /\ UNCHANGED edits
    <3> DEFINE r == [code |-> "error"]
    <3>1. r.code = "error" /\ r \in Replies /\ r # NoReply /\ sent' = [sent EXCEPT ![i].answer = r]
      BY <2>2 DEF Replies, NoReply
    <3> QED BY <1>3, <2>2, <3>1
  <2> QED BY <1>1, <2>1, <2>2
<1> DEFINE m == [sent[i] EXCEPT !.answer = a]
<1>6. /\ sent' = [sent EXCEPT ![i] = m] /\ m \in Sends /\ m.answer = a
      /\ m.kind = sent[i].kind /\ m.of = sent[i].of /\ m.change = sent[i].change
  BY <1>3, <1>5 DEF Sends
<1> HIDE DEF m
<1>7. /\ sent' \in Seq(Sends) /\ DOMAIN sent' = DOMAIN sent /\ Len(sent') = Len(sent)
      /\ sent'[i] = m /\ \A j \in DOMAIN sent : j # i => sent'[j] = sent[j]
      /\ sent' # <<>>
  BY <1>1, <1>3, <1>6, ExceptSeq, EmptySeq
<1>8. \A j \in DOMAIN sent : /\ sent'[j].kind = sent[j].kind /\ sent'[j].of = sent[j].of
                             /\ sent'[j].change = sent[j].change
                             /\ IsLoad(sent'[j]) <=> IsLoad(sent[j])
  BY <1>6, <1>7 DEF IsLoad
<1>9. Listed' = Listed
  BY <1>2 DEF Listed
<1>10. AsksFor(sent, query, wanted, lost)'
  BY <1>2, <1>4, <1>7, <1>8, <1>9 DEF ListedInv, AsksFor, LastAsked
<1>11. RowsAreOf(sent, rows, query, wanted, lost)'
  BY <1>2, <1>4, <1>7, <1>8 DEF ListedInv, RowsAreOf
<1>12. PICK h \in 0 .. Len(sent) :
          /\ Answered1st(sent, h)
          /\ OnlyEdits(sent) /\ ~rows.failed /\ ~rows.stale => rows.edits = edits + (Len(sent) - h)
  BY <1>4 DEF ListedInv, CountsEdits
<1>13. i = h + 1
  <2>1. i > h
    BY <1>1, <1>3, <1>12 DEF Answered1st
  <2>2. i - 1 \in 1 .. Len(sent) => i - 1 <= h
    BY <1>1, <1>3, <1>12 DEF Answered1st
  <2> QED BY <1>3, <2>1, <2>2
<1>14. KnowsEdits(sent, edits)'
  <2> SUFFICES ASSUME NEW k \in DOMAIN sent, sent'[k].answer.code = "ok", sent'[k].answer.edits # edits'
               PROVE  \E j \in DOMAIN sent : j > k /\ sent'[j].kind = "edit"
    BY <1>7 DEF KnowsEdits
  <2>1. k # i /\ sent'[k] = sent[k]
    BY <1>5, <1>6, <1>7
  <2>2. CASE sent[k].answer.edits # edits
    <3>1. PICK j \in DOMAIN sent : j > k /\ sent[j].kind = "edit"
      BY <1>4, <2>1, <2>2 DEF ListedInv, KnowsEdits
    <3> QED BY <1>8, <3>1
  <2>3. CASE sent[k].answer.edits = edits
    <3>1. sent[i].kind = "edit"
      BY <1>5, <2>1, <2>3
    <3>2. k <= h
      BY <1>12, <2>1 DEF Answered1st, NoReply
    <3> QED BY <1>3, <1>8, <1>13, <3>1, <3>2
  <2> QED BY <2>2, <2>3
<1>15. CountsEdits(sent, rows, edits)'
  <2>1. h + 1 \in 0 .. Len(sent') /\ Answered1st(sent', h + 1)
    BY <1>3, <1>5, <1>6, <1>7, <1>12, <1>13 DEF Answered1st
  <2>2. OnlyEdits(sent') => OnlyEdits(sent) /\ a.code # "error" /\ sent[i].kind = "edit"
    BY <1>1, <1>6, <1>7, <1>8 DEF OnlyEdits, NoReply
  <2>3. OnlyEdits(sent') /\ ~rows.failed /\ ~rows.stale =>
           rows.edits = edits' + (Len(sent') - (h + 1))
    BY <1>3, <1>5, <1>7, <1>12, <2>2
  <2> QED BY <1>2, <2>1, <2>3 DEF CountsEdits
<1>16. ListedInv'
  BY <1>2, <1>4, <1>9, <1>10, <1>11, <1>14, <1>15 DEF ListedInv
<1> QED BY <1>2, <1>4, <1>5, <1>7, <1>16 DEF SearchInv, SearchTypes

(* The first request leaves the queue. *)
LEMMA HeadLeaves ==
    ASSUME SearchInv, sent # <<>>, Head(sent).answer # NoReply
    PROVE  /\ sent \in Seq(Sends) /\ Head(sent) = sent[1] /\ sent[1] \in Sends
           /\ sent[1].answer.code \in {"ok", "error"}
           /\ sent[1].answer.code = "ok" => sent[1].answer.edits \in Nat
           /\ Tail(sent) \in Seq(Sends)
           /\ AsksFor(Tail(sent), query, wanted, lost) /\ KnowsEdits(Tail(sent), edits)
           /\ \E h \in 0 .. Len(Tail(sent)) :
                 /\ Answered1st(Tail(sent), h)
                 /\ OnlyEdits(sent) /\ ~rows.failed /\ ~rows.stale =>
                       rows.edits = edits + (Len(Tail(sent)) - h)
<1>1. /\ Tail(sent) \in Seq(Sends) /\ Head(sent) = sent[1] /\ sent[1] \in Sends
      /\ Len(sent) \in Nat /\ Len(sent) >= 1 /\ Len(Tail(sent)) = Len(sent) - 1
      /\ DOMAIN sent = 1 .. Len(sent) /\ DOMAIN Tail(sent) = 1 .. (Len(sent) - 1)
      /\ \A i \in DOMAIN Tail(sent) : i + 1 \in DOMAIN sent /\ Tail(sent)[i] = sent[i + 1]
      /\ sent \in Seq(Sends)
  BY QueueTail DEF SearchInv, SearchTypes
<1>2. ListedInv
  BY ListIsOpen
<1>3. PICK h \in 0 .. Len(sent) :
         /\ Answered1st(sent, h)
         /\ OnlyEdits(sent) /\ ~rows.failed /\ ~rows.stale => rows.edits = edits + (Len(sent) - h)
  BY <1>2 DEF ListedInv, CountsEdits
<1>4. h >= 1
  BY <1>1, <1>3 DEF Answered1st
<1>5. h - 1 \in 0 .. Len(Tail(sent)) /\ Len(sent) - h = Len(Tail(sent)) - (h - 1)
  BY <1>1, <1>4
<1>6. Answered1st(Tail(sent), h - 1)
  BY <1>1, <1>3, <1>4 DEF Answered1st
<1>7. AsksFor(Tail(sent), query, wanted, lost) /\ KnowsEdits(Tail(sent), edits)
  BY <1>1, <1>2, TailAsksFor, TailKnowsEdits DEF ListedInv
<1>8. /\ sent[1].answer.code \in {"ok", "error"}
      /\ sent[1].answer.code = "ok" => sent[1].answer.edits \in Nat
  BY <1>1 DEF Sends, Replies
<1> QED BY <1>1, <1>3, <1>5, <1>6, <1>7, <1>8

LEMMA FailedStep ==
    ASSUME SearchInv, sent # <<>>, Head(sent).answer # NoReply, Failed(Tail(sent)),
           UNCHANGED <<list, wanted, edits>>
    PROVE  SearchInv'
<1>1. list # NoList /\ ListedInv /\ SearchTypes
  BY ListIsOpen
<1>2. PICK h \in 0 .. Len(Tail(sent)) : Answered1st(Tail(sent), h)
  BY HeadLeaves
<1>3. /\ sent' = Tail(sent) /\ loading' = FALSE /\ rows' = [rows EXCEPT !.failed = TRUE]
      /\ UNCHANGED <<query, lost, list, wanted, edits>> /\ Listed' = Listed
  BY DEF Failed, Listed
<1>4. rows' \in [of : Queries, edits : Nat, stale : BOOLEAN, failed : BOOLEAN] /\ rows'.failed
  BY <1>1, <1>3 DEF SearchTypes
<1>5. AsksFor(sent, query, wanted, lost)' /\ KnowsEdits(sent, edits)'
  BY <1>3, HeadLeaves DEF AsksFor, KnowsEdits
<1>6. RowsAreOf(sent, rows, query, wanted, lost)' /\ CountsEdits(sent, rows, edits)'
  BY <1>2, <1>3, <1>4 DEF RowsAreOf, CountsEdits
<1>7. ListedInv'
  BY <1>1, <1>3, <1>5, <1>6 DEF ListedInv
<1>8. SearchTypes'
  BY <1>1, <1>3, <1>4, HeadLeaves DEF SearchTypes
<1> QED BY <1>1, <1>3, <1>7, <1>8 DEF SearchInv

LEMMA GotRowsStep ==
    ASSUME SearchInv, sent # <<>>, Head(sent).answer.code = "ok", Head(sent).kind = "load",
           GotRows(Head(sent), Tail(sent)), UNCHANGED <<list, wanted, edits>>
    PROVE  SearchInv'
<1> DEFINE m == Head(sent)
           rest == Tail(sent)
<1>0. m.answer # NoReply
  BY DEF NoReply
<1>1. list # NoList /\ ListedInv /\ SearchTypes /\ TableOK(Listed)
  BY ListIsOpen
<1>2. /\ sent \in Seq(Sends) /\ m = sent[1] /\ m \in Sends /\ m.answer.edits \in Nat
      /\ rest \in Seq(Sends)
      /\ AsksFor(rest, query, wanted, lost) /\ KnowsEdits(rest, edits)
  BY <1>0, HeadLeaves
<1>3. PICK h \in 0 .. Len(rest) : Answered1st(rest, h)
  BY <1>0, HeadLeaves
<1>4. /\ rows' = [of |-> m.of, edits |-> m.answer.edits, stale |-> Stale(rest), failed |-> FALSE]
      /\ query' = [f \in Fields |-> IF f \in Listed.echoes THEN m.of[f] ELSE query[f]]
      /\ loading' = FALSE /\ sent' = rest /\ lost' = lost
      /\ UNCHANGED <<list, wanted, edits>> /\ Listed' = Listed
  BY DEF GotRows, Listed
<1>5. Stale(rest) \in BOOLEAN
  BY DEF Stale
<1>6. /\ Len(sent) \in Nat /\ Len(rest) = Len(sent) - 1 /\ Len(sent) >= 1
      /\ DOMAIN sent = 1 .. Len(sent) /\ DOMAIN rest = 1 .. (Len(sent) - 1)
      /\ \A i \in DOMAIN rest : i + 1 \in DOMAIN sent /\ rest[i] = sent[i + 1]
      /\ \A i \in DOMAIN rest : rest[i] \in Sends
  BY <1>2, QueueTail, ElementOfSeq
<1> HIDE DEF m, rest
<1>7. m.of \in Queries /\ query \in Queries /\ wanted \in Queries
  BY <1>1, <1>2 DEF Sends, SearchTypes
<1>8. query' \in Queries
  BY <1>4, <1>7 DEF Queries
<1>9. rows' \in [of : Queries, edits : Nat, stale : BOOLEAN, failed : BOOLEAN]
  BY <1>2, <1>4, <1>5, <1>7
<1>10. \A f \in Fields \ Listed.echoes : query'[f] = query[f]
  BY <1>4
<1>11. AsksFor(rest, query', wanted, lost)
  BY <1>2, <1>10 DEF AsksFor
<1>12. ASSUME \A i \in DOMAIN rest : ~IsLoad(rest[i])
       PROVE  m.of = query' /\ (lost \/ query' = wanted)
  <2>1. \A j \in DOMAIN sent : j > 1 => ~IsLoad(sent[j])
    <3>1. ASSUME NEW j \in DOMAIN sent, j > 1 PROVE ~IsLoad(sent[j])
      <4>1. j - 1 \in DOMAIN rest /\ rest[j - 1] = sent[j]
        BY <1>6, <3>1
      <4> QED BY <1>12, <4>1
    <3> QED BY <3>1
  <2>2. LastAsked(sent, 1) /\ 1 \in DOMAIN sent
    BY <1>2, <1>6, <2>1 DEF LastAsked, m
  <2>3. (\A f \in Fields \ Listed.echoes : m.of[f] = query[f]) /\ (lost \/ m.of = wanted)
    BY <1>1, <1>2, <2>2 DEF ListedInv, AsksFor
  <2>4. \A f \in Fields : query'[f] = m.of[f]
    BY <1>4, <2>3
  <2>5. query' = m.of
    BY <1>7, <1>8, <2>4 DEF Queries
  <2> QED BY <2>3, <2>5
<1>13. RowsAreOf(rest, rows', query', wanted, lost)
  BY <1>4, <1>12 DEF RowsAreOf
<1>14. ASSUME OnlyEdits(rest), ~Stale(rest)
       PROVE  rows'.edits = edits + (Len(rest) - h)
  <2>1. DOMAIN rest = {}
    BY <1>6, <1>14 DEF OnlyEdits, Stale, Sends
  <2>2. Len(rest) = 0 /\ h = 0 /\ DOMAIN sent = {1}
    BY <1>3, <1>6, <2>1
  <2>3. sent[1].answer.edits = edits
    <3>1. sent[1].answer.code = "ok" /\ 1 \in DOMAIN sent
      BY <1>2, <2>2 DEF m
    <3>2. ~ \E j \in DOMAIN sent : j > 1
      BY <2>2
    <3> QED BY <1>1, <3>1, <3>2 DEF ListedInv, KnowsEdits
  <2> QED BY <1>1, <1>2, <1>4, <2>2, <2>3 DEF SearchTypes
<1>15. CountsEdits(rest, rows', edits)
  BY <1>3, <1>4, <1>14 DEF CountsEdits
<1>16. ListedInv'
  <2>1. AsksFor(sent, query, wanted, lost)' /\ RowsAreOf(sent, rows, query, wanted, lost)'
    BY <1>4, <1>11, <1>13 DEF AsksFor, RowsAreOf
  <2>2. KnowsEdits(sent, edits)' /\ CountsEdits(sent, rows, edits)'
    BY <1>2, <1>4, <1>15
  <2> QED BY <1>1, <1>4, <1>10, <2>1, <2>2 DEF ListedInv
<1>17. SearchTypes'
  BY <1>1, <1>2, <1>4, <1>8, <1>9 DEF SearchTypes
<1> QED BY <1>1, <1>4, <1>16, <1>17 DEF SearchInv

LEMMA ChangedStep ==
    ASSUME SearchInv, sent # <<>>, Head(sent).answer.code = "ok", Head(sent).kind # "load",
           Changed(Head(sent), Tail(sent)), UNCHANGED <<list, wanted, edits>>
    PROVE  SearchInv'
<1> DEFINE m == Head(sent)
           rest == Tail(sent)
<1>0. m.answer # NoReply
  BY DEF NoReply
<1>1. list # NoList /\ ListedInv /\ SearchTypes /\ TableOK(Listed)
  BY ListIsOpen
<1>2. /\ sent \in Seq(Sends) /\ m = sent[1] /\ m \in Sends /\ rest \in Seq(Sends)
      /\ AsksFor(rest, query, wanted, lost) /\ KnowsEdits(rest, edits)
  BY <1>0, HeadLeaves
<1>3. PICK h \in 0 .. Len(rest) :
         /\ Answered1st(rest, h)
         /\ OnlyEdits(sent) /\ ~rows.failed /\ ~rows.stale => rows.edits = edits + (Len(rest) - h)
  BY <1>0, HeadLeaves
<1>4. UNCHANGED <<list, wanted, edits, query, rows>> /\ Listed' = Listed
  BY DEF Changed, Listed
<1>5. /\ DOMAIN sent = 1 .. Len(sent) /\ DOMAIN rest = 1 .. (Len(sent) - 1)
      /\ Len(sent) \in Nat
      /\ \A i \in DOMAIN rest : i + 1 \in DOMAIN sent /\ rest[i] = sent[i + 1]
  BY <1>2, QueueTail
<1>6. CASE m.change.reloads
  <2> DEFINE load == Loading(query)
             now == Append(rest, load)
  <2>1. /\ sent' = now /\ loading' = (Listed.spins /\ ~m.change.drops)
        /\ lost' = (lost \/ query # wanted)
    BY <1>6 DEF Changed
  <2>2. /\ load \in Sends /\ load.kind = "load" /\ load.of = query /\ load.answer = NoReply
    BY <1>1 DEF Loading, Sends, Replies, Reloading, Changes, SearchTypes
  <2> HIDE DEF load, m, rest
  <2>3. now \in Seq(Sends) /\ now # <<>> /\ \E i \in DOMAIN now : IsLoad(now[i])
    <3>1. now[Len(rest) + 1] = load /\ Len(rest) + 1 \in DOMAIN now
      BY <1>2, <2>2, QueueMore
    <3> QED BY <1>2, <2>2, <3>1, QueueMore DEF IsLoad
  <2>4. AsksFor(now, query, wanted, lost')
    <3>1. lost' \/ load.of = wanted
      BY <2>1, <2>2
    <3> QED BY <1>2, <2>2, <3>1, MoreAsksFor
  <2>5. KnowsEdits(now, edits)
    BY <1>2, <2>2, MoreKnowsEdits
  <2>6. CountsEdits(now, rows, edits)
    <3>1. h \in 0 .. Len(now) /\ Answered1st(now, h)
      BY <1>2, <1>3, <2>2, MoreAnswered
    <3>2. now[Len(rest) + 1] = load /\ Len(rest) + 1 \in DOMAIN now
      BY <1>2, <2>2, QueueMore
    <3>3. ~OnlyEdits(now)
      BY <2>2, <3>2 DEF OnlyEdits
    <3> QED BY <3>1, <3>3 DEF CountsEdits
  <2> HIDE DEF now
  <2>7. AsksFor(sent, query, wanted, lost)' /\ RowsAreOf(sent, rows, query, wanted, lost)'
    BY <1>4, <2>1, <2>3, <2>4 DEF AsksFor, RowsAreOf
  <2>8. KnowsEdits(sent, edits)' /\ CountsEdits(sent, rows, edits)'
    BY <1>4, <2>1, <2>5, <2>6
  <2>9. ListedInv'
    BY <1>1, <1>4, <2>7, <2>8 DEF ListedInv
  <2>10. lost' \in BOOLEAN /\ loading' \in BOOLEAN
    BY <1>1, <2>1 DEF TableOK
  <2>11. SearchTypes'
    BY <1>1, <1>4, <2>1, <2>3, <2>10 DEF SearchTypes
  <2> QED BY <1>1, <1>4, <2>1, <2>3, <2>9, <2>11 DEF SearchInv
<1>7. CASE ~m.change.reloads
  <2>1. sent' = rest /\ loading' = FALSE /\ lost' = lost
    BY <1>7 DEF Changed
  <2>2. m.kind = "edit"
    BY <1>2, <1>7 DEF Sends, Reloading
  <2> HIDE DEF m, rest
  <2>3. RowsAreOf(rest, rows, query, wanted, lost)
    <3>1. ASSUME \A i \in DOMAIN rest : ~IsLoad(rest[i]) PROVE \A i \in DOMAIN sent : ~IsLoad(sent[i])
      <4>1. ASSUME NEW i \in DOMAIN sent, i # 1 PROVE ~IsLoad(sent[i])
        <5>1. i - 1 \in DOMAIN rest /\ rest[i - 1] = sent[i]
          BY <1>5, <4>1
        <5> QED BY <3>1, <5>1
      <4> QED BY <1>2, <2>2, <4>1 DEF IsLoad
    <3> QED BY <1>1, <3>1 DEF ListedInv, RowsAreOf
  <2>4. CountsEdits(rest, rows, edits)
    <3>1. ASSUME OnlyEdits(rest) PROVE OnlyEdits(sent)
      <4>1. ASSUME NEW i \in DOMAIN sent, i # 1
            PROVE  /\ sent[i].kind = "edit" /\ ~sent[i].change.reloads
                   /\ sent[i].answer.code # "error"
        <5>1. i - 1 \in DOMAIN rest /\ rest[i - 1] = sent[i]
          BY <1>5, <4>1
        <5> QED BY <3>1, <5>1 DEF OnlyEdits
      <4>2. sent[1].kind = "edit" /\ ~sent[1].change.reloads /\ sent[1].answer.code # "error"
        BY <1>2, <1>7, <2>2 DEF m
      <4> QED BY <4>1, <4>2 DEF OnlyEdits
    <3> QED BY <1>3, <3>1 DEF CountsEdits
  <2>5. ListedInv'
    <3>1. AsksFor(sent, query, wanted, lost)' /\ RowsAreOf(sent, rows, query, wanted, lost)'
      BY <1>2, <1>4, <2>1, <2>3 DEF AsksFor, RowsAreOf
    <3>2. KnowsEdits(sent, edits)' /\ CountsEdits(sent, rows, edits)'
      BY <1>2, <1>4, <2>1, <2>4
    <3> QED BY <1>1, <1>4, <3>1, <3>2 DEF ListedInv
  <2>6. SearchTypes'
    BY <1>1, <1>2, <1>4, <2>1 DEF SearchTypes
  <2> QED BY <1>1, <1>4, <2>1, <2>5, <2>6 DEF SearchInv
<1> QED BY <1>6, <1>7

LEMMA AnsweredListStep == SearchInv /\ AnsweredList => SearchInv'
<1> SUFFICES ASSUME SearchInv, AnsweredList PROVE SearchInv'
  OBVIOUS
<1>1. sent # <<>> /\ Head(sent).answer # NoReply /\ UNCHANGED <<list, wanted, edits>>
  BY DEF AnsweredList
<1>2. Head(sent).answer.code \in {"ok", "error"}
  BY <1>1, HeadLeaves
<1>3. CASE Head(sent).answer.code = "error"
  <2>1. Failed(Tail(sent))
    BY <1>3 DEF AnsweredList
  <2> QED BY <1>1, <2>1, FailedStep
<1>4. CASE Head(sent).answer.code = "ok" /\ Head(sent).kind = "load"
  <2>1. GotRows(Head(sent), Tail(sent))
    BY <1>4 DEF AnsweredList
  <2> QED BY <1>1, <1>4, <2>1, GotRowsStep
<1>5. CASE Head(sent).answer.code = "ok" /\ Head(sent).kind # "load"
  <2>1. Changed(Head(sent), Tail(sent))
    BY <1>5 DEF AnsweredList
  <2> QED BY <1>1, <1>5, <2>1, ChangedStep
<1> QED BY <1>2, <1>3, <1>4, <1>5

-------------------------------------------------------------------------------
(* The user *)

LEMMA ListMountStep == ASSUME SearchInv, NEW l \in Lists, Mount(l) PROVE SearchInv'
<1>1. NothingListed /\ list' = l /\ l \in DOMAIN Tables /\ l # NoList /\ TableOK(Tables[l])
  BY WebSearchAssumption, TablesAre DEF WebSearchAssumption, SearchInv, Mount
<1> DEFINE load == Loading(FirstQuery)
           q == [i \in 1 .. Tables[l].loads |-> load]
<1>2. /\ load \in Sends /\ load.kind = "load" /\ load.of = FirstQuery /\ load.answer = NoReply
      /\ FirstQuery \in Queries
  BY DEF Loading, Sends, Replies, Reloading, Changes, Queries, FirstQuery
<1>3. /\ query' = FirstQuery /\ wanted' = FirstQuery /\ sent' = q
      /\ loading' = Tables[l].spins /\ UNCHANGED <<rows, lost, edits>>
  BY DEF Mount
<1> HIDE DEF load
<1>4. Tables[l].loads \in {1, 2}
  BY <1>1 DEF TableOK
<1>5. /\ q \in Seq(Sends) /\ Len(q) = Tables[l].loads /\ q # <<>>
      /\ DOMAIN q = 1 .. Tables[l].loads /\ \A i \in DOMAIN q : q[i] = load
  <2>1. q \in [1 .. Tables[l].loads -> Sends]
    BY <1>2
  <2>2. q \in Seq(Sends) /\ Len(q) = Tables[l].loads
    BY <1>4, <2>1, SeqDef, LenProperties
  <2> QED BY <1>4, <2>2, EmptySeq
<1> HIDE DEF q
<1>6. AsksFor(sent, query, wanted, lost)'
  BY <1>2, <1>3, <1>5 DEF AsksFor
<1>7. RowsAreOf(sent, rows, query, wanted, lost)'
  BY <1>2, <1>3, <1>4, <1>5 DEF RowsAreOf, IsLoad
<1>8. KnowsEdits(sent, edits)'
  BY <1>2, <1>3, <1>5 DEF KnowsEdits, NoReply
<1>9. CountsEdits(sent, rows, edits)'
  <2>1. 0 \in 0 .. Len(q) /\ Answered1st(q, 0)
    BY <1>2, <1>4, <1>5 DEF Answered1st
  <2>2. ~OnlyEdits(q)
    BY <1>2, <1>4, <1>5 DEF OnlyEdits
  <2> QED BY <1>3, <2>1, <2>2 DEF CountsEdits
<1>10. ListedInv'
  BY <1>3, <1>6, <1>7, <1>8, <1>9 DEF ListedInv
<1>11. SearchTypes'
  BY <1>1, <1>2, <1>3, <1>5 DEF SearchInv, SearchTypes, TableOK
<1> QED BY <1>1, <1>3, <1>5, <1>10, <1>11 DEF SearchInv

(* What the user may ask for makes the controls show what he wants. *)
LEMMA ListAskStep ==
    ASSUME SearchInv, list # NoList, query' \in Queries, wanted' = query',
           NEW m \in Sends, m.kind \in {"load", "order"}, m.answer = NoReply,
           m.kind = "load" => m.of = query',
           m.kind = "order" => Listed.orders,
           sent' = Append(sent, m), loading' \in BOOLEAN,
           UNCHANGED <<list, rows, lost, edits>>
    PROVE  SearchInv'
<1>1. ListedInv /\ SearchTypes
  BY DEF SearchInv, NothingListed
<1>2. sent \in Seq(Sends) /\ Listed' = Listed
  BY <1>1 DEF SearchTypes, Listed
<1>3. /\ sent' \in Seq(Sends) /\ sent' # <<>>
      /\ \E i \in DOMAIN sent' : IsLoad(sent'[i])
  <2>1. sent'[Len(sent) + 1] = m /\ Len(sent) + 1 \in DOMAIN sent'
    BY <1>2, QueueMore
  <2> QED BY <1>2, <2>1, QueueMore DEF IsLoad
<1>4. AsksFor(sent', query', wanted', lost)
  BY <1>2, MoreAsksFor
<1>5. KnowsEdits(sent', edits)
  BY <1>1, <1>2, MoreKnowsEdits DEF ListedInv
<1>6. CountsEdits(sent', rows, edits)
  BY <1>1, <1>2, MoreCounts DEF ListedInv
<1>7. AsksFor(sent, query, wanted, lost)' /\ RowsAreOf(sent, rows, query, wanted, lost)'
  BY <1>2, <1>3, <1>4 DEF AsksFor, RowsAreOf
<1>8. KnowsEdits(sent, edits)' /\ CountsEdits(sent, rows, edits)'
  BY <1>5, <1>6
<1>9. ListedInv'
  BY <1>7, <1>8 DEF ListedInv
<1>10. SearchTypes'
  BY <1>1, <1>3 DEF SearchTypes
<1> QED BY <1>3, <1>9, <1>10 DEF SearchInv

LEMMA SetTypes ==
    ASSUME query \in Queries, NEW f \in Fields, Set(f)
    PROVE  query' \in Queries /\ wanted' = query'
BY DEF Set, Queries

LEMMA LoadingSends ==
    ASSUME NEW q \in Queries
    PROVE  /\ Loading(q) \in Sends /\ Loading(q).kind = "load" /\ Loading(q).of = q
           /\ Loading(q).answer = NoReply
BY DEF Loading, Sends, Replies, Reloading, Changes

LEMMA ChooseStep ==
    ASSUME SearchInv, \/ \E f \in Fields : handlePageChange(f)
                      \/ handleSortChange \/ Refresh
    PROVE  SearchInv'
<1>1. list # NoList /\ SearchTypes
  BY DEF SearchInv, handlePageChange, handleSortChange, Refresh, Acts
<1>2. TableOK(Listed) /\ Listed' = Listed
  BY <1>1, ListedIs DEF SearchTypes, Listed, handlePageChange, handleSortChange, Refresh
<1>3. ASSUME query' \in Queries, wanted' = query', loadData(sent), UNCHANGED <<list, rows, lost, edits>>
      PROVE  SearchInv'
  <2>1. Loading(query') \in Sends /\ Loading(query').kind = "load" /\ Loading(query').of = query'
        /\ Loading(query').answer = NoReply
    BY <1>3, LoadingSends
  <2>2. sent' = Append(sent, Loading(query')) /\ loading' \in BOOLEAN
    BY <1>2, <1>3 DEF loadData, TableOK
  <2> QED BY <1>1, <1>3, <2>1, <2>2, ListAskStep
<1>4. ASSUME NEW f \in Fields, handlePageChange(f) PROVE SearchInv'
  BY <1>1, <1>3, <1>4, SetTypes DEF handlePageChange, SearchTypes
<1>5. CASE handleSortChange
  <2>1. query' \in Queries /\ wanted' = query'
    BY <1>1, <1>5, SetTypes DEF handleSortChange, Fields, SearchTypes
  <2>2. Ordering \in Sends /\ Ordering.kind = "order" /\ Ordering.answer = NoReply
    BY <1>1 DEF Ordering, Sends, Replies, Reloading, Changes, SearchTypes
  <2>3. /\ sent' = Append(sent, Ordering) /\ Listed.orders /\ loading' \in BOOLEAN
        /\ UNCHANGED <<list, rows, lost, edits>>
    BY <1>1, <1>5 DEF handleSortChange, SearchTypes
  <2> QED BY <1>1, <2>1, <2>2, <2>3, ListAskStep
<1>6. CASE Refresh
  BY <1>1, <1>3, <1>6 DEF Refresh, SearchTypes
<1> QED BY <1>4, <1>5, <1>6

LEMMA EditRowStep ==
    ASSUME SearchInv, list # NoList, NEW c \in Listed.changes, EditRow(c)
    PROVE  SearchInv'
<1> DEFINE m == Changing(c)
           now == Append(sent, m)
<1>1. ListedInv /\ SearchTypes /\ TableOK(Listed)
  BY ListedIs DEF SearchInv, NothingListed, SearchTypes
<1>2. /\ sent \in Seq(Sends) /\ Listed' = Listed /\ sent' = now
      /\ rows' = (IF c.inPlace THEN [rows EXCEPT !.edits = @ + 1] ELSE rows)
      /\ loading' = Listed.spins /\ UNCHANGED <<list, query, wanted, lost, edits>>
  BY <1>1 DEF EditRow, Listed, SearchTypes
<1>3. c \in Changes /\ (c.inPlace \/ c.reloads) /\ loading' \in BOOLEAN
  BY <1>1, <1>2 DEF TableOK
<1>4. m \in Sends /\ m.kind = "edit" /\ m.answer = NoReply /\ m.change = c
  BY <1>1, <1>3 DEF Changing, Sends, Replies, SearchTypes
<1>5. /\ rows' \in [of : Queries, edits : Nat, stale : BOOLEAN, failed : BOOLEAN]
      /\ rows'.of = rows.of /\ rows'.failed = rows.failed /\ rows'.stale = rows.stale
      /\ c.inPlace => rows'.edits = rows.edits + 1
  BY <1>1, <1>2 DEF SearchTypes
<1> HIDE DEF m
<1>6. /\ now \in Seq(Sends) /\ Len(sent) \in Nat /\ now # <<>>
      /\ DOMAIN sent = 1 .. Len(sent) /\ DOMAIN now = 1 .. (Len(sent) + 1)
      /\ Len(now) = Len(sent) + 1
      /\ \A i \in DOMAIN sent : now[i] = sent[i]
  BY <1>2, <1>4, QueueMore
<1>7. AsksFor(now, query, wanted, lost) /\ KnowsEdits(now, edits)
  BY <1>1, <1>2, <1>4, MoreAsksFor, MoreKnowsEdits DEF ListedInv
<1>8. CountsEdits(now, rows', edits)
  <2>1. CASE c.reloads
    BY <1>1, <1>2, <1>4, <2>1, MoreCounts DEF ListedInv
  <2>2. CASE ~c.reloads
    <3>1. PICK h \in 0 .. Len(sent) :
             /\ Answered1st(sent, h)
             /\ OnlyEdits(sent) /\ ~rows.failed /\ ~rows.stale =>
                   rows.edits = edits + (Len(sent) - h)
      BY <1>1 DEF ListedInv, CountsEdits
    <3>2. h \in 0 .. Len(now) /\ Answered1st(now, h)
      BY <1>2, <1>4, <3>1, MoreAnswered
    <3> HIDE DEF now
    <3>3. OnlyEdits(now) => OnlyEdits(sent)
      BY <1>6 DEF OnlyEdits
    <3>4. edits \in Nat /\ rows.edits \in Nat
      BY <1>1 DEF SearchTypes
    <3>5. OnlyEdits(now) /\ ~rows'.failed /\ ~rows'.stale => rows'.edits = edits + (Len(now) - h)
      BY <1>3, <1>5, <1>6, <2>2, <3>1, <3>3, <3>4
    <3> QED BY <3>2, <3>5 DEF CountsEdits
  <2> QED BY <2>1, <2>2
<1> HIDE DEF now
<1>9. RowsAreOf(now, rows', query, wanted, lost)
  BY <1>1, <1>5, <1>6 DEF RowsAreOf, ListedInv
<1>10. ListedInv'
  <2>1. AsksFor(sent, query, wanted, lost)' /\ RowsAreOf(sent, rows, query, wanted, lost)'
    BY <1>2, <1>7, <1>9 DEF AsksFor, RowsAreOf
  <2>2. KnowsEdits(sent, edits)' /\ CountsEdits(sent, rows, edits)'
    BY <1>2, <1>7, <1>8
  <2> QED BY <1>1, <1>2, <2>1, <2>2 DEF ListedInv
<1>11. SearchTypes'
  BY <1>1, <1>2, <1>3, <1>5, <1>6 DEF SearchTypes
<1> QED BY <1>2, <1>6, <1>10, <1>11 DEF SearchInv

-------------------------------------------------------------------------------
(* The properties *)

LEMMA SearchStep == SearchInv /\ [SearchNext]_searchVars => SearchInv'
<1> SUFFICES ASSUME SearchInv, [SearchNext]_searchVars PROVE SearchInv'
  OBVIOUS
<1>1. CASE UNCHANGED searchVars
  <2>1. UNCHANGED <<list, sent, query, rows, loading, wanted, lost, edits>> /\ Listed' = Listed
    BY <1>1 DEF searchVars, Listed
  <2>2. ListedInv => ListedInv'
    BY <2>1 DEF ListedInv, AsksFor, RowsAreOf
  <2> QED BY <2>1, <2>2 DEF SearchInv, SearchTypes, NothingListed
<1>2. ASSUME NEW l \in Lists, Mount(l) PROVE SearchInv'
  BY <1>2, ListMountStep
<1>3. CASE Handle
  BY <1>3, HandleStep
<1>4. CASE AnsweredList
  BY <1>4, AnsweredListStep
<1>5. CASE (\E f \in Fields : handlePageChange(f)) \/ handleSortChange \/ Refresh
  BY <1>5, ChooseStep
<1>6. ASSUME list # NoList, NEW c \in Listed.changes, EditRow(c) PROVE SearchInv'
  BY <1>6, EditRowStep
<1> QED BY <1>1, <1>2, <1>3, <1>4, <1>5, <1>6 DEF SearchNext

LEMMA SearchShows == SearchInv => SearchTypeOK /\ RowsAsAsked /\ ChoiceKept /\ SpinnerEnds
<1> SUFFICES ASSUME SearchInv PROVE SearchTypeOK /\ RowsAsAsked /\ ChoiceKept /\ SpinnerEnds
  OBVIOUS
<1>1. SearchTypeOK
  <2>1. \A i \in DOMAIN sent : sent[i] \in Sends
    BY ElementOfSeq, LenProperties DEF SearchInv, SearchTypes
  <2> QED BY <2>1 DEF SearchInv, SearchTypes, SearchTypeOK, Queries, Sends
<1>2. SpinnerEnds
  BY DEF SearchInv, SpinnerEnds
<1>3. ASSUME Settled PROVE rows.of = query /\ (lost \/ query = wanted) /\ (rows.stale \/ rows.edits = edits)
  <2>1. ListedInv /\ sent = <<>> /\ ~rows.failed /\ SearchTypes
    BY <1>3 DEF SearchInv, NothingListed, Settled
  <2>2. DOMAIN sent = {} /\ Len(sent) = 0
    BY <2>1, EmptySeq
  <2>3. rows.of = query /\ (lost \/ query = wanted)
    BY <2>1, <2>2 DEF ListedInv, RowsAreOf
  <2>4. OnlyEdits(sent)
    BY <2>2 DEF OnlyEdits
  <2>5. PICK h \in 0 .. Len(sent) :
           OnlyEdits(sent) /\ ~rows.failed /\ ~rows.stale => rows.edits = edits + (Len(sent) - h)
    BY <2>1 DEF ListedInv, CountsEdits
  <2>6. rows.stale \/ rows.edits = edits
    BY <2>1, <2>2, <2>4, <2>5 DEF SearchTypes
  <2> QED BY <2>3, <2>6
<1> QED BY <1>1, <1>2, <1>3 DEF RowsAsAsked, ChoiceKept

LEMMA SearchHolds == SearchSpec => []SearchInv
BY SearchStarts, SearchStep, PTL DEF SearchSpec

(* The variables of a list keep their types. *)
THEOREM ListsTypeCorrect == SearchSpec => []SearchTypeOK
<1>1. SearchInv => SearchTypeOK
  BY SearchShows
<1> QED BY <1>1, SearchHolds, PTL

(* Once nothing is under way and nothing failed, a list shows the rows of the
   page, the order and the filter its controls show, with the user's edits in
   them, whichever order choices, edits and answers came in; but for a row that
   was changed in place while the rows were being loaded. *)
THEOREM ListsShowWhatWasAsked == SearchSpec => []RowsAsAsked
<1>1. SearchInv => RowsAsAsked
  BY SearchShows
<1> QED BY <1>1, SearchHolds, PTL

(* ... and the controls show what the user chose last, whatever older answers
   set them back to, but for rows that are loaded again in that while. *)
THEOREM ListsKeepTheChoice == SearchSpec => []ChoiceKept
<1>1. SearchInv => ChoiceKept
  BY SearchShows
<1> QED BY <1>1, SearchHolds, PTL

(* A list that spins has an answer to come that turns the spinner off. *)
THEOREM ListsStopSpinning == SearchSpec => []SpinnerEnds
<1>1. SearchInv => SpinnerEnds
  BY SearchShows
<1> QED BY <1>1, SearchHolds, PTL
===============================================================================
