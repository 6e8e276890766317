------------------------------ MODULE WebPolls ------------------------------
(***************************************************************************)
(* The polling loops of the web console.  A component of the page (the     *)
(* list of machines, a dialog) starts its loops when it is mounted.  A     *)
(* loop sends a request, shows the answer, and a timer sends the next one; *)
(* when the component is left its timers are cleared.                      *)
(*                                                                         *)
(* Requests and answers travel in order (WebApi); each request is answered *)
(* or fails, with an error or by its timeout.  An instance opens one       *)
(* component and follows one or two of its loops, as loops share nothing   *)
(* but the connection, with one exception (hashcode1).                     *)
(***************************************************************************)
EXTENDS Integers, Sequences, FiniteSets

CONSTANTS
    Parts,          \* [of |-> component, loops |-> the loops of it that are followed,
                    \*  events |-> how many failures, choices and leaves are tried]
    MaxChanges      \* changes of what the machine has to show

VARIABLES
    part,           \* the member of Parts that is followed, NoPart before the first
    open,           \* is it mounted
    wire,           \* requests under way and their answers
    timer,          \* loops whose timer runs
    stray,          \* of each loop: timers that run and that state.timer does not name
    ghosts,         \* of each loop: timers that run for a component that was left
    hash,           \* the hashcodes of the mounted component
    real,           \* connections._updateRealTime
    view,           \* of each loop: what is shown
    choice,         \* of each loop: state.page, sent with the request
    want,           \* of each loop: what the user chose last
    source,         \* of each loop: what the machine has to show
    did             \* how often the bounded things happened

pollVars == <<part, open, wire, timer, stray, ghosts, hash, real, view, choice,
              want, source, did>>

NoPart == [of |-> "none", loops |-> <<>>, events |-> 0]

-----------------------------------------------------------------------------
(* The loops.  hash: the hashcode a loop sends, so that it gets the list   *)
(* only if that changed.  frail: speeds are differences to the previous    *)
(* answer, and a key that is missing there throws.  paged: the answer      *)
(* brings the page number back.  again: when there is a next request.      *)
(* shows: the answer reaches what the templates read.  switch: the list    *)
(* has switches that spin.  restarts: an action of the user polls at once. *)

Plain == [hash |-> "none", frail |-> FALSE, paged |-> FALSE, again |-> "always",
          shows |-> TRUE, switch |-> FALSE, restarts |-> FALSE]
Versioned(h) == [Plain EXCEPT !.hash = h]
Paged == [Plain EXCEPT !.paged = TRUE]
Once == [Plain EXCEPT !.again = "never"]

_getSignList1 == Plain
_getTuntapInfo == [Versioned("tuntap") EXCEPT !.switch = TRUE]
_getSocks5Info == [Versioned("socks5") EXCEPT !.switch = TRUE]
_getTunnelInfo == Versioned("tunnel")
\* tunnel is a ref: the answer is put beside its value.
getTunnelOperating == [Plain EXCEPT !.shows = FALSE]
getRelayOperating == [Plain EXCEPT !.shows = FALSE]
_getForwardCountInfo == Versioned("forward")
_getSForwardCountInfo == Versioned("sforward")
_getUpdater == Versioned("updater")
_subscribeUpdater == [Plain EXCEPT !.shows = FALSE]
_getAccessInfo == Versioned("access")
_getForwardConnections == Versioned("hashcode")
_getTuntapConnections == Versioned("hashcode1")
_getSocks5Connections == Versioned("hashcode1")
_getFlows == [Plain EXCEPT !.frail = TRUE]
_getMessengerFlows == [Plain EXCEPT !.frail = TRUE]
_getRelayFlows == Paged
_getSForwardFlows == Paged
_getForwardFlows == Paged
_getSocks5Flows == Paged
_getTunnelFlows == Paged
_getNames == Once
_getOnlineMap == Once
_getCitys == Once
_getStopwatch == Plain
_setRelaySubscribe == Plain
_setSForwardSubscribe == Plain
_subscribeNodes == Plain
_getUpdaterServer == [Plain EXCEPT !.again = "busy"]
_testTargetForwardInfo == Plain
_testLocalSForwardInfo == Plain
_subscribeForwardTest == Plain
_getPlans == [Plain EXCEPT !.restarts = TRUE]

Loop ==
    [signList1 |-> _getSignList1, tuntap |-> _getTuntapInfo, socks5 |-> _getSocks5Info,
     tunnel |-> _getTunnelInfo, p2pOperating |-> getTunnelOperating,
     relayOperating |-> getRelayOperating, forward |-> _getForwardCountInfo,
     sforward |-> _getSForwardCountInfo, updater |-> _getUpdater,
     subscribeUpdater |-> _subscribeUpdater, access |-> _getAccessInfo,
     forwardConnections |-> _getForwardConnections,
     tuntapConnections |-> _getTuntapConnections,
     socks5Connections |-> _getSocks5Connections,
     flows |-> _getFlows, messengerFlows |-> _getMessengerFlows,
     relayFlows |-> _getRelayFlows, sforwardFlows |-> _getSForwardFlows,
     forwardFlows |-> _getForwardFlows, socks5Flows |-> _getSocks5Flows,
     tunnelFlows |-> _getTunnelFlows, names |-> _getNames,
     onlineMap |-> _getOnlineMap, citys |-> _getCitys, stopwatch |-> _getStopwatch,
     relayNodes |-> _setRelaySubscribe, sforwardNodes |-> _setSForwardSubscribe,
     connectionNodes |-> _subscribeNodes, updaterServer |-> _getUpdaterServer,
     testTarget |-> _testTargetForwardInfo, testLocal |-> _testLocalSForwardInfo,
     forwardTest |-> _subscribeForwardTest, plans |-> _getPlans]

-----------------------------------------------------------------------------
(* The components: the loops they start, in this order; what their          *)
(* templates let the user choose; does leaving them clear the timers.       *)

Component(loops, offers) == [loops |-> loops, offers |-> offers, clears |-> TRUE]

ListIndex ==
    Component(<<"signList1", "tuntap", "socks5", "tunnel", "p2pOperating",
                "relayOperating", "forwardConnections", "tuntapConnections",
                "socks5Connections", "forward", "sforward", "updater",
                "subscribeUpdater", "access">>, {})
NetList == Component(<<"signList1", "tuntap", "updater", "subscribeUpdater">>, {})
FlowIndex == Component(<<"flows">>, {})
ServerFlowMessenger == Component(<<"messengerFlows">>, {})
ServerFlowRelay == Component(<<"relayFlows">>, {"page", "order", "key"})
ServerFlowSForward == Component(<<"sforwardFlows">>, {"page", "order", "key"})
ServerFlowForward == Component(<<"forwardFlows", "names">>, {"page", "order"})
ServerFlowSocks5 == Component(<<"socks5Flows", "names">>, {"page", "order"})
ServerFlowTunnel == Component(<<"tunnelFlows", "names">>, {"page"})
OnlineMap == Component(<<"onlineMap">>, {})
OnlineAllMap == Component(<<"citys">>, {})
Stopwatch == Component(<<"stopwatch">>, {})
RelayConfig == Component(<<"relayNodes">>, {})
ForwardConfig == Component(<<"sforwardNodes">>, {})
ConnectionsEdit == Component(<<"connectionNodes">>, {})
ForwardTests == Component(<<"testTarget">>, {})
SForwardTests == Component(<<"testLocal", "sforwardNodes">>, {})
TuntapForwardTests == Component(<<"forwardTest">>, {})
PlanList == Component(<<"plans">>, {})
ServerVersion == [Component(<<"updaterServer">>, {}) EXCEPT !.clears = FALSE]

Components ==
    [ListIndex |-> ListIndex, NetList |-> NetList, FlowIndex |-> FlowIndex,
     ServerFlowMessenger |-> ServerFlowMessenger, ServerFlowRelay |-> ServerFlowRelay,
     ServerFlowSForward |-> ServerFlowSForward, ServerFlowForward |-> ServerFlowForward,
     ServerFlowSocks5 |-> ServerFlowSocks5, ServerFlowTunnel |-> ServerFlowTunnel,
     OnlineMap |-> OnlineMap, OnlineAllMap |-> OnlineAllMap, Stopwatch |-> Stopwatch,
     RelayConfig |-> RelayConfig, ForwardConfig |-> ForwardConfig,
     ConnectionsEdit |-> ConnectionsEdit, ServerVersion |-> ServerVersion,
     ForwardTests |-> ForwardTests, SForwardTests |-> SForwardTests,
     TuntapForwardTests |-> TuntapForwardTests, PlanList |-> PlanList]

Here == Components[part.of]
Followed == {part.loops[i] : i \in DOMAIN part.loops}

\* A component starts each of its loops once.
ASSUME WebPollsAssumption ==
    \A p \in Parts : /\ p.of \in DOMAIN Components
                     /\ p.loops \in Seq(STRING)
                     /\ \A i \in DOMAIN p.loops :
                           \E j \in DOMAIN Components[p.of].loops :
                              p.loops[i] = Components[p.of].loops[j]
                     /\ \A i, j \in DOMAIN p.loops : p.loops[i] = p.loops[j] => i = j

-----------------------------------------------------------------------------
(* Requests and answers *)

NoAnswer == [code |-> "none"]

Request(l) == [loop |-> l, left |-> FALSE, hash |-> hash'[Loop[l].hash],
               choice |-> choice'[l], answer |-> NoAnswer]

\* A failure, or what the machine has to show: all of it, unless the hashcode
\* is its version; with the number of the page that was asked for.
Answers(m) ==
    {[code |-> "error"],
     [code |-> "ok", n |-> source[m.loop].n, keys |-> source[m.loop].keys,
      busy |-> source[m.loop].busy, page |-> m.choice.page,
      full |-> Loop[m.loop].hash = "none" \/ m.hash # source[m.loop].n]}

\* The server takes one request after the other.
Serve ==
    \E i \in DOMAIN wire :
        /\ wire[i].answer = NoAnswer
        /\ \A j \in 1 .. (i - 1) : wire[j].answer # NoAnswer
        /\ \E a \in Answers(wire[i]) :
              /\ a.code = "error" => did.events < part.events
              /\ wire' = [wire EXCEPT ![i].answer = a]
              /\ did' = IF a.code = "error" THEN [did EXCEPT !.events = @ + 1] ELSE did
        /\ UNCHANGED <<part, open, timer, stray, ghosts, hash, real, view, choice,
                       want, source>>

\* Is there a next request?
Again(m) ==
    CASE Loop[m.loop].again = "always" -> TRUE
      [] Loop[m.loop].again = "never" -> FALSE
      [] Loop[m.loop].again = "busy" -> m.answer.code = "error" \/ m.answer.busy

\* state.timer = setTimeout(...): a timer it named before runs on.
Arm(l) ==
    /\ timer' = timer \union {l}
    /\ stray' = IF l \in timer THEN [stray EXCEPT ![l] = @ + 1] ELSE stray

\* An answer that comes after the component was left changes nothing that can
\* be seen, but its loop goes on.
ReceiveLate(m) ==
    /\ ghosts' = IF Again(m) THEN [ghosts EXCEPT ![m.loop] = @ + 1] ELSE ghosts
    /\ UNCHANGED <<timer, stray, hash, view, choice>>

\* A flow the previous answer did not have: itemOld is undefined.
Throws(m) ==
    /\ Loop[m.loop].frail /\ view[m.loop].any
    /\ \E k \in m.answer.keys : k > view[m.loop].n

Adopts(m) == m.answer.code = "ok" /\ m.answer.full /\ Loop[m.loop].shows /\ ~Throws(m)

\* While the connections are shown in real time their hashcodes stay 0.
AdoptHash(m) ==
    LET h == Loop[m.loop].hash IN
    hash' = IF /\ m.answer.code = "ok" /\ h # "none"
               /\ real => h \notin {"hashcode", "hashcode1"}
            THEN [hash EXCEPT ![h] = m.answer.n] ELSE hash

AdoptList(m) ==
    /\ view' = IF Adopts(m)
               THEN [view EXCEPT ![m.loop] =
                       [n |-> m.answer.n, of |-> m.choice, any |-> TRUE,
                        loading |-> FALSE, busy |-> m.answer.busy]]
               ELSE view
    /\ choice' = IF m.answer.code = "ok" /\ Loop[m.loop].paged
                 THEN [choice EXCEPT ![m.loop].page = m.answer.page] ELSE choice

\* Mutant: a request that failed is the last one.
ReceiveOnce(m) ==
    /\ AdoptHash(m)
    /\ AdoptList(m)
    /\ IF m.answer.code = "ok" /\ Again(m) THEN Arm(m.loop) ELSE UNCHANGED <<timer, stray>>
    /\ UNCHANGED ghosts

\* The two continuations of a request, then and catch.
Receive(m) ==
    /\ AdoptHash(m)
    /\ AdoptList(m)
    /\ IF Again(m) THEN Arm(m.loop) ELSE UNCHANGED <<timer, stray>>
    /\ UNCHANGED ghosts

Deliver ==
    /\ wire # <<>> /\ Head(wire).answer # NoAnswer
    /\ wire' = Tail(wire)
    /\ IF Head(wire).left THEN ReceiveLate(Head(wire)) ELSE Receive(Head(wire))
    /\ UNCHANGED <<part, open, real, want, source, did>>

\* A timer fires: clearTimeout(state.timer), and the next request.
Fire(l) ==
    /\ open
    /\ \/ l \in timer /\ UNCHANGED stray
       \/ stray[l] > 0 /\ stray' = [stray EXCEPT ![l] = @ - 1]
    /\ timer' = timer \ {l}
    /\ UNCHANGED <<hash, choice>>
    /\ wire' = Append(wire, Request(l))
    /\ UNCHANGED <<part, open, ghosts, real, view, want, source, did>>

GhostPoll(l) ==
    /\ ghosts[l] > 0
    /\ ghosts' = [ghosts EXCEPT ![l] = @ - 1]
    /\ UNCHANGED <<hash, choice>>
    /\ wire' = Append(wire, [Request(l) EXCEPT !.left = TRUE])
    /\ UNCHANGED <<part, open, timer, stray, real, view, want, source, did>>

-----------------------------------------------------------------------------
(* Mounting and leaving *)

FirstPage == [page |-> 1, order |-> 1, key |-> 1]
Nothing == [n |-> 0, of |-> FirstPage, any |-> FALSE, loading |-> FALSE, busy |-> FALSE]
NewSource == [n |-> 0, keys |-> {}, busy |-> FALSE]

\* Mutant: the hashcodes outlive the component, the lists do not.
ProvideLists(p) ==
    LET names == {p.loops[i] : i \in DOMAIN p.loops} IN
    /\ hash' = IF part = p THEN hash ELSE [h \in {Loop[l].hash : l \in names} |-> 0]
    /\ view' = [l \in names |-> Nothing]
    /\ choice' = [l \in names |-> FirstPage]

\* The state that setup and the provide functions create.
Provide(p) ==
    LET names == {p.loops[i] : i \in DOMAIN p.loops} IN
    /\ hash' = [h \in {Loop[l].hash : l \in names} |-> 0]
    /\ view' = [l \in names |-> Nothing]
    /\ choice' = [l \in names |-> FirstPage]

onMounted(p) ==
    /\ ~open /\ part \in {p, NoPart}
    /\ part' = p /\ open' = TRUE
    /\ Provide(p)
    /\ real' = FALSE
    /\ want' = [l \in DOMAIN choice' |-> [of |-> FirstPage, late |-> FALSE, stuck |-> FALSE]]
    /\ wire' = wire \o [i \in DOMAIN p.loops |-> Request(p.loops[i])]
    /\ timer' = {}
    /\ stray' = [l \in DOMAIN choice' |-> 0]
    /\ IF part = NoPart THEN /\ ghosts' = [l \in DOMAIN choice' |-> 0]
                             /\ source' = [l \in DOMAIN choice' |-> NewSource]
                        ELSE UNCHANGED <<ghosts, source>>
    /\ UNCHANGED did

Flying(l) == {i \in DOMAIN wire : wire[i].loop = l /\ ~wire[i].left}

\* Leaving: a timer that is not cleared, and each request under way, goes on.
Leave(cleared) ==
    /\ open /\ did.events < part.events
    /\ open' = FALSE /\ timer' = {} /\ stray' = [l \in Followed |-> 0]
    /\ ghosts' = [l \in Followed |->
                    ghosts[l] + stray[l] + (IF l \in timer \ cleared THEN 1 ELSE 0)]
    /\ wire' = [i \in DOMAIN wire |-> [wire[i] EXCEPT !.left = TRUE]]
    /\ did' = [did EXCEPT !.events = @ + 1,
                          !.flying = @ + Cardinality(UNION {Flying(l) : l \in Followed})]
    /\ UNCHANGED <<part, hash, real, view, choice, want, source>>

\* Mutant: the timers are not cleared.
onUnmountedRunning == Leave({})
onUnmounted == Leave(IF Here.clears THEN Followed ELSE {})

-----------------------------------------------------------------------------
(* The user *)

Choosing == open /\ did.events < part.events /\ did' = [did EXCEPT !.events = @ + 1]

\* handlePageChange, handleSort and the search field.  A page that is chosen
\* while a request is under way will be set back by its answer.
Choose(l, field) ==
    /\ Choosing /\ Loop[l].paged /\ field \in Here.offers
    /\ choice' = [choice EXCEPT ![l][field] = 3 - @]
    /\ want' = [want EXCEPT ![l] = [of |-> [@.of EXCEPT ![field] = choice'[l][field]],
                                   late |-> IF field = "page" THEN Flying(l) # {} ELSE @.late,
                                   stuck |-> @.stuck]]
    /\ UNCHANGED <<part, open, wire, timer, stray, ghosts, hash, real, view, source>>

\* The dialog with the connections opens and closes.
updateRealTime ==
    /\ Choosing /\ \E l \in Followed : Loop[l].hash \in {"hashcode", "hashcode1"}
    /\ real' = ~real
    /\ hash' = [h \in DOMAIN hash |-> IF h \in {"hashcode", "hashcode1"} THEN 0 ELSE hash[h]]
    /\ UNCHANGED <<part, open, wire, timer, stray, ghosts, view, choice, want, source>>

\* The switch of a machine turns into a spinner until the list comes again,
\* which it does if what was asked for changes something.
handleTuntap(l) ==
    /\ Choosing /\ Loop[l].switch /\ ~view[l].loading
    /\ view' = [view EXCEPT ![l].loading = TRUE]
    /\ \/ /\ source' = [source EXCEPT ![l].n = @ + 1]
          /\ UNCHANGED want
       \/ /\ want' = [want EXCEPT ![l].stuck = TRUE]
          /\ UNCHANGED source
    /\ UNCHANGED <<part, open, wire, timer, stray, ghosts, hash, real, choice>>

\* The update of the server is confirmed; a second later the loop starts again.
handleUpdate(l) ==
    /\ Choosing /\ Loop[l].again = "busy" /\ view[l].any /\ ~view[l].busy
    /\ stray' = [stray EXCEPT ![l] = @ + 1]
    /\ UNCHANGED <<part, open, wire, timer, ghosts, hash, real, view, choice, want, source>>

\* A plan is removed, and the list asked for at once: the timer is cleared, but
\* a request that is under way will set another one.
remove(l) ==
    /\ open /\ did.events < part.events /\ Loop[l].restarts
    /\ did' = [did EXCEPT !.events = @ + 1, !.flying = @ + Cardinality(Flying(l))]
    /\ timer' = timer \ {l}
    /\ UNCHANGED <<hash, choice>>
    /\ wire' = Append(wire, Request(l))
    /\ UNCHANGED <<part, open, stray, ghosts, real, view, want, source>>

-----------------------------------------------------------------------------

Change(l) ==
    /\ did.changes < MaxChanges /\ did' = [did EXCEPT !.changes = @ + 1]
    /\ \E new \in BOOLEAN, busy \in BOOLEAN :
          /\ new => Loop[l].frail
          /\ busy => Loop[l].again = "busy"
          /\ LET n == source[l].n + 1 IN
             source' = [source EXCEPT ![l] =
                          [n |-> n, busy |-> busy,
                           keys |-> IF new THEN @.keys \union {n} ELSE @.keys]]
    /\ UNCHANGED <<part, open, wire, timer, stray, ghosts, hash, real, view, choice, want>>

PollsInit ==
    /\ part = NoPart /\ open = FALSE /\ real = FALSE
    /\ wire = <<>> /\ timer = {}
    /\ stray = <<>> /\ ghosts = <<>> /\ hash = <<>>
    /\ view = <<>> /\ choice = <<>> /\ want = <<>> /\ source = <<>>
    /\ did = [changes |-> 0, events |-> 0, flying |-> 0]

PollsNext ==
    \/ \E p \in Parts : onMounted(p)
    \/ onUnmounted \/ Serve \/ Deliver \/ updateRealTime
    \/ \E l \in Followed :
          \/ Fire(l) \/ GhostPoll(l) \/ Change(l) \/ handleTuntap(l) \/ handleUpdate(l)
          \/ remove(l)
          \/ \E field \in {"page", "order", "key"} : Choose(l, field)

\* Timers fire, the server reads, and answers arrive.
PollsFairness ==
    /\ WF_pollVars(Serve) /\ WF_pollVars(Deliver)
    /\ \A i \in 1 .. 2 : WF_pollVars(i \in DOMAIN part.loops /\ Fire(part.loops[i]))

PollsSpec == PollsInit /\ [][PollsNext]_pollVars /\ PollsFairness

-----------------------------------------------------------------------------
(* Properties *)

\* Types of the variables.
PollsTypeOK ==
    /\ part \in Parts \union {NoPart} /\ open \in BOOLEAN /\ real \in BOOLEAN
    /\ \A i \in DOMAIN wire : wire[i].loop \in Followed /\ wire[i].left \in BOOLEAN
    /\ timer \subseteq Followed
    /\ stray \in [Followed -> Nat] /\ ghosts \in [Followed -> Nat]
    /\ hash \in [{Loop[l].hash : l \in Followed} -> Nat]
    /\ \A l \in Followed : /\ view[l].n \in Nat /\ source[l].n \in Nat
                           /\ choice[l] \in [{"page", "order", "key"} -> {1, 2}]

Chains(l) == (IF l \in timer THEN 1 ELSE 0) + stray[l] + Cardinality(Flying(l))
GhostChains ==
    Cardinality({i \in DOMAIN wire : wire[i].left})
        + Cardinality({g \in Followed \X (1 .. 9) : g[2] <= ghosts[g[1]]})

\* Answers, failures, choices and spinners neither end nor double a loop that is
\* to go on (removing a plan may double it); and what goes on after a component
\* was left is no more than the requests that were under way, in components that
\* clear their timers.
ChainsKept ==
    /\ open => \A l \in Followed :
                  Loop[l].again = "always" =>
                     IF Loop[l].restarts THEN Chains(l) >= 1 ELSE Chains(l) = 1
    /\ part # NoPart /\ Here.clears => GhostChains <= did.flying

\* A list whose hashcode is the version the machine has now is the list the
\* machine has now; if not, it would never be sent again.
HashTellsView ==
    \A l \in Followed :
       Loop[l].hash \notin {"none", "hashcode1"} /\ hash[Loop[l].hash] = source[l].n
          => view[l].n = source[l].n

Shows(l) == /\ view[l].n = source[l].n
            /\ Loop[l].paged => view[l].of = want[l].of
            /\ ~view[l].loading

\* What the loops do not promise: operations under way are put where nobody
\* looks; two lists share one hashcode; a new flow stops its table; a page
\* chosen while a request is under way is forgotten; a switch that fails spins
\* on; and loops that end.
Excused(l) ==
    \/ ~Loop[l].shows \/ Loop[l].again # "always"
    \/ Loop[l].hash = "hashcode1" /\ ~real /\ Len(part.loops) > 1
    \/ Loop[l].frail /\ source[l].keys # {}
    \/ want[l].late \/ want[l].stuck

\* A component that stays open ends up showing what the machine has to show,
\* of the page and in the order the user chose.
KeepsUp == []<>(open => \A l \in Followed : Excused(l) \/ Shows(l))
=============================================================================
