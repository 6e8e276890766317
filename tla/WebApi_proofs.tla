---------------------------- MODULE WebApi_proofs ----------------------------
(***************************************************************************)
(* Proofs about WebApi, for any websockets, request ids and loops, and any *)
(* number of faults and of changes of the configuration.                   *)
(***************************************************************************)
EXTENDS WebApi, FiniteSetTheorems, SequenceTheorems, TLAPS

ServerStates == [version : Nat, edits : Nat, run : Nat, faults : Nat]
Paths == LoopSet \union {"password"}
Asked == [id : Ids, path : Paths, arg : Nat \union BOOLEAN]
Bodies == [version : Nat, full : BOOLEAN, edits : Nat]
Told == {m \in [id : Ids, path : Paths, code : {"success", "error"}, body : Seq(Bodies)] :
            m.code = "success" /\ m.path # "password" => m.body # <<>>}

TypeInv == /\ ApiTypeOK
           /\ up \in [Sockets -> Seq(Asked)]
           /\ down \in [Sockets -> Seq(Told)]

(* The flags say whether the current websocket lives, and it is the only one
   that does; answers come from a server that was given the password. *)
ConnInv ==
    /\ \A s \in Sockets : phase[s] # "closed" => s = ws
    /\ Active <=> (ws # NoSocket /\ phase[ws] # "closed")
    /\ ws # NoSocket /\ ~Active => retry > 0
    /\ \A s \in Sockets : phase[s] = "closed" => down[s] = <<>>
    /\ \A s \in Sockets : down[s] # <<>> => session[s]
    /\ flags.connected => session[ws] /\ phase[ws] \in {"open", "closing"}

Configures(m) == m.code = "success" /\ m.path = "config"

(* Configurations come in the order the machine had them, none older than the
   page's, none newer than the machine's. *)
ViewInv ==
    /\ page.seen <= server.edits
    /\ \A s \in Sockets : \A i \in 1 .. Len(down[s]) :
          Configures(down[s][i]) =>
             /\ page.seen <= down[s][i].body[1].edits
             /\ down[s][i].body[1].edits <= server.edits
             /\ \A j \in 1 .. i : Configures(down[s][j]) =>
                   down[s][j].body[1].edits <= down[s][i].body[1].edits

-----------------------------------------------------------------------------
(* Requests *)

(* As many ids as requests can be drawn from the unused ones, all different. *)
LEMMA IdsAreDrawn ==
    ASSUME NEW k \in Nat, Cardinality(Unused) >= k
    PROVE  \E f \in [1 .. k -> Unused] : \A i, j \in 1 .. k : f[i] = f[j] => i = j
<1>1. IsFiniteSet(Unused)
  BY WebApiAssumption, FS_Subset DEF Unused
<1>2. Cardinality(Unused) \in Nat /\ ExistsBijection(1 .. Cardinality(Unused), Unused)
  BY <1>1, FS_CardinalityType
<1>3. PICK g \in Bijection(1 .. Cardinality(Unused), Unused) : TRUE
  BY <1>2 DEF ExistsBijection
<1>4. /\ g \in [1 .. Cardinality(Unused) -> Unused]
      /\ \A i, j \in 1 .. Cardinality(Unused) : g[i] = g[j] => i = j
  BY <1>3 DEF Bijection, Injection, IsInjective
<1> DEFINE f == [i \in 1 .. k |-> g[i]]
<1>5. f \in [1 .. k -> Unused] /\ \A i, j \in 1 .. k : f[i] = f[j] => i = j
  BY <1>2, <1>4
<1> QED BY <1>5

(* A request keeps the types of the table and of what travels. *)
LEMMA SendKeepsTypes ==
    ASSUME TypeInv,
           NEW table, table \subseteq [id : Ids, path : Paths],
           NEW paths \in Seq(Paths), NEW arg \in Nat \union BOOLEAN,
           sendWebsocketMsg(table, paths, arg)
    PROVE  /\ requests' \subseteq [id : Ids, path : Paths]
           /\ up' \in [Sockets -> Seq(Asked)]
<1> DEFINE Distinct(f) == \A i, j \in DOMAIN paths : f[i] = f[j] => i = j
           ids == CHOOSE f \in [DOMAIN paths -> Unused] : Distinct(f)
           news == [i \in DOMAIN paths |-> [id |-> ids[i], path |-> paths[i], arg |-> arg]]
<1>1. DOMAIN paths = 1 .. Len(paths) /\ Len(paths) \in Nat
  BY LenProperties
<1>2. \E f \in [DOMAIN paths -> Unused] : Distinct(f)
  BY <1>1, IdsAreDrawn DEF sendWebsocketMsg
<1>3. ids \in [DOMAIN paths -> Unused]
  BY <1>2
<1>4. \A i \in DOMAIN paths : ids[i] \in Ids /\ paths[i] \in Paths
  BY <1>1, <1>3 DEF Unused
<1> HIDE DEF ids
<1>5. news \in [1 .. Len(paths) -> Asked]
  BY <1>1, <1>4 DEF Asked
<1>6. news \in Seq(Asked)
  BY <1>1, <1>5, SeqDef
<1>7. requests' = table \union {[id |-> ids[i], path |-> paths[i]] : i \in DOMAIN paths}
  BY DEF sendWebsocketMsg, ids
<1>8. up' = IF phase'[ws] # "open" THEN up ELSE [up EXCEPT ![ws] = @ \o news]
  BY DEF sendWebsocketMsg, ids
<1>9. requests' \subseteq [id : Ids, path : Paths]
  BY <1>4, <1>7
<1>10. \A s \in Sockets : up[s] \o news \in Seq(Asked)
  BY <1>6, ConcatProperties DEF TypeInv
<1>11. up' \in [Sockets -> Seq(Asked)]
  <2> HIDE DEF news
  <2> QED BY <1>8, <1>10 DEF TypeInv
<1> QED BY <1>9, <1>11

LEMMA LoopsArePaths == Loops \in Seq(Paths) /\ <<"password">> \in Seq(Paths)
<1>1. DOMAIN Loops = 1 .. Len(Loops) /\ Len(Loops) \in Nat
  BY WebApiAssumption, LenProperties
<1>2. Loops \in [1 .. Len(Loops) -> Paths]
  BY <1>1, WebApiAssumption DEF Paths, LoopSet
<1> QED BY <1>1, <1>2, SeqDef DEF Paths

LEMMA TypeInit == ApiInit => TypeInv
<1> SUFFICES ASSUME ApiInit PROVE TypeInv
  OBVIOUS
<1>1. up \in [Sockets -> Seq(Asked)] /\ down \in [Sockets -> Seq(Told)]
  BY DEF ApiInit
<1>2. /\ page \in [hash : Nat, seen : Nat, run : Nat]
      /\ server \in ServerStates
      /\ flags \in [connected : BOOLEAN, connecting : BOOLEAN]
  BY DEF ApiInit, Disconnected, ServerStates
<1> QED BY <1>1, <1>2 DEF ApiInit, TypeInv, ApiTypeOK, ServerStates

LEMMA RearmKeepsTypes ==
    ASSUME TypeInv, NEW path, Rearm(path)
    PROVE  timers' \in [LoopSet -> Nat]
BY DEF TypeInv, ApiTypeOK, Rearm

(* initWebsocket keeps the types. *)
LEMMA InitKeepsTypes ==
    ASSUME TypeInv, NEW ph \in [Sockets -> {"opening", "open", "closing", "closed"}],
           initWebsocket(ph)
    PROVE  /\ phase' \in [Sockets -> {"opening", "open", "closing", "closed"}]
           /\ ws' \in Sockets \union {NoSocket}
           /\ flags' \in [connected : BOOLEAN, connecting : BOOLEAN]
           /\ session' \in [Sockets -> BOOLEAN]
<1>1. CASE Active
  BY <1>1 DEF initWebsocket, TypeInv, ApiTypeOK
<1>2. CASE ~Active
  <2>1. closeWebsocket \in [Sockets -> {"opening", "open", "closing", "closed"}]
    BY DEF closeWebsocket, TypeInv, ApiTypeOK
  <2>2. ws' \in Fresh
    BY <1>2 DEF initWebsocket
  <2>3. ws' \in Sockets
    BY <2>2 DEF Fresh
  <2>4. /\ phase' = [s \in Sockets |-> IF s = ws' THEN "opening"
                                      ELSE IF s = ws THEN closeWebsocket[s] ELSE ph[s]]
        /\ flags' = [flags EXCEPT !.connecting = TRUE]
        /\ session' = [session EXCEPT ![ws'] = FALSE]
    BY <1>2 DEF initWebsocket
  <2> QED BY <2>1, <2>3, <2>4 DEF TypeInv, ApiTypeOK
<1> QED BY <1>1, <1>2

(* What happens to the machine keeps its types. *)
LEMMA MachineTypes ==
    ASSUME NEW srv \in ServerStates
    PROVE  /\ [srv EXCEPT !.faults = @ + 1] \in ServerStates
           /\ [srv EXCEPT !.version = @ + 1, !.edits = @ + 1] \in ServerStates
           /\ [srv EXCEPT !.version = 1, !.run = @ + 1, !.faults = @ + 1] \in ServerStates
<1>1. [srv EXCEPT !.faults = @ + 1] \in ServerStates
  BY DEF ServerStates
<1>2. \A a, b \in Nat : [srv EXCEPT !.version = a, !.edits = b] \in ServerStates
  BY DEF ServerStates
<1>3. \A a, b, c \in Nat : [srv EXCEPT !.version = a, !.run = b, !.faults = c] \in ServerStates
  BY DEF ServerStates
<1>4. srv.version + 1 \in Nat /\ srv.edits + 1 \in Nat /\ srv.run + 1 \in Nat
      /\ srv.faults + 1 \in Nat
  BY DEF ServerStates
<1> QED BY <1>1, <1>2, <1>3, <1>4

LEMMA MachineTyped == TypeInv => server \in ServerStates
BY DEF TypeInv, ApiTypeOK, ServerStates

(* Every step keeps the types. *)
LEMMA TypeStep == TypeInv /\ [ApiNext]_apiVars => TypeInv'
<1> SUFFICES ASSUME TypeInv, [ApiNext]_apiVars PROVE TypeInv'
  OBVIOUS
<1> USE WebApiAssumption
<1>1. CASE handleConnect
  <2>1. closeWebsocket \in [Sockets -> {"opening", "open", "closing", "closed"}]
    BY DEF closeWebsocket, TypeInv, ApiTypeOK
  <2>2. initWebsocket(closeWebsocket)
    BY <1>1 DEF handleConnect
  <2>3. /\ phase' \in [Sockets -> {"opening", "open", "closing", "closed"}]
        /\ ws' \in Sockets \union {NoSocket}
        /\ flags' \in [connected : BOOLEAN, connecting : BOOLEAN]
        /\ session' \in [Sockets -> BOOLEAN]
    BY <2>1, <2>2, InitKeepsTypes
  <2>4. server' \in ServerStates
    BY <1>1, MachineTypes, MachineTyped DEF handleConnect
  <2>5. prompt' \in BOOLEAN /\ psd' \in BOOLEAN
    BY <1>1 DEF handleConnect, TypeInv, ApiTypeOK
  <2>6. page' \in [hash : Nat, seen : Nat, run : Nat]
    BY <1>1 DEF handleConnect, TypeInv, ApiTypeOK
  <2> QED BY <1>1, <2>3, <2>4, <2>5, <2>6 DEF handleConnect, TypeInv, ApiTypeOK, ServerStates
<1>2. CASE RetryTimer
  <2>1. initWebsocket(phase)
    BY <1>2 DEF RetryTimer
  <2> QED BY <1>2, <2>1, InitKeepsTypes DEF RetryTimer, TypeInv, ApiTypeOK
<1>3. CASE Reload
  <2>1. server' \in ServerStates
    BY <1>3, MachineTypes, MachineTyped DEF Reload
  <2>2. up' \in [Sockets -> Seq(Asked)] /\ down' \in [Sockets -> Seq(Told)]
    BY <1>3 DEF Reload
  <2>3. ws' \in Sockets \union {NoSocket} /\ flags' \in [connected : BOOLEAN, connecting : BOOLEAN]
    BY <1>3 DEF Reload, Disconnected
  <2>4. page' \in [hash : Nat, seen : Nat, run : Nat] /\ timers' \in [LoopSet -> Nat]
    BY <1>3 DEF Reload
  <2> QED BY <1>3, <2>1, <2>2, <2>3, <2>4 DEF Reload, TypeInv, ApiTypeOK, ServerStates
<1>4. ASSUME NEW s \in Sockets, onWebsocketOpen(s) PROVE TypeInv'
  <2>1. /\ sendWebsocketMsg(requests, <<"password">>, psd)
        /\ phase' = [phase EXCEPT ![s] = "open"]
        /\ UNCHANGED <<ws, flags, retry, psd, down, session, timers, opened, page,
                       server, prompt>>
    BY <1>4 DEF onWebsocketOpen
  <2>2. requests \subseteq [id : Ids, path : Paths] /\ psd \in Nat \union BOOLEAN
    BY DEF TypeInv, ApiTypeOK, Paths
  <2>3. requests' \subseteq [id : Ids, path : Paths] /\ up' \in [Sockets -> Seq(Asked)]
    BY <2>1, <2>2, SendKeepsTypes, LoopsArePaths
  <2> QED BY <2>1, <2>3 DEF TypeInv, ApiTypeOK, Paths
<1>5. ASSUME NEW s \in Sockets, onWebsocketClose(s) PROVE TypeInv'
  BY <1>5 DEF onWebsocketClose, TypeInv, ApiTypeOK, Disconnected
<1>6. ASSUME NEW s \in Sockets, pushMessage(s) PROVE TypeInv'
  <2> DEFINE m == Head(down[s])
             callbacks == {r \in requests : r.id = m.id}
  <2>1. /\ phase[s] = "open" /\ down[s] # <<>>
        /\ down' = [down EXCEPT ![s] = Tail(@)]
        /\ UNCHANGED <<ws, retry, psd, session, server, prompt>>
    BY <1>6 DEF pushMessage
  <2>2. m \in Told /\ Tail(down[s]) \in Seq(Told)
    BY <2>1, HeadTailProperties DEF TypeInv
  <2>3. down' \in [Sockets -> Seq(Told)]
    BY <2>1, <2>2 DEF TypeInv
  <2>4. requests \ callbacks \subseteq [id : Ids, path : Paths]
    BY DEF TypeInv, ApiTypeOK, Paths
  <2> HIDE DEF m, callbacks
  <2>5. CASE Unexpected
    BY <2>1, <2>3, <2>5 DEF Unexpected, TypeInv, ApiTypeOK
  <2>6. CASE Connected(m, callbacks)
    <3>1. /\ sendWebsocketMsg(requests \ callbacks, Loops, page.hash)
          /\ flags' = [connected |-> TRUE, connecting |-> FALSE]
          /\ opened' = opened + 1
          /\ UNCHANGED <<timers, page, phase>>
      BY <2>6 DEF Connected
    <3>2. page.hash \in Nat \union BOOLEAN
      BY DEF TypeInv, ApiTypeOK
    <3>3. requests' \subseteq [id : Ids, path : Paths] /\ up' \in [Sockets -> Seq(Asked)]
      BY <2>4, <3>1, <3>2, SendKeepsTypes, LoopsArePaths
    <3>4. flags' \in [connected : BOOLEAN, connecting : BOOLEAN] /\ opened' \in Nat
      BY <3>1 DEF TypeInv, ApiTypeOK
    <3>5. UNCHANGED <<phase, ws, retry, psd, session, timers, page, server, prompt>>
      BY <2>1, <3>1
    <3> QED BY <2>3, <3>3, <3>4, <3>5 DEF TypeInv, ApiTypeOK, Paths
  <2>7. CASE Answered(m, callbacks) /\ m.path # "password"
    <3>1. timers' \in [LoopSet -> Nat]
      BY <2>7, RearmKeepsTypes DEF Answered
    <3>2. page' \in [hash : Nat, seen : Nat, run : Nat]
      <4>1. CASE Configures(m)
        <5>1. m.body[1] \in Bodies
          BY <2>2, <2>7, <4>1 DEF Told, Configures
        <5>2. AdoptConfig(m.body[1])
          BY <2>7, <4>1 DEF Answered, Configures
        <5> QED BY <5>1, <5>2 DEF AdoptConfig, Bodies, TypeInv, ApiTypeOK
      <4>2. CASE ~Configures(m)
        BY <2>7, <4>2 DEF Answered, Configures, TypeInv, ApiTypeOK
      <4> QED BY <4>1, <4>2
    <3> QED BY <2>1, <2>3, <2>4, <2>7, <3>1, <3>2 DEF Answered, TypeInv, ApiTypeOK, Paths
  <2> QED BY <1>6, <2>5, <2>6, <2>7 DEF pushMessage, m, callbacks
<1>7. ASSUME NEW s \in Sockets, HandleWs(s) PROVE TypeInv'
  <2> DEFINE m == Head(up[s])
  <2>1. /\ phase[s] = "open" /\ up[s] # <<>>
        /\ up' = [up EXCEPT ![s] = Tail(@)]
        /\ UNCHANGED <<pageVars, prompt>>
    BY <1>7 DEF HandleWs
  <2>2. m \in Asked /\ Tail(up[s]) \in Seq(Asked)
    BY <2>1, HeadTailProperties DEF TypeInv
  <2>3. up' \in [Sockets -> Seq(Asked)]
    BY <2>1, <2>2 DEF TypeInv
  <2> HIDE DEF m
  <2>4. /\ Answer(m, "error", <<>>) \in Told
        /\ m.path = "password" => Answer(m, "success", <<>>) \in Told
        /\ Answer(m, "success", <<Get(m.arg)>>) \in Told
    <3>1. <<>> \in Seq(Bodies)
      OBVIOUS
    <3>2. Get(m.arg) \in Bodies
      BY DEF Get, Bodies, TypeInv, ApiTypeOK
    <3>3. <<Get(m.arg)>> \in Seq(Bodies) /\ <<Get(m.arg)>> # <<>>
      BY <3>2
    <3> QED BY <2>2, <3>1, <3>3 DEF Answer, Asked, Told
  <2>5. CASE CheckPassword(s, m)
    <3>1. down' \in [Sockets -> Seq(Told)]
      <4>1. \/ UNCHANGED down
            \/ \E a \in Told : down' = [down EXCEPT ![s] = Append(@, a)]
        BY <2>4, <2>5 DEF CheckPassword
      <4>2. \A a \in Told : Append(down[s], a) \in Seq(Told)
        BY AppendProperties DEF TypeInv
      <4> QED BY <4>1, <4>2 DEF TypeInv
    <3> QED BY <2>1, <2>3, <2>5, <3>1 DEF CheckPassword, TypeInv, ApiTypeOK, pageVars
  <2>6. CASE OnMessage(s, m)
    <3>1. down' \in [Sockets -> Seq(Told)]
      <4>1. \/ UNCHANGED down
            \/ \E a \in Told : down' = [down EXCEPT ![s] = Append(@, a)]
        BY <2>4, <2>6 DEF OnMessage
      <4>2. \A a \in Told : Append(down[s], a) \in Seq(Told)
        BY AppendProperties DEF TypeInv
      <4> QED BY <4>1, <4>2 DEF TypeInv
    <3>2. server' \in ServerStates
      BY <2>6, MachineTypes, MachineTyped DEF OnMessage
    <3> QED BY <2>1, <2>3, <2>6, <3>1, <3>2 DEF OnMessage, TypeInv, ApiTypeOK, ServerStates, pageVars
  <2> QED BY <1>7, <2>5, <2>6 DEF HandleWs, m
<1>8. ASSUME NEW s \in Sockets, Break(s) PROVE TypeInv'
  <2>1. server' \in ServerStates
    BY <1>8, MachineTypes, MachineTyped DEF Break
  <2>2. phase' \in [Sockets -> {"opening", "open", "closing", "closed"}]
    BY <1>8 DEF Break, TypeInv, ApiTypeOK
  <2> QED BY <1>8, <2>1, <2>2 DEF Break, TypeInv, ApiTypeOK, ServerStates, pageVars
<1>9. ASSUME NEW l \in LoopSet, Poll(l) PROVE TypeInv'
  <2>1. /\ sendWebsocketMsg(requests, <<l>>, page.hash)
        /\ timers[l] > 0 /\ timers' = [timers EXCEPT ![l] = @ - 1]
        /\ UNCHANGED <<phase, ws, flags, retry, psd, down, session, opened, page, server, prompt>>
    BY <1>9 DEF Poll
  <2>2. /\ requests \subseteq [id : Ids, path : Paths] /\ page.hash \in Nat \union BOOLEAN
        /\ <<l>> \in Seq(Paths)
    BY DEF TypeInv, ApiTypeOK, Paths
  <2>3. requests' \subseteq [id : Ids, path : Paths] /\ up' \in [Sockets -> Seq(Asked)]
    BY <2>1, <2>2, SendKeepsTypes
  <2>4. timers' \in [LoopSet -> Nat]
    BY <2>1 DEF TypeInv, ApiTypeOK
  <2> QED BY <2>1, <2>3, <2>4 DEF TypeInv, ApiTypeOK, Paths
<1>10. ASSUME NEW r \in requests, sendTimeout(r) PROVE TypeInv'
  <2>1. timers' \in [LoopSet -> Nat]
    BY <1>10, RearmKeepsTypes DEF sendTimeout
  <2>2. server' \in ServerStates
    BY <1>10, MachineTypes, MachineTyped DEF sendTimeout
  <2> QED BY <1>10, <2>1, <2>2 DEF sendTimeout, TypeInv, ApiTypeOK, ServerStates, netVars
<1>11. CASE EditConfig
  <2>1. server' \in ServerStates
    BY <1>11, MachineTypes, MachineTyped DEF EditConfig
  <2> QED BY <1>11, <2>1 DEF EditConfig, TypeInv, ApiTypeOK, ServerStates, pageVars, netVars
<1>12. CASE Restart
  <2>1. server' \in ServerStates
    BY <1>12, MachineTypes, MachineTyped DEF Restart
  <2>2. phase' \in [Sockets -> {"opening", "open", "closing", "closed"}]
    BY <1>12 DEF Restart, TypeInv, ApiTypeOK
  <2> QED BY <1>12, <2>1, <2>2 DEF Restart, TypeInv, ApiTypeOK, ServerStates, pageVars
<1>13. CASE UNCHANGED apiVars
  BY <1>13 DEF apiVars, pageVars, netVars, TypeInv, ApiTypeOK
<1> QED BY <1>1, <1>2, <1>3, <1>4, <1>5, <1>6, <1>7, <1>8, <1>9, <1>10, <1>11, <1>12, <1>13
        DEF ApiNext

THEOREM TypeCorrect == ApiSpec => []ApiTypeOK
<1>1. TypeInv => ApiTypeOK
  BY DEF TypeInv
<1> QED BY <1>1, TypeInit, TypeStep, PTL DEF ApiSpec

-----------------------------------------------------------------------------
(* The connection *)

LEMMA ConnInit == ApiInit => ConnInv
BY DEF ApiInit, ConnInv, Active, Disconnected, NoSocket

(* initWebsocket leaves a current websocket that lives, and no other. *)
LEMMA InitKeepsConn ==
    ASSUME TypeInv, ConnInv, NEW ph, ph = phase \/ ph = closeWebsocket,
           initWebsocket(ph), UNCHANGED down
    PROVE  ConnInv' /\ Active'
<1> USE WebApiAssumption
<1>1. \A s \in Sockets : /\ ph[s] = "closed" <=> phase[s] = "closed"
                         /\ phase[s] \in {"open", "closing"} => ph[s] \in {"open", "closing"}
  BY DEF closeWebsocket, Live, TypeInv, ApiTypeOK
<1>2. CASE Active
  <2>1. phase' = ph /\ UNCHANGED <<ws, flags, session>>
    BY <1>2 DEF initWebsocket
  <2>2. ws \in Sockets
    BY <1>2 DEF ConnInv, TypeInv, ApiTypeOK
  <2> QED BY <1>1, <1>2, <2>1, <2>2 DEF ConnInv, Active
<1>3. CASE ~Active
  <2>1. \A s \in Sockets : phase[s] = "closed" /\ down[s] = <<>>
    BY <1>3 DEF ConnInv, NoSocket
  <2>2. ~flags.connected
    BY <1>3 DEF Active
  <2>3. /\ ws' \in Fresh
        /\ phase' = [s \in Sockets |-> IF s = ws' THEN "opening"
                                       ELSE IF s = ws THEN closeWebsocket[s] ELSE ph[s]]
        /\ flags' = [flags EXCEPT !.connecting = TRUE]
    BY <1>3 DEF initWebsocket
  <2>4. ws' \in Sockets
    BY <2>3 DEF Fresh
  <2>5. \A s \in Sockets : closeWebsocket[s] = "closed"
    BY <2>1 DEF closeWebsocket, Live
  <2>6. flags'.connecting /\ ~flags'.connected
    BY <2>2, <2>3 DEF TypeInv, ApiTypeOK
  <2> QED BY <1>1, <2>1, <2>3, <2>4, <2>5, <2>6 DEF ConnInv, Active, NoSocket
<1> QED BY <1>2, <1>3

LEMMA ConnStep == TypeInv /\ ConnInv /\ [ApiNext]_apiVars => ConnInv'
<1> SUFFICES ASSUME TypeInv, ConnInv, [ApiNext]_apiVars PROVE ConnInv'
  OBVIOUS
<1> USE WebApiAssumption
<1>0. ASSUME NEW s \in Sockets, phase[s] # "closed"
      PROVE  s = ws /\ Active /\ ws # NoSocket
  BY <1>0 DEF ConnInv, NoSocket
<1>1. CASE handleConnect
  <2>1. initWebsocket(closeWebsocket) /\ UNCHANGED down
    BY <1>1 DEF handleConnect
  <2> QED BY <2>1, InitKeepsConn
<1>2. CASE RetryTimer
  <2>1. initWebsocket(phase) /\ UNCHANGED down
    BY <1>2 DEF RetryTimer
  <2> QED BY <2>1, InitKeepsConn
<1>3. CASE Reload
  BY <1>3 DEF Reload, ConnInv, Active, NoSocket, Disconnected
<1>4. ASSUME NEW s \in Sockets, onWebsocketOpen(s) PROVE ConnInv'
  <2>1. /\ phase[s] = "opening" /\ phase' = [phase EXCEPT ![s] = "open"]
        /\ UNCHANGED <<ws, flags, retry, down, session>>
    BY <1>4 DEF onWebsocketOpen
  <2> QED BY <1>0, <2>1 DEF ConnInv, Active, TypeInv, ApiTypeOK
<1>5. ASSUME NEW s \in Sockets, onWebsocketClose(s) PROVE ConnInv'
  BY <1>0, <1>5 DEF onWebsocketClose, ConnInv, Active, Disconnected, TypeInv, ApiTypeOK
<1>6. ASSUME NEW s \in Sockets, pushMessage(s) PROVE ConnInv'
  <2>1. /\ phase[s] = "open" /\ down[s] # <<>>
        /\ down' = [down EXCEPT ![s] = Tail(@)]
        /\ UNCHANGED <<phase, ws, retry, session>>
    BY <1>6 DEF pushMessage, Unexpected, Connected, Answered
  <2>2. flags' = flags \/ flags' = [connected |-> TRUE, connecting |-> FALSE]
    BY <1>6 DEF pushMessage, Unexpected, Connected, Answered
  <2>3. s = ws /\ Active /\ Active' /\ session[ws]
    BY <1>0, <2>1, <2>2 DEF ConnInv, Active
  <2> QED BY <2>1, <2>2, <2>3 DEF ConnInv, TypeInv, ApiTypeOK
<1>7. ASSUME NEW s \in Sockets, HandleWs(s) PROVE ConnInv'
  <2> DEFINE m == Head(up[s])
  <2>1. phase[s] = "open" /\ UNCHANGED <<ws, flags, retry>>
    BY <1>7 DEF HandleWs, pageVars
  <2>2. s = ws /\ Active /\ Active'
    BY <1>0, <2>1 DEF Active
  <2>3. /\ \A t \in Sockets : (phase'[t] = "closed") <=> (phase[t] = "closed")
        /\ phase'[s] \in {"open", "closing"}
        /\ \A t \in Sockets \ {s} : down'[t] = down[t] /\ session'[t] = session[t]
        /\ session[s] => session'[s]
        /\ down'[s] # <<>> => session'[s]
    <3>1. CASE CheckPassword(s, m)
      BY <2>1, <3>1 DEF CheckPassword, ConnInv, TypeInv, ApiTypeOK
    <3>2. CASE OnMessage(s, m)
      BY <2>1, <3>2 DEF OnMessage, TypeInv, ApiTypeOK
    <3> QED BY <1>7, <3>1, <3>2 DEF HandleWs
  <2> QED BY <2>1, <2>2, <2>3 DEF ConnInv
<1>8. ASSUME NEW s \in Sockets, Break(s) PROVE ConnInv'
  <2>1. /\ phase[s] \in {"opening", "open"} /\ phase' = [phase EXCEPT ![s] = "closing"]
        /\ UNCHANGED <<ws, flags, retry, down, session>>
    BY <1>8 DEF Break, Live, pageVars
  <2> QED BY <1>0, <2>1 DEF ConnInv, Active, TypeInv, ApiTypeOK
<1>9. ASSUME NEW l \in LoopSet, Poll(l) PROVE ConnInv'
  BY <1>9 DEF Poll, ConnInv, Active
<1>10. ASSUME NEW r \in requests, sendTimeout(r) PROVE ConnInv'
  BY <1>10 DEF sendTimeout, ConnInv, Active, netVars
<1>11. CASE EditConfig
  BY <1>11 DEF EditConfig, ConnInv, Active, pageVars, netVars
<1>12. CASE Restart
  <2>1. /\ phase' = [s \in Sockets |-> IF s \in Live THEN "closing" ELSE phase[s]]
        /\ UNCHANGED <<ws, flags, retry, down, session>>
    BY <1>12 DEF Restart, pageVars
  <2>2. \A s \in Sockets : /\ (phase'[s] = "closed") <=> (phase[s] = "closed")
                           /\ phase[s] \in {"open", "closing"} => phase'[s] = "closing"
    BY <2>1 DEF Live, TypeInv, ApiTypeOK
  <2>3. ws # NoSocket => ws \in Sockets
    BY DEF TypeInv, ApiTypeOK
  <2>4. flags.connected => ws # NoSocket
    BY DEF ConnInv, Active
  <2> QED BY <2>1, <2>2, <2>3, <2>4 DEF ConnInv, Active
<1>13. CASE UNCHANGED apiVars
  BY <1>13 DEF apiVars, pageVars, netVars, ConnInv, Active
<1> QED BY <1>1, <1>2, <1>3, <1>4, <1>5, <1>6, <1>7, <1>8, <1>9, <1>10, <1>11, <1>12, <1>13
        DEF ApiNext

(* The handlers that all websockets share never serve two that live. *)
THEOREM OneSocketLives == ApiSpec => []OneSocket
<1>1. ConnInv => OneSocket
  BY DEF ConnInv, OneSocket
<1> QED BY <1>1, TypeInit, TypeStep, ConnInit, ConnStep, PTL DEF ApiSpec

(* Connected means accepted by the server, on the current websocket. *)
THEOREM ConnectedMeansAccepted == ApiSpec => []ConnectedIsAccepted
<1>1. ConnInv => ConnectedIsAccepted
  BY DEF ConnInv, ConnectedIsAccepted, Active
<1> QED BY <1>1, TypeInit, TypeStep, ConnInit, ConnStep, PTL DEF ApiSpec

(* A page without a connection has a timer or a websocket that brings it back. *)
THEOREM AlwaysComesBack == ApiSpec => []NeverGivesUp
<1>1. ConnInv => NeverGivesUp
  BY DEF ConnInv, NeverGivesUp
<1> QED BY <1>1, TypeInit, TypeStep, ConnInit, ConnStep, PTL DEF ApiSpec

-----------------------------------------------------------------------------
(* The configuration *)

LEMMA ViewInit == ApiInit => ViewInv
BY DEF ApiInit, ViewInv

(* What is under way keeps its order when it is not touched, when it is lost,
   and when the machine adds its configuration of now. *)
LEMMA ViewUntouched ==
    ASSUME TypeInv, ViewInv, UNCHANGED <<page.seen, server.edits>>,
           \A s \in Sockets : down'[s] = down[s] \/ down'[s] = <<>>
    PROVE  ViewInv'
BY DEF ViewInv

LEMMA ViewAppended ==
    ASSUME TypeInv, ViewInv, UNCHANGED <<page.seen, server.edits>>,
           NEW s \in Sockets, NEW a \in Told, down' = [down EXCEPT ![s] = Append(@, a)],
           Configures(a) => a.body[1].edits = server.edits
    PROVE  ViewInv'
<1> DEFINE n == Len(down[s])
<1>1. n \in Nat /\ down[s] \in Seq(Told)
  BY DEF TypeInv
<1>2. down'[s] = Append(down[s], a) /\ \A t \in Sockets \ {s} : down'[t] = down[t]
  BY DEF TypeInv
<1>3. /\ Len(down'[s]) = n + 1 /\ down'[s][n + 1] = a
      /\ \A i \in 1 .. n : down'[s][i] = down[s][i]
  BY <1>1, <1>2, AppendProperties
<1>4. page.seen <= server.edits /\ server.edits \in Nat /\ page.seen \in Nat
  BY DEF ViewInv, TypeInv, ApiTypeOK
<1>5. ASSUME NEW i \in 1 .. n + 1, Configures(down'[s][i])
      PROVE  /\ page.seen <= down'[s][i].body[1].edits
             /\ down'[s][i].body[1].edits <= server.edits
             /\ \A j \in 1 .. i : Configures(down'[s][j]) =>
                   down'[s][j].body[1].edits <= down'[s][i].body[1].edits
  <2>1. CASE i \in 1 .. n
    BY <1>1, <1>3, <1>5, <2>1 DEF ViewInv
  <2>2. CASE i = n + 1
    <3>1. down'[s][i].body[1].edits = server.edits
      BY <1>3, <1>5, <2>2
    <3>2. ASSUME NEW j \in 1 .. i, Configures(down'[s][j])
          PROVE  down'[s][j].body[1].edits <= server.edits
      <4>1. CASE j = n + 1
        BY <1>4, <2>2, <3>1, <4>1
      <4>2. CASE j \in 1 .. n
        BY <1>3, <3>2, <4>2 DEF ViewInv
      <4> QED BY <1>1, <2>2, <4>1, <4>2
    <3> QED BY <1>4, <3>1, <3>2
  <2> QED BY <1>1, <2>1, <2>2
<1> QED BY <1>2, <1>3, <1>4, <1>5 DEF ViewInv, Configures

(* An answer changes the page only if it brings a configuration. *)
LEMMA ReadAdopts ==
    ASSUME NEW s \in Sockets, pushMessage(s)
    PROVE  \/ page' = page
           \/ Configures(Head(down[s])) /\ AdoptConfig(Head(down[s]).body[1])
<1> DEFINE m == Head(down[s])
           callbacks == {r \in requests : r.id = m.id}
<1> HIDE DEF m, callbacks
<1>1. CASE Unexpected \/ Connected(m, callbacks)
  BY <1>1 DEF Unexpected, Connected
<1>2. CASE Answered(m, callbacks)
  BY <1>2 DEF Answered, Configures, m
<1> QED BY <1>1, <1>2 DEF pushMessage, m, callbacks

(* Reading the first answer of the one websocket that has some. *)
LEMMA ViewRead ==
    ASSUME TypeInv, ConnInv, ViewInv, NEW s \in Sockets, pushMessage(s)
    PROVE  /\ ViewInv'
           /\ page.seen <= page'.seen /\ page'.seen <= server.edits
<1> USE WebApiAssumption
<1> DEFINE m == Head(down[s])
<1>1. /\ phase[s] = "open" /\ down[s] # <<>> /\ down' = [down EXCEPT ![s] = Tail(@)]
      /\ UNCHANGED server
  BY DEF pushMessage
<1>2. \A t \in Sockets \ {s} : down[t] = <<>> /\ down'[t] = <<>>
  BY <1>1 DEF ConnInv, TypeInv
<1>3. /\ down[s] \in Seq(Told) /\ Len(down[s]) \in Nat /\ Len(down[s]) > 0
      /\ m = down[s][1] /\ m \in Told
  BY <1>1, HeadTailProperties DEF TypeInv
<1>4. /\ down'[s] = Tail(down[s]) /\ Len(down'[s]) = Len(down[s]) - 1
      /\ \A i \in 1 .. Len(down'[s]) : down'[s][i] = down[s][i + 1]
  BY <1>1, <1>3, HeadTailProperties DEF TypeInv
<1>5. page.seen \in Nat /\ server.edits \in Nat /\ page.seen <= server.edits
  BY DEF ViewInv, TypeInv, ApiTypeOK
<1>6. \/ page' = page
      \/ /\ Configures(m)
         /\ page'.seen = page.seen \/ page'.seen = m.body[1].edits
  BY ReadAdopts DEF AdoptConfig, TypeInv, ApiTypeOK
<1>7. Configures(m) => page.seen <= m.body[1].edits /\ m.body[1].edits <= server.edits
  BY <1>3 DEF ViewInv
<1>8. page.seen <= page'.seen /\ page'.seen <= server.edits
  BY <1>5, <1>6, <1>7
<1>9. ASSUME NEW i \in 1 .. Len(down'[s]), Configures(down'[s][i])
      PROVE  /\ page'.seen <= down'[s][i].body[1].edits
             /\ down'[s][i].body[1].edits <= server.edits
             /\ \A j \in 1 .. i : Configures(down'[s][j]) =>
                   down'[s][j].body[1].edits <= down'[s][i].body[1].edits
  <2>1. i + 1 \in 1 .. Len(down[s]) /\ down'[s][i] = down[s][i + 1]
    BY <1>3, <1>4
  <2>2. /\ page.seen <= down[s][i + 1].body[1].edits
        /\ down[s][i + 1].body[1].edits <= server.edits
        /\ \A j \in 1 .. i + 1 : Configures(down[s][j]) =>
              down[s][j].body[1].edits <= down[s][i + 1].body[1].edits
    BY <1>9, <2>1 DEF ViewInv
  <2>3. Configures(m) => m.body[1].edits <= down[s][i + 1].body[1].edits
    BY <1>3, <2>2
  <2>4. page'.seen <= down'[s][i].body[1].edits
    BY <1>6, <2>1, <2>2, <2>3
  <2>5. ASSUME NEW j \in 1 .. i, Configures(down'[s][j])
        PROVE  down'[s][j].body[1].edits <= down'[s][i].body[1].edits
    <3>1. j + 1 \in 1 .. i + 1 /\ down'[s][j] = down[s][j + 1]
      BY <1>3, <1>4
    <3> QED BY <2>1, <2>2, <2>5, <3>1
  <2> QED BY <2>1, <2>2, <2>4, <2>5
<1>10. ViewInv'
  <2>1. page'.seen <= server'.edits
    BY <1>1, <1>8
  <2>2. \A t \in Sockets \ {s} : Len(down'[t]) = 0
    BY <1>2
  <2>3. ASSUME NEW t \in Sockets, NEW i \in 1 .. Len(down'[t]), Configures(down'[t][i])
        PROVE  /\ page'.seen <= down'[t][i].body[1].edits
               /\ down'[t][i].body[1].edits <= server'.edits
               /\ \A j \in 1 .. i : Configures(down'[t][j]) =>
                     down'[t][j].body[1].edits <= down'[t][i].body[1].edits
    <3>1. t = s
      BY <2>2, <2>3
    <3> QED BY <1>1, <1>9, <2>3, <3>1
  <2> QED BY <2>1, <2>3 DEF ViewInv, Configures
<1> QED BY <1>8, <1>10

(* What a step does to the two configurations. *)
ViewMoves ==
    \/ UNCHANGED <<page.seen, server.edits>>
    \/ page'.seen = 0 /\ UNCHANGED server.edits
    \/ /\ page.seen <= page'.seen /\ page'.seen <= server.edits
       /\ UNCHANGED server.edits
    \/ server'.edits = server.edits + 1 /\ UNCHANGED page.seen

LEMMA ViewStep == TypeInv /\ ConnInv /\ ViewInv /\ [ApiNext]_apiVars => ViewInv' /\ ViewMoves
<1> SUFFICES ASSUME TypeInv, ConnInv, ViewInv, [ApiNext]_apiVars PROVE ViewInv' /\ ViewMoves
  OBVIOUS
<1>1. ASSUME UNCHANGED <<page.seen, server.edits, down>> PROVE ViewInv' /\ ViewMoves
  BY <1>1, ViewUntouched DEF ViewMoves
<1>2. ASSUME NEW s \in Sockets, onWebsocketClose(s) PROVE ViewInv' /\ ViewMoves
  <2>1. /\ UNCHANGED <<page.seen, server.edits>>
        /\ \A t \in Sockets : down'[t] = down[t] \/ down'[t] = <<>>
    BY <1>2 DEF onWebsocketClose, TypeInv
  <2> QED BY <2>1, ViewUntouched DEF ViewMoves
<1>3. ASSUME NEW s \in Sockets, pushMessage(s) PROVE ViewInv' /\ ViewMoves
  <2>1. UNCHANGED server.edits
    BY <1>3 DEF pushMessage
  <2> QED BY <1>3, <2>1, ViewRead DEF ViewMoves
<1>4. CASE Reload
  <2>1. /\ page'.seen = 0 /\ UNCHANGED server.edits
        /\ \A s \in Sockets : down'[s] = <<>>
    BY <1>4 DEF Reload, TypeInv, ApiTypeOK
  <2>2. server.edits \in Nat
    BY DEF TypeInv, ApiTypeOK
  <2> QED BY <2>1, <2>2 DEF ViewInv, ViewMoves
<1>5. CASE EditConfig
  <2>1. server'.edits = server.edits + 1 /\ UNCHANGED <<page, down>>
    BY <1>5 DEF EditConfig, pageVars, netVars, TypeInv, ApiTypeOK
  <2>2. server.edits \in Nat /\ page.seen \in Nat
    BY DEF TypeInv, ApiTypeOK
  <2>3. ASSUME NEW s \in Sockets, NEW i \in 1 .. Len(down[s]), Configures(down[s][i])
        PROVE  down[s][i].body[1].edits \in Nat
    <3>1. down[s][i] \in Told
      BY DEF TypeInv
    <3>2. down[s][i].body \in Seq(Bodies) /\ down[s][i].body # <<>>
      BY <2>3, <3>1 DEF Told, Configures
    <3>3. down[s][i].body[1] \in Bodies
      BY <3>2
    <3> QED BY <3>3 DEF Bodies
  <2>4. ViewInv'
    BY <2>1, <2>2, <2>3 DEF ViewInv, Configures
  <2> QED BY <2>1, <2>4 DEF ViewMoves
<1>6. ASSUME NEW s \in Sockets, HandleWs(s) PROVE ViewInv' /\ ViewMoves
  <2> DEFINE m == Head(up[s])
  <2>1. /\ phase[s] = "open" /\ up[s] # <<>> /\ UNCHANGED page
    BY <1>6 DEF HandleWs, pageVars
  <2>2. m \in Asked
    BY <2>1, HeadTailProperties DEF TypeInv
  <2> HIDE DEF m
  <2>3. UNCHANGED server.edits
    BY <1>6 DEF HandleWs, CheckPassword, OnMessage, TypeInv, ApiTypeOK
  <2>4. \/ UNCHANGED down
        \/ \E a \in Told : /\ down' = [down EXCEPT ![s] = Append(@, a)]
                           /\ Configures(a) => a.body[1].edits = server.edits
    <3>1. CASE CheckPassword(s, m)
      <4>1. m.path = "password" => Answer(m, "success", <<>>) \in Told
        BY <2>2 DEF Answer, Asked, Told
      <4>2. m.path = "password" => ~Configures(Answer(m, "success", <<>>))
        BY DEF Answer, Configures
      <4> QED BY <3>1, <4>1, <4>2 DEF CheckPassword
    <3>2. CASE OnMessage(s, m)
      <4>1. Get(m.arg) \in Bodies /\ Get(m.arg).edits = server.edits
        BY DEF Get, Bodies, TypeInv, ApiTypeOK
      <4>2. Answer(m, "success", <<Get(m.arg)>>) \in Told
        <5>1. <<Get(m.arg)>> \in Seq(Bodies) /\ <<Get(m.arg)>> # <<>>
          BY <4>1
        <5> QED BY <2>2, <5>1 DEF Answer, Asked, Told
      <4>3. Answer(m, "error", <<>>) \in Told /\ ~Configures(Answer(m, "error", <<>>))
        BY <2>2 DEF Answer, Asked, Told, Configures
      <4>4. Answer(m, "success", <<Get(m.arg)>>).body[1].edits = server.edits
        BY <4>1 DEF Answer
      <4> QED BY <3>2, <4>2, <4>3, <4>4 DEF OnMessage
    <3> QED BY <1>6, <3>1, <3>2 DEF HandleWs, m
  <2>5. CASE UNCHANGED down
    BY <1>1, <2>1, <2>3, <2>5
  <2>6. ASSUME NEW a \in Told, down' = [down EXCEPT ![s] = Append(@, a)],
               Configures(a) => a.body[1].edits = server.edits
        PROVE  ViewInv' /\ ViewMoves
    BY <2>1, <2>3, <2>6, ViewAppended DEF ViewMoves
  <2> QED BY <2>4, <2>5, <2>6
<1>7. ASSUME \/ handleConnect \/ RetryTimer \/ Restart \/ UNCHANGED apiVars
             \/ \E s \in Sockets : onWebsocketOpen(s) \/ Break(s)
             \/ \E l \in LoopSet : Poll(l)
             \/ \E r \in requests : sendTimeout(r)
      PROVE  ViewInv' /\ ViewMoves
  <2>1. UNCHANGED <<page.seen, down>>
    BY <1>7 DEF handleConnect, RetryTimer, Restart, onWebsocketOpen, Break, Poll, sendTimeout,
                apiVars, pageVars, netVars, TypeInv, ApiTypeOK
  <2>2. UNCHANGED server.edits
    BY <1>7 DEF handleConnect, RetryTimer, Restart, onWebsocketOpen, Break, Poll, sendTimeout,
                apiVars, pageVars, TypeInv, ApiTypeOK
  <2> QED BY <1>1, <2>1, <2>2
<1> QED BY <1>2, <1>3, <1>4, <1>5, <1>6, <1>7 DEF ApiNext

(* Every step of the connection is one of the replica, or none. *)
LEMMA ViewRefines == TypeInv /\ TypeInv' /\ ViewMoves => [View!Next]_<<server.edits, page.seen>>
<1> SUFFICES ASSUME TypeInv, TypeInv', ViewMoves PROVE [View!Next]_<<server.edits, page.seen>>
  OBVIOUS
<1>1. /\ page.seen \in Nat /\ page'.seen \in Nat
      /\ server.edits \in Nat /\ server'.edits \in Nat
  BY DEF TypeInv, ApiTypeOK
<1> QED BY <1>1 DEF ViewMoves, View!Next, View!Change, View!Adopt, View!Reopen

(* The page's configuration is a replica of the machine's: whatever is lost,
   repeated, refused or restarted, it is never set back or made up. *)
THEOREM ConfigurationIsReplica == ApiSpec => Replicates
<1>1. ApiInit => View!Init
  BY DEF ApiInit, View!Init
<1> QED BY <1>1, TypeInit, TypeStep, ConnInit, ConnStep, ViewInit, ViewStep, ViewRefines, PTL
        DEF ApiSpec, Replicates, View!Spec

-----------------------------------------------------------------------------
(* The versions *)

(* Version and configuration grow together as long as the machine runs. *)
Fits(version, edits) == version + server.edits = edits + server.version

(* On a page of the machine's present run, each version the page has or is
   about to get stands for its configuration; nobody asks with a version beyond
   the page's, so an answer without a configuration confirms the page's. *)
InStep ==
    /\ page.hash # 0 => Fits(page.hash, page.seen)
    /\ \A s \in Sockets : \A m \in Range(down[s]) : Configures(m) =>
          /\ m.body[1].version >= 1
          /\ Fits(m.body[1].version, m.body[1].edits)
          /\ ~m.body[1].full => m.body[1].version <= page.hash
    /\ \A s \in Sockets : \A m \in Range(up[s]) : m.path = "config" =>
          m.arg \in Nat /\ m.arg <= page.hash

VersionInv ==
    /\ page.run <= server.run /\ server.version >= 1
    /\ \A s \in Sockets : phase[s] = "closed" => up[s] = <<>>
    /\ ws = NoSocket => page.hash = 0
    /\ page.run = server.run => InStep

LEMMA QueueRange ==
    ASSUME NEW S, NEW q \in Seq(S)
    PROVE  /\ q # <<>> => Head(q) \in Range(q) /\ Range(Tail(q)) \subseteq Range(q)
           /\ \A a \in S : Range(Append(q, a)) = Range(q) \union {a}
<1>1. ASSUME q # <<>>
      PROVE  Head(q) \in Range(q) /\ Range(Tail(q)) \subseteq Range(q)
  <2>1. /\ Len(q) \in Nat \ {0} /\ Head(q) = q[1]
        /\ Tail(q) \in Seq(S) /\ Len(Tail(q)) = Len(q) - 1
        /\ \A i \in 1 .. Len(Tail(q)) : Tail(q)[i] = q[i + 1]
    BY <1>1, HeadTailProperties, EmptySeq
  <2>2. /\ Range(q) = {q[i] : i \in 1 .. Len(q)}
        /\ Range(Tail(q)) = {Tail(q)[i] : i \in 1 .. Len(Tail(q))}
    BY <2>1, RangeEquality
  <2>3. \A i \in 1 .. Len(Tail(q)) : i + 1 \in 1 .. Len(q)
    BY <2>1
  <2> QED BY <2>1, <2>2, <2>3
<1>2. ASSUME NEW a \in S PROVE Range(Append(q, a)) = Range(q) \union {a}
  <2>1. Append(q, a) = q \o <<a>> /\ <<a>> \in Seq(S)
    BY AppendIsConcat
  <2>2. Range(<<a>>) = {a}
    <3>1. Len(<<a>>) = 1 /\ <<a>>[1] = a
      OBVIOUS
    <3>2. Range(<<a>>) = {<<a>>[i] : i \in 1 .. 1}
      BY <2>1, <3>1, RangeEquality
    <3> QED BY <3>1, <3>2
  <2>3. Range(q \o <<a>>) = Range(q) \union Range(<<a>>)
    BY <2>1, RangeConcatenation
  <2> QED BY <2>1, <2>2, <2>3
<1> QED BY <1>1, <1>2

(* A request adds to what travels only what is asked, on an open websocket. *)
LEMMA SendAsks ==
    ASSUME TypeInv, NEW table, NEW paths \in Seq(Paths), NEW arg \in Nat \union BOOLEAN,
           sendWebsocketMsg(table, paths, arg)
    PROVE  \A s \in Sockets :
              /\ \A m \in Range(up'[s]) :
                    m \in Range(up[s]) \/ (m.arg = arg /\ \E i \in DOMAIN paths : m.path = paths[i])
              /\ phase'[s] = "closed" => up'[s] = up[s]
<1> DEFINE ids == CHOOSE f \in [DOMAIN paths -> Unused] :
                     \A i, j \in DOMAIN paths : f[i] = f[j] => i = j
           news == [i \in DOMAIN paths |-> [id |-> ids[i], path |-> paths[i], arg |-> arg]]
<1> HIDE DEF ids
<1> TAKE s \in Sockets
<1>1. up' = IF phase'[ws] # "open" THEN up ELSE [up EXCEPT ![ws] = @ \o news]
  BY DEF sendWebsocketMsg, ids
<1>2. DOMAIN paths = 1 .. Len(paths) /\ Len(paths) \in Nat
  BY LenProperties
<1>3. \A i \in DOMAIN paths : news[i].arg = arg /\ news[i].path = paths[i]
  OBVIOUS
<1>4. DOMAIN news = 1 .. Len(paths)
  BY <1>2
<1> DEFINE All == Asked \union {news[i] : i \in 1 .. Len(paths)}
<1>5. news \in Seq(All)
  <2>1. news \in [1 .. Len(paths) -> All]
    BY <1>2
  <2> QED BY <1>2, <2>1, SeqDef
<1>6. up[s] \in Seq(All)
  <2>1. up[s] \in Seq(Asked)
    BY DEF TypeInv
  <2> HIDE DEF news
  <2>2. Asked \subseteq All
    OBVIOUS
  <2> QED BY <2>1, <2>2, SeqMonotonic
<1> HIDE DEF news
<1>7. Range(up[s] \o news) = Range(up[s]) \union Range(news)
  BY <1>5, <1>6, RangeConcatenation
<1>8. \A m \in Range(news) : m.arg = arg /\ \E i \in DOMAIN paths : m.path = paths[i]
  BY <1>2, <1>3, <1>4 DEF Range
<1>9. up'[s] = up[s] \/ (phase'[ws] = "open" /\ s = ws /\ up'[s] = up[s] \o news)
  BY <1>1 DEF TypeInv
<1> QED BY <1>7, <1>8, <1>9

(* initWebsocket opens websockets and closes the page's own. *)
LEMMA InitKeepsOpen ==
    ASSUME TypeInv, NEW ph \in [Sockets -> {"opening", "open", "closing", "closed"}],
           ConnInv, initWebsocket(ph), ph \in {phase, closeWebsocket}
    PROVE  /\ \A s \in Sockets : phase'[s] = "closed" => phase[s] = "closed"
           /\ ws' = NoSocket => ws = NoSocket
<1>1. \A s \in Sockets : ph[s] = "closed" => phase[s] = "closed"
  BY DEF closeWebsocket, Live, TypeInv, ApiTypeOK
<1>2. \A s \in Sockets : closeWebsocket[s] = "closed" => phase[s] = "closed"
  BY DEF closeWebsocket, Live, TypeInv, ApiTypeOK
<1>3. CASE Active
  BY <1>1, <1>3 DEF initWebsocket
<1>4. CASE ~Active
  <2>1. ws' \in Sockets
    BY <1>4 DEF initWebsocket, Fresh
  <2> QED BY <1>1, <1>2, <1>4, <2>1, WebApiAssumption DEF initWebsocket, NoSocket
<1> QED BY <1>3, <1>4

LEMMA RangeOfNone == Range(<<>>) = {}
BY DEF Range

LEMMA VersionInit == ApiInit => VersionInv
<1> SUFFICES ASSUME ApiInit PROVE VersionInv
  OBVIOUS
<1>1. InStep
  BY RangeOfNone DEF ApiInit, InStep
<1> QED BY <1>1 DEF ApiInit, VersionInv

(* Steps after which less is under way, and page and machine are as before. *)
LEMMA InStepLess ==
    ASSUME InStep, UNCHANGED <<page, server.version, server.edits>>,
           \A s \in Sockets : /\ Range(up'[s]) \subseteq Range(up[s])
                              /\ Range(down'[s]) \subseteq Range(down[s])
    PROVE  InStep'
BY DEF InStep, Fits, Configures

(* The page asks with the version it has. *)
LEMMA InStepAsked ==
    ASSUME TypeInv, InStep, UNCHANGED <<page, server.version, server.edits>>,
           \A s \in Sockets : Range(down'[s]) \subseteq Range(down[s]),
           \A s \in Sockets : \A m \in Range(up'[s]) :
               m \in Range(up[s]) \/ m.path # "config" \/ m.arg = page.hash
    PROVE  InStep'
<1>1. page.hash \in Nat
  BY DEF TypeInv, ApiTypeOK
<1> QED BY <1>1 DEF InStep, Fits, Configures

(* The page reads an answer. *)
LEMMA InStepRead ==
    ASSUME TypeInv, ConnInv, ViewInv, InStep, NEW s \in Sockets, pushMessage(s),
           \A t \in Sockets : \A m \in Range(up'[t]) :
               m \in Range(up[t]) \/ (m.path = "config" => m.arg = page.hash /\ page' = page)
    PROVE  InStep'
<1> DEFINE m == Head(down[s])
           b == m.body[1]
<1>1. /\ down[s] # <<>> /\ down[s] \in Seq(Told) /\ down' = [down EXCEPT ![s] = Tail(@)]
      /\ UNCHANGED server
  BY DEF pushMessage, TypeInv
<1>2. /\ m \in Told /\ m \in Range(down[s])
      /\ \A t \in Sockets : Range(down'[t]) \subseteq Range(down[t])
  BY <1>1, HeadTailProperties, QueueRange DEF TypeInv
<1>3. CASE page' = page
  BY <1>1, <1>2, <1>3, InStepAsked
<1>4. CASE Configures(m) /\ AdoptConfig(b)
  <2>1. /\ page'.hash = b.version /\ page'.seen = IF b.full THEN b.edits ELSE page.seen
        /\ page \in [hash : Nat, seen : Nat, run : Nat]
        /\ server.version \in Nat /\ server.edits \in Nat
    BY <1>4 DEF AdoptConfig, TypeInv, ApiTypeOK
  <2>2. b \in Bodies
    BY <1>2, <1>4 DEF Told, Configures
  <2>3. /\ b.version >= 1 /\ Fits(b.version, b.edits)
        /\ ~b.full => b.version <= page.hash
    BY <1>2, <1>4 DEF InStep
  <2>4. page.seen <= b.edits
    <3>1. Len(down[s]) > 0 /\ m = down[s][1]
      BY <1>1, HeadTailProperties, EmptySeq
    <3> QED BY <1>4, <3>1 DEF ViewInv
  <2>5. page.hash <= b.version
    <3>1. CASE page.hash = 0
      BY <2>2, <3>1 DEF Bodies
    <3>2. CASE page.hash # 0
      <4>1. page.hash + server.edits = page.seen + server.version
        BY <3>2 DEF InStep, Fits
      <4>2. b.version + server.edits = b.edits + server.version
        BY <2>3 DEF Fits
      <4> HIDE DEF b
      <4> QED BY <2>1, <2>2, <2>4, <4>1, <4>2 DEF Bodies
    <3> QED BY <3>1, <3>2
  <2>6. Fits(page'.hash, page'.seen)
    <3>1. CASE b.full
      BY <2>1, <2>3, <3>1
    <3>2. CASE ~b.full
      <4>1. b.version = page.hash
        BY <2>1, <2>2, <2>3, <2>5, <3>2 DEF Bodies
      <4> QED BY <2>1, <2>3, <3>2, <4>1 DEF InStep
    <3> QED BY <3>1, <3>2
  <2>7. page.hash <= page'.hash
    BY <2>1, <2>5
  <2>8. ASSUME NEW t \in Sockets, NEW a \in Range(down'[t]), Configures(a)
        PROVE  /\ a.body[1].version >= 1 /\ Fits(a.body[1].version, a.body[1].edits)
               /\ ~a.body[1].full => a.body[1].version <= page'.hash
    <3>1. a \in Range(down[t]) /\ a \in Told
      <4>1. down[t] \in Seq(Told)
        BY DEF TypeInv
      <4>2. Range(down[t]) \subseteq Told
        BY <4>1, RangeOfSeq
      <4> QED BY <1>2, <4>2
    <3>2. a.body[1] \in Bodies
      BY <2>8, <3>1 DEF Told, Configures
    <3>3. /\ a.body[1].version >= 1 /\ Fits(a.body[1].version, a.body[1].edits)
          /\ ~a.body[1].full => a.body[1].version <= page.hash
      BY <2>8, <3>1 DEF InStep
    <3>4. a.body[1].version \in Nat /\ page.hash \in Nat /\ page'.hash \in Nat
      BY <2>1, <2>2, <3>2 DEF Bodies
    <3> QED BY <2>7, <3>3, <3>4
  <2>9. ASSUME NEW t \in Sockets, NEW a \in Range(up'[t]), a.path = "config"
        PROVE  a.arg \in Nat /\ a.arg <= page'.hash
    <3>1. a \in Range(up[t]) \/ (a.arg = page.hash /\ page' = page)
      BY <2>9
    <3>2. page.hash \in Nat /\ page'.hash \in Nat
      BY <2>1, <2>2 DEF Bodies
    <3>3. a \in Range(up[t]) => a.arg \in Nat /\ a.arg <= page.hash
      BY <2>9 DEF InStep
    <3> QED BY <2>7, <3>1, <3>2, <3>3
  <2> QED BY <1>1, <2>6, <2>8, <2>9 DEF InStep, Fits, Configures
<1> QED BY <1>3, <1>4, ReadAdopts

LEMMA GetSays ==
    ASSUME NEW known
    PROVE  /\ Get(known).version = server.version /\ Get(known).edits = server.edits
           /\ Get(known).full = (server.version # known)
BY DEF Get

(* The machine answers with the version and configuration of now. *)
LEMMA InStepAnswered ==
    ASSUME TypeInv, InStep, server.version >= 1, NEW s \in Sockets, HandleWs(s)
    PROVE  InStep'
<1> DEFINE m == Head(up[s])
<1>1. /\ up[s] # <<>> /\ up[s] \in Seq(Asked) /\ up' = [up EXCEPT ![s] = Tail(@)]
      /\ UNCHANGED page
  BY DEF HandleWs, pageVars, TypeInv
<1>2. /\ m \in Asked /\ m \in Range(up[s])
      /\ \A t \in Sockets : Range(up'[t]) \subseteq Range(up[t])
  BY <1>1, HeadTailProperties, QueueRange DEF TypeInv
<1>3. UNCHANGED <<server.version, server.edits>>
  BY DEF HandleWs, CheckPassword, OnMessage, TypeInv, ApiTypeOK
<1>4. server.version \in Nat /\ server.edits \in Nat /\ page.hash \in Nat
  BY DEF TypeInv, ApiTypeOK
<1>5. CASE UNCHANGED down
  BY <1>1, <1>2, <1>3, <1>5, InStepLess
<1>6. ASSUME NEW a \in Told, down' = [down EXCEPT ![s] = Append(@, a)],
             Configures(a) => a.body[1] = Get(m.arg) /\ m.path = "config"
      PROVE  InStep'
  <2>1. /\ Range(down'[s]) = Range(down[s]) \union {a}
        /\ \A t \in Sockets \ {s} : down'[t] = down[t]
    BY <1>6, QueueRange DEF TypeInv
  <2>2. Configures(a) => /\ a.body[1].version >= 1
                         /\ Fits(a.body[1].version, a.body[1].edits)
                         /\ ~a.body[1].full => a.body[1].version <= page.hash
    <3> SUFFICES ASSUME Configures(a) PROVE /\ a.body[1].version >= 1
                                            /\ Fits(a.body[1].version, a.body[1].edits)
                                            /\ ~a.body[1].full => a.body[1].version <= page.hash
      OBVIOUS
    <3>1. m.arg \in Nat /\ m.arg <= page.hash
      BY <1>2, <1>6 DEF InStep
    <3>2. /\ a.body[1].version = server.version /\ a.body[1].edits = server.edits
          /\ a.body[1].full = (server.version # m.arg)
      BY <1>6, GetSays
    <3> HIDE DEF m
    <3>3. ~a.body[1].full => server.version = m.arg
      BY <3>2
    <3> QED BY <1>4, <3>1, <3>2, <3>3 DEF Fits
  <2> QED BY <1>1, <1>2, <1>3, <2>1, <2>2 DEF InStep, Fits, Configures
<1>7. CASE CheckPassword(s, m)
  <2>1. m.path = "password" =>
           /\ Answer(m, "success", <<>>) \in Told /\ ~Configures(Answer(m, "success", <<>>))
    BY <1>2 DEF Answer, Asked, Told, Configures
  <2> QED BY <1>5, <1>6, <1>7, <2>1 DEF CheckPassword
<1>8. CASE OnMessage(s, m)
  <2>1. Answer(m, "error", <<>>) \in Told /\ ~Configures(Answer(m, "error", <<>>))
    BY <1>2 DEF Answer, Asked, Told, Configures
  <2>2. Get(m.arg) \in Bodies
    BY DEF Get, Bodies, TypeInv, ApiTypeOK
  <2>3. <<Get(m.arg)>> \in Seq(Bodies) /\ <<Get(m.arg)>> # <<>>
    BY <2>2
  <2>4. /\ Answer(m, "success", <<Get(m.arg)>>) \in Told
        /\ Answer(m, "success", <<Get(m.arg)>>).body[1] = Get(m.arg)
        /\ Answer(m, "success", <<Get(m.arg)>>).path = m.path
    BY <1>2, <2>3 DEF Answer, Asked, Told
  <2> QED BY <1>6, <1>8, <2>1, <2>4 DEF OnMessage, Configures
<1> QED BY <1>7, <1>8 DEF HandleWs

LEMMA VersionStep ==
    TypeInv /\ ConnInv /\ ViewInv /\ VersionInv /\ [ApiNext]_apiVars => VersionInv'
<1> SUFFICES ASSUME TypeInv, ConnInv, ViewInv, VersionInv, [ApiNext]_apiVars
             PROVE  VersionInv'
  OBVIOUS
<1>a. /\ page \in [hash : Nat, seen : Nat, run : Nat]
      /\ server \in ServerStates
  BY DEF TypeInv, ApiTypeOK, ServerStates
<1>b. \A s \in Sockets : up[s] \in Seq(Asked) /\ down[s] \in Seq(Told)
  BY DEF TypeInv
<1>c. \A t \in Sockets : phase[t] # "closed" => t = ws /\ ws # NoSocket
  BY WebApiAssumption DEF ConnInv, NoSocket
<1>1. CASE handleConnect
  <2>1. UNCHANGED <<up, down, server.version, server.edits, server.run>>
    BY <1>1, <1>a DEF handleConnect, ServerStates
  <2>2. /\ \A s \in Sockets : phase'[s] = "closed" => phase[s] = "closed"
        /\ ws' = NoSocket => ws = NoSocket
    <3>1. closeWebsocket \in [Sockets -> {"opening", "open", "closing", "closed"}]
      BY DEF closeWebsocket, TypeInv, ApiTypeOK
    <3>2. initWebsocket(closeWebsocket)
      BY <1>1 DEF handleConnect
    <3> QED BY <3>1, <3>2, InitKeepsOpen
  <2>3. CASE ws = NoSocket
    <3>1. \A s \in Sockets : up[s] = <<>> /\ down[s] = <<>>
      BY <1>c, <2>3 DEF VersionInv, ConnInv
    <3>2. page'.run = server.run /\ page'.hash = 0
      BY <1>1, <1>a, <2>3 DEF handleConnect, VersionInv
    <3>3. InStep'
      BY <2>1, <3>1, <3>2, RangeOfNone DEF InStep
    <3> QED BY <1>a, <2>1, <2>2, <3>1, <3>2, <3>3 DEF VersionInv, ServerStates
  <2>4. CASE ws # NoSocket
    <3>1. UNCHANGED page
      BY <1>1, <2>4 DEF handleConnect
    <3>2. InStep => InStep'
      BY <2>1, <3>1, InStepLess
    <3> QED BY <2>1, <2>2, <2>4, <3>1, <3>2 DEF VersionInv
  <2> QED BY <2>3, <2>4
<1>2. CASE RetryTimer
  <2>1. UNCHANGED <<up, down, page, server>> /\ initWebsocket(phase)
    BY <1>2 DEF RetryTimer
  <2>2. /\ \A s \in Sockets : phase'[s] = "closed" => phase[s] = "closed"
        /\ ws' = NoSocket => ws = NoSocket
    <3>1. phase \in [Sockets -> {"opening", "open", "closing", "closed"}]
      BY DEF TypeInv, ApiTypeOK
    <3> QED BY <2>1, <3>1, InitKeepsOpen
  <2>3. InStep => InStep'
    BY <2>1, InStepLess
  <2> QED BY <2>1, <2>2, <2>3 DEF VersionInv
<1>3. CASE Reload
  <2>1. /\ page'.hash = 0 /\ page'.run = 0
        /\ \A s \in Sockets : up'[s] = <<>> /\ down'[s] = <<>>
        /\ UNCHANGED <<server.version, server.edits, server.run>>
    BY <1>3, <1>a DEF Reload, ServerStates
  <2>2. InStep'
    BY <2>1, RangeOfNone DEF InStep
  <2> QED BY <1>a, <2>1, <2>2 DEF VersionInv, ServerStates
<1>4. ASSUME NEW s \in Sockets, onWebsocketOpen(s) PROVE VersionInv'
  <2>1. /\ sendWebsocketMsg(requests, <<"password">>, psd)
        /\ phase' = [phase EXCEPT ![s] = "open"]
        /\ UNCHANGED <<ws, down, page, server>>
    BY <1>4 DEF onWebsocketOpen
  <2>2. psd \in Nat \union BOOLEAN /\ <<"password">> \in Seq(Paths)
    BY LoopsArePaths DEF TypeInv, ApiTypeOK
  <2>3. \A t \in Sockets :
           /\ \A m \in Range(up'[t]) : m \in Range(up[t]) \/ m.path = "password"
           /\ phase'[t] = "closed" => up'[t] = up[t]
    <3>1. \A t \in Sockets :
             /\ \A m \in Range(up'[t]) :
                   m \in Range(up[t]) \/ (m.arg = psd /\ \E i \in DOMAIN <<"password">> : m.path = <<"password">>[i])
             /\ phase'[t] = "closed" => up'[t] = up[t]
      BY <2>1, <2>2, SendAsks
    <3> QED BY <3>1
  <2>4. InStep => InStep'
    BY <2>1, <2>3, InStepAsked
  <2>5. \A t \in Sockets : phase'[t] = "closed" => phase[t] = "closed"
    BY <2>1 DEF TypeInv, ApiTypeOK
  <2> QED BY <2>1, <2>3, <2>4, <2>5 DEF VersionInv
<1>5. ASSUME NEW s \in Sockets, onWebsocketClose(s) PROVE VersionInv'
  <2>1. /\ up' = [up EXCEPT ![s] = <<>>] /\ down' = [down EXCEPT ![s] = <<>>]
        /\ phase' = [phase EXCEPT ![s] = "closed"]
        /\ UNCHANGED <<ws, page, server>>
    BY <1>5 DEF onWebsocketClose
  <2>2. \A t \in Sockets : /\ Range(up'[t]) \subseteq Range(up[t])
                           /\ Range(down'[t]) \subseteq Range(down[t])
    BY <1>b, <2>1, RangeOfNone DEF TypeInv
  <2>3. InStep => InStep'
    BY <2>1, <2>2, InStepLess
  <2>4. \A t \in Sockets : phase'[t] = "closed" => up'[t] = <<>>
    BY <2>1 DEF VersionInv, TypeInv, ApiTypeOK
  <2> QED BY <2>1, <2>3, <2>4 DEF VersionInv
<1>6. ASSUME NEW s \in Sockets, pushMessage(s) PROVE VersionInv'
  <2> DEFINE m == Head(down[s])
             callbacks == {r \in requests : r.id = m.id}
  <2>1. phase[s] = "open" /\ UNCHANGED <<ws, server, phase>>
    BY <1>6 DEF pushMessage, Unexpected, Connected, Answered
  <2>2. page.hash \in Nat \union BOOLEAN /\ Loops \in Seq(Paths)
    BY <1>a, LoopsArePaths
  <2>3. \/ UNCHANGED up
        \/ sendWebsocketMsg(requests \ callbacks, Loops, page.hash) /\ UNCHANGED page
    <3> HIDE DEF m, callbacks
    <3> QED BY <1>6 DEF pushMessage, Unexpected, Connected, Answered, m, callbacks
  <2>4. \A t \in Sockets :
           /\ \A a \in Range(up'[t]) :
                 a \in Range(up[t]) \/ (a.arg = page.hash /\ page' = page)
           /\ phase'[t] = "closed" => up'[t] = up[t]
    <3> HIDE DEF callbacks
    <3>1. CASE UNCHANGED up
      BY <3>1
    <3>2. CASE sendWebsocketMsg(requests \ callbacks, Loops, page.hash) /\ UNCHANGED page
      <4>1. \A t \in Sockets :
               /\ \A a \in Range(up'[t]) :
                     a \in Range(up[t]) \/ (a.arg = page.hash /\ \E i \in DOMAIN Loops : a.path = Loops[i])
               /\ phase'[t] = "closed" => up'[t] = up[t]
        BY <2>2, <3>2, SendAsks
      <4> QED BY <3>2, <4>1
    <3> QED BY <2>3, <3>1, <3>2
  <2>5. InStep => InStep'
    BY <1>6, <2>4, InStepRead
  <2>6. page'.run = page.run
    BY <1>6, <1>a, ReadAdopts DEF AdoptConfig
  <2>7. ws # NoSocket
    BY <1>c, <2>1
  <2> QED BY <2>1, <2>4, <2>5, <2>6, <2>7 DEF VersionInv
<1>7. ASSUME NEW s \in Sockets, HandleWs(s) PROVE VersionInv'
  <2>1. /\ phase[s] = "open" /\ up' = [up EXCEPT ![s] = Tail(@)]
        /\ UNCHANGED <<ws, page>>
    BY <1>7 DEF HandleWs, pageVars
  <2>2. UNCHANGED <<server.version, server.run>>
    BY <1>7, <1>a DEF HandleWs, CheckPassword, OnMessage, ServerStates
  <2>3. \A t \in Sockets : phase'[t] = "closed" => phase[t] = "closed" /\ t # s
    BY <1>7, <2>1 DEF HandleWs, CheckPassword, OnMessage, TypeInv, ApiTypeOK
  <2>4. \A t \in Sockets \ {s} : up'[t] = up[t]
    BY <2>1 DEF TypeInv
  <2>5. InStep => InStep'
    BY <1>7, InStepAnswered DEF VersionInv
  <2> QED BY <2>1, <2>2, <2>3, <2>4, <2>5 DEF VersionInv
<1>8. ASSUME NEW s \in Sockets, Break(s) PROVE VersionInv'
  <2>1. /\ phase' = [phase EXCEPT ![s] = "closing"]
        /\ UNCHANGED <<ws, page, up, down, server.version, server.edits, server.run>>
    BY <1>8, <1>a DEF Break, pageVars, ServerStates
  <2>2. \A t \in Sockets : phase'[t] = "closed" => phase[t] = "closed"
    BY <2>1 DEF TypeInv, ApiTypeOK
  <2>3. InStep => InStep'
    BY <2>1, InStepLess
  <2> QED BY <2>1, <2>2, <2>3 DEF VersionInv
<1>9. ASSUME NEW l \in LoopSet, Poll(l) PROVE VersionInv'
  <2>1. /\ sendWebsocketMsg(requests, <<l>>, page.hash)
        /\ UNCHANGED <<phase, ws, down, page, server>>
    BY <1>9 DEF Poll
  <2>2. page.hash \in Nat \union BOOLEAN /\ <<l>> \in Seq(Paths)
    BY <1>a DEF Paths
  <2>3. \A t \in Sockets :
           /\ \A m \in Range(up'[t]) : m \in Range(up[t]) \/ m.arg = page.hash
           /\ phase'[t] = "closed" => up'[t] = up[t]
    <3>1. \A t \in Sockets :
             /\ \A m \in Range(up'[t]) :
                   m \in Range(up[t]) \/ (m.arg = page.hash /\ \E i \in DOMAIN <<l>> : m.path = <<l>>[i])
             /\ phase'[t] = "closed" => up'[t] = up[t]
      BY <2>1, <2>2, SendAsks
    <3> QED BY <3>1
  <2>4. InStep => InStep'
    BY <2>1, <2>3, InStepAsked
  <2> QED BY <2>1, <2>3, <2>4 DEF VersionInv
<1>10. ASSUME NEW r \in requests, sendTimeout(r) PROVE VersionInv'
  <2>1. UNCHANGED <<phase, ws, up, down, page, server.version, server.edits, server.run>>
    BY <1>10, <1>a DEF sendTimeout, netVars, ServerStates
  <2>2. InStep => InStep'
    BY <2>1, InStepLess
  <2> QED BY <2>1, <2>2 DEF VersionInv
<1>11. CASE EditConfig
  <2>1. /\ server'.version = server.version + 1 /\ server'.edits = server.edits + 1
        /\ server'.run = server.run /\ UNCHANGED <<phase, ws, up, down, page>>
    BY <1>11, <1>a DEF EditConfig, pageVars, netVars, ServerStates
  <2>2. server.version \in Nat /\ server.edits \in Nat
    BY <1>a DEF ServerStates
  <2>3. \A v, e \in Nat : v + server.edits = e + server.version =>
                           v + server'.edits = e + server'.version
    BY <2>1, <2>2
  <2>4. \A t \in Sockets : \A m \in Range(down[t]) : Configures(m) => m.body[1] \in Bodies
    <3>1. \A t \in Sockets : Range(down[t]) \subseteq Told
      BY <1>b, RangeOfSeq
    <3> QED BY <3>1 DEF Told, Configures
  <2>5. InStep => InStep'
    <3> SUFFICES ASSUME InStep PROVE InStep'
      OBVIOUS
    <3>1. page'.hash # 0 => page'.hash + server'.edits = page'.seen + server'.version
      BY <1>a, <2>1, <2>3 DEF InStep, Fits
    <3>2. ASSUME NEW t \in Sockets, NEW m \in Range(down[t]), Configures(m)
          PROVE  m.body[1].version + server'.edits = m.body[1].edits + server'.version
      <4>1. m.body[1].version \in Nat /\ m.body[1].edits \in Nat
        BY <2>4, <3>2 DEF Bodies
      <4> QED BY <2>3, <3>2, <4>1 DEF InStep, Fits
    <3> QED BY <2>1, <3>1, <3>2 DEF InStep, Fits, Configures
  <2> QED BY <2>1, <2>2, <2>5 DEF VersionInv
<1>12. CASE Restart
  <2>1. /\ server'.version = 1 /\ server'.run = server.run + 1
        /\ UNCHANGED <<ws, page, up>>
    BY <1>12, <1>a DEF Restart, pageVars, ServerStates
  <2>2. \A t \in Sockets : phase'[t] = "closed" => phase[t] = "closed"
    BY <1>12 DEF Restart, TypeInv, ApiTypeOK
  <2>3. page.run \in Nat /\ server.run \in Nat
    BY <1>a DEF ServerStates
  <2> QED BY <2>1, <2>2, <2>3 DEF VersionInv
<1>13. CASE UNCHANGED apiVars
  <2>1. UNCHANGED <<phase, ws, up, down, page, server>>
    BY <1>13 DEF apiVars, pageVars, netVars
  <2>2. InStep => InStep'
    BY <2>1, InStepLess
  <2> QED BY <2>1, <2>2 DEF VersionInv
<1> QED BY <1>1, <1>2, <1>3, <1>4, <1>5, <1>6, <1>7, <1>8, <1>9, <1>10, <1>11, <1>12, <1>13
        DEF ApiNext

(* As long as the machine runs, a page it loaded that has the machine's version
   has its configuration: no interleaving of its two loops, reconnects and
   changes lets a version get ahead of the configuration it stands for. *)
THEOREM VersionMeansConfig == ApiSpec => []SameVersionSameConfig
<1>1. TypeInv /\ VersionInv => SameVersionSameConfig
  <2> SUFFICES ASSUME TypeInv, VersionInv, page.run = server.run, page.hash = server.version
               PROVE  page.seen = server.edits
    BY DEF SameVersionSameConfig
  <2>1. /\ server.version >= 1 /\ server.version \in Nat /\ server.edits \in Nat
        /\ page.hash \in Nat /\ page.seen \in Nat
    BY DEF VersionInv, TypeInv, ApiTypeOK
  <2>2. page.hash + server.edits = page.seen + server.version
    BY <2>1 DEF VersionInv, InStep, Fits
  <2> QED BY <2>1, <2>2
<1> QED BY <1>1, TypeInit, TypeStep, ConnInit, ConnStep, ViewInit, ViewStep, VersionInit,
           VersionStep, PTL DEF ApiSpec

-----------------------------------------------------------------------------
(* The loops *)

(* The requests of a path in a table. *)
Under(table, l) == {r \in table : r.path = l}

(* A request has an id of its own, and what travels under it has its path: so
   an answer ends the one request it is the answer of.  Then a loop has a timer
   or a request for each time the page connected. *)
TimerInv ==
    /\ \A r, q \in requests : r.id = q.id => r = q
    /\ \A s \in Sockets : \A m \in Range(up[s]) \union Range(down[s]) :
          \A r \in requests : r.id = m.id => r.path = m.path
    /\ \A l \in LoopSet : /\ IsFiniteSet(Under(requests, l))
                          /\ timers[l] + Cardinality(Under(requests, l)) = opened

LEMMA TimerInvShows == TimerInv => LoopsKept
BY DEF TimerInv, LoopsKept, Under

LEMMA TimerInvInit == ApiInit => TimerInv
<1> SUFFICES ASSUME ApiInit PROVE TimerInv
  OBVIOUS
<1>1. \A s \in Sockets : Range(up[s]) \union Range(down[s]) = {}
  BY RangeOfNone DEF ApiInit
<1>2. \A l \in LoopSet : Under(requests, l) = {} /\ timers[l] = 0
  BY DEF ApiInit, Under
<1>3. opened = 0 /\ requests = {}
  BY DEF ApiInit
<1> QED BY <1>1, <1>2, <1>3, FS_EmptySet DEF TimerInv

(* What travels is what travelled, or an answer to it, and no request or loop
   is touched. *)
LEMMA TimerUntouched ==
    ASSUME TimerInv, UNCHANGED <<requests, timers, opened>>,
           \A s \in Sockets : \A m \in Range(up'[s]) \union Range(down'[s]) :
              \E n \in Range(up[s]) \union Range(down[s]) : n.id = m.id /\ n.path = m.path
    PROVE  TimerInv'
<1>1. \A r, q \in requests' : r.id = q.id => r = q
  BY DEF TimerInv
<1>2. ASSUME NEW s \in Sockets, NEW m \in Range(up'[s]) \union Range(down'[s]),
             NEW r \in requests', r.id = m.id
      PROVE  r.path = m.path
  <2>1. PICK n \in Range(up[s]) \union Range(down[s]) : n.id = m.id /\ n.path = m.path
    OBVIOUS
  <2>2. r \in requests /\ r.id = n.id
    BY <1>2, <2>1
  <2> QED BY <2>1, <2>2 DEF TimerInv
<1>3. \A l \in LoopSet : /\ IsFiniteSet(Under(requests', l))
                         /\ timers'[l] + Cardinality(Under(requests', l)) = opened'
  BY DEF TimerInv
<1> QED BY <1>1, <1>2, <1>3 DEF TimerInv

LEMMA TimerLess ==
    ASSUME TimerInv, UNCHANGED <<requests, timers, opened>>,
           \A s \in Sockets : /\ Range(up'[s]) \subseteq Range(up[s])
                              /\ Range(down'[s]) \subseteq Range(down[s])
    PROVE  TimerInv'
BY TimerUntouched

(* A request that ends leaves its loop a timer. *)
LEMMA RequestEnds ==
    ASSUME TypeInv, TimerInv, NEW r \in requests, requests' = requests \ {r},
           Rearm(r.path), UNCHANGED opened,
           \A s \in Sockets : /\ Range(up'[s]) \subseteq Range(up[s])
                              /\ Range(down'[s]) \subseteq Range(down[s])
    PROVE  TimerInv'
<1>1. timers \in [LoopSet -> Nat] /\ opened \in Nat
  BY DEF TypeInv, ApiTypeOK
<1>2. ASSUME NEW l \in LoopSet
      PROVE  /\ IsFiniteSet(Under(requests', l))
             /\ timers'[l] + Cardinality(Under(requests', l)) = opened'
  <2> DEFINE old == Under(requests, l)
  <2>1. IsFiniteSet(old) /\ timers[l] + Cardinality(old) = opened
    BY DEF TimerInv
  <2>2. Cardinality(old) \in Nat
    BY <2>1, FS_CardinalityType
  <2>3. CASE r.path = l
    <3>1. Under(requests', l) = old \ {r} /\ r \in old
      BY <2>3 DEF Under
    <3>2. timers'[l] = timers[l] + 1
      BY <1>1, <2>3 DEF Rearm
    <3> HIDE DEF old
    <3>3. IsFiniteSet(old \ {r}) /\ Cardinality(old \ {r}) = Cardinality(old) - 1
      BY <2>1, <3>1, FS_RemoveElement
    <3>4. timers[l] \in Nat
      BY <1>1
    <3>5. \A a, b, c \in Nat : a + b = c => (a + 1) + (b - 1) = c
      OBVIOUS
    <3>6. (timers[l] + 1) + (Cardinality(old) - 1) = opened
      BY <1>1, <2>1, <2>2, <3>4, <3>5
    <3> QED BY <3>1, <3>2, <3>3, <3>6
  <2>4. CASE r.path # l
    <3>1. Under(requests', l) = old
      BY <2>4 DEF Under
    <3>2. timers'[l] = timers[l]
      BY <1>1, <2>4 DEF Rearm
    <3> QED BY <2>1, <3>1, <3>2
  <2> QED BY <2>3, <2>4
<1>3. /\ \A q, p \in requests' : q.id = p.id => q = p
      /\ \A s \in Sockets : \A m \in Range(up'[s]) \union Range(down'[s]) :
            \A q \in requests' : q.id = m.id => q.path = m.path
  BY DEF TimerInv
<1> QED BY <1>2, <1>3 DEF TimerInv

(* Requests that are sent have new ids, so they are the one request of what
   goes out with them; and there is one more of each path that was sent. *)
LEMMA SendDraws ==
    ASSUME TypeInv, TimerInv,
           NEW table, table \subseteq requests,
           NEW paths \in Seq(Paths), NEW arg \in Nat \union BOOLEAN,
           \A i, j \in DOMAIN paths : paths[i] = paths[j] => i = j,
           sendWebsocketMsg(table, paths, arg),
           \A s \in Sockets : Range(down'[s]) \subseteq Range(down[s])
    PROVE  /\ \A r, q \in requests' : r.id = q.id => r = q
           /\ \A s \in Sockets : \A m \in Range(up'[s]) \union Range(down'[s]) :
                 \A r \in requests' : r.id = m.id => r.path = m.path
           /\ \A l : (\A i \in DOMAIN paths : paths[i] # l) =>
                 Under(requests', l) = Under(table, l)
           /\ \A i \in DOMAIN paths : \E r :
                 r \notin table /\ Under(requests', paths[i]) = Under(table, paths[i]) \union {r}
<1> DEFINE Distinct(f) == \A i, j \in DOMAIN paths : f[i] = f[j] => i = j
           ids == CHOOSE f \in [DOMAIN paths -> Unused] : Distinct(f)
           news == [i \in DOMAIN paths |-> [id |-> ids[i], path |-> paths[i], arg |-> arg]]
           New(i) == [id |-> ids[i], path |-> paths[i]]
<1>1. DOMAIN paths = 1 .. Len(paths) /\ Len(paths) \in Nat
  BY LenProperties
<1>2. \E f \in [DOMAIN paths -> Unused] : Distinct(f)
  BY <1>1, IdsAreDrawn DEF sendWebsocketMsg
<1>3. ids \in [DOMAIN paths -> Unused] /\ Distinct(ids)
  BY <1>2
<1> HIDE DEF ids
<1>4. requests' = table \union {New(i) : i \in DOMAIN paths}
  BY DEF sendWebsocketMsg, ids
<1>5. up' = IF phase'[ws] # "open" THEN up ELSE [up EXCEPT ![ws] = @ \o news]
  BY DEF sendWebsocketMsg, ids
<1>6. \A i \in DOMAIN paths :
         /\ \A r \in requests : r.id # ids[i]
         /\ \A s \in Sockets : \A m \in Range(up[s]) \union Range(down[s]) : m.id # ids[i]
  <2>1. \A i \in DOMAIN paths : ids[i] \in Unused
    BY <1>3
  <2>2. \A s \in Sockets : \A m \in Range(up[s]) \union Range(down[s]) : m.id \in Travelling
    BY DEF Travelling, InQueue, Range
  <2> QED BY <2>1, <2>2 DEF Unused
<1>7. \A s \in Sockets : \A m \in Range(up'[s]) :
         m \in Range(up[s]) \/ \E i \in DOMAIN paths : m = news[i]
  <2> TAKE s \in Sockets
  <2> DEFINE All == Asked \union {news[i] : i \in 1 .. Len(paths)}
  <2>1. news \in Seq(All) /\ DOMAIN news = DOMAIN paths
    <3>1. news \in [1 .. Len(paths) -> All]
      BY <1>1
    <3> QED BY <1>1, <3>1, SeqDef
  <2> HIDE DEF news
  <2>2. up[s] \in Seq(All)
    <3>1. up[s] \in Seq(Asked) /\ Asked \subseteq All
      BY DEF TypeInv
    <3> QED BY <3>1, SeqMonotonic
  <2>3. Range(up[s] \o news) = Range(up[s]) \union Range(news)
    BY <2>1, <2>2, RangeConcatenation
  <2>4. up'[s] = up[s] \/ up'[s] = up[s] \o news
    BY <1>5 DEF TypeInv
  <2>5. \A m \in Range(news) : \E i \in DOMAIN paths : m = news[i]
    BY <2>1 DEF Range
  <2> QED BY <2>3, <2>4, <2>5
<1>8. \A i \in DOMAIN paths : news[i].id = ids[i] /\ news[i].path = paths[i]
  OBVIOUS
<1>9. \A i \in DOMAIN paths : New(i).id = ids[i] /\ New(i).path = paths[i]
  OBVIOUS
<1> HIDE DEF news, New
<1>10. \A i \in DOMAIN paths : New(i) \notin requests
  BY <1>6, <1>9
<1>11. \A i, j \in DOMAIN paths : ids[i] = ids[j] => i = j
  BY <1>3
<1>12. ASSUME NEW r \in requests', NEW q \in requests', r.id = q.id PROVE r = q
  <2>1. CASE r \in table /\ q \in table
    BY <1>12, <2>1 DEF TimerInv
  <2>2. ASSUME NEW i \in DOMAIN paths, r = New(i) PROVE r = q
    <3>1. q \notin table
      BY <1>6, <1>9, <1>12, <2>2
    <3>2. PICK j \in DOMAIN paths : q = New(j)
      BY <1>4, <3>1
    <3> QED BY <1>9, <1>11, <1>12, <2>2, <3>2
  <2>3. ASSUME NEW i \in DOMAIN paths, q = New(i) PROVE r = q
    <3>1. r \notin table
      BY <1>6, <1>9, <1>12, <2>3
    <3>2. PICK j \in DOMAIN paths : r = New(j)
      BY <1>4, <3>1
    <3> QED BY <1>9, <1>11, <1>12, <2>3, <3>2
  <2> QED BY <1>4, <2>1, <2>2, <2>3
<1>13. ASSUME NEW s \in Sockets, NEW m \in Range(up'[s]) \union Range(down'[s]),
              NEW r \in requests', r.id = m.id
       PROVE  r.path = m.path
  <2>1. CASE m \in Range(up[s]) \union Range(down[s])
    <3>1. r \in table
      BY <1>4, <1>6, <1>9, <1>13, <2>1
    <3> QED BY <1>13, <2>1, <3>1 DEF TimerInv
  <2>2. ASSUME NEW i \in DOMAIN paths, m = news[i] PROVE r.path = m.path
    <3>1. r.id = ids[i] /\ m.path = paths[i]
      BY <1>8, <1>13, <2>2
    <3>2. r \notin table
      BY <1>6, <3>1
    <3>3. PICK j \in DOMAIN paths : r = New(j)
      BY <1>4, <3>2
    <3> QED BY <1>9, <1>11, <3>1, <3>3
  <2> QED BY <1>7, <2>1, <2>2
<1>14. ASSUME NEW l, \A i \in DOMAIN paths : paths[i] # l
       PROVE  Under(requests', l) = Under(table, l)
  BY <1>4, <1>9, <1>14 DEF Under
<1>15. ASSUME NEW i \in DOMAIN paths
       PROVE  /\ New(i) \notin table
              /\ Under(requests', paths[i]) = Under(table, paths[i]) \union {New(i)}
  <2>1. \A j \in DOMAIN paths : New(j).path = paths[i] => j = i
    BY <1>9
  <2>2. New(i).path = paths[i]
    BY <1>9
  <2> QED BY <1>4, <1>10, <2>1, <2>2 DEF Under
<1> QED BY <1>12, <1>13, <1>14, <1>15

(* An answer somebody waits for ends one request, which has its path. *)
LEMMA AnswerEndsOne ==
    ASSUME TimerInv, NEW s \in Sockets, NEW m \in Range(down[s]),
           {r \in requests : r.id = m.id} # {}
    PROVE  \E r \in requests : {q \in requests : q.id = m.id} = {r} /\ r.path = m.path
<1>1. PICK r \in requests : r.id = m.id
  OBVIOUS
<1>2. {q \in requests : q.id = m.id} = {r}
  BY <1>1 DEF TimerInv
<1>3. r.path = m.path
  BY <1>1 DEF TimerInv
<1> QED BY <1>2, <1>3

(* The password is sent. *)
LEMMA TimerOpens ==
    ASSUME TypeInv, TimerInv, NEW s \in Sockets, onWebsocketOpen(s)
    PROVE  TimerInv'
<1>1. sendWebsocketMsg(requests, <<"password">>, psd) /\ UNCHANGED <<down, timers, opened>>
  BY DEF onWebsocketOpen
<1>2. psd \in Nat \union BOOLEAN /\ <<"password">> \in Seq(Paths)
  BY LoopsArePaths DEF TypeInv, ApiTypeOK
<1>3. \A i, j \in DOMAIN <<"password">> : <<"password">>[i] = <<"password">>[j] => i = j
  OBVIOUS
<1>4. \A l \in LoopSet : \A i \in DOMAIN <<"password">> : <<"password">>[i] # l
  BY WebApiAssumption DEF WebApiAssumption, LoopSet
<1>5. /\ \A r, q \in requests' : r.id = q.id => r = q
      /\ \A t \in Sockets : \A m \in Range(up'[t]) \union Range(down'[t]) :
            \A r \in requests' : r.id = m.id => r.path = m.path
      /\ \A l \in LoopSet : Under(requests', l) = Under(requests, l)
  BY <1>1, <1>2, <1>3, <1>4, SendDraws
<1> QED BY <1>1, <1>5 DEF TimerInv

(* A timer becomes a request. *)
LEMMA TimerPolls ==
    ASSUME TypeInv, TimerInv, NEW l \in LoopSet, Poll(l)
    PROVE  TimerInv'
<1>1. /\ sendWebsocketMsg(requests, <<l>>, page.hash) /\ UNCHANGED <<down, opened>>
      /\ timers[l] > 0 /\ timers' = [timers EXCEPT ![l] = @ - 1]
  BY DEF Poll
<1>2. page.hash \in Nat \union BOOLEAN /\ <<l>> \in Seq(Paths)
  BY DEF TypeInv, ApiTypeOK, Paths
<1>3. /\ DOMAIN <<l>> = {1} /\ <<l>>[1] = l
      /\ \A i, j \in DOMAIN <<l>> : <<l>>[i] = <<l>>[j] => i = j
  OBVIOUS
<1>4. /\ \A r, q \in requests' : r.id = q.id => r = q
      /\ \A t \in Sockets : \A m \in Range(up'[t]) \union Range(down'[t]) :
            \A r \in requests' : r.id = m.id => r.path = m.path
      /\ \A k : (\A i \in DOMAIN <<l>> : <<l>>[i] # k) =>
            Under(requests', k) = Under(requests, k)
      /\ \A i \in DOMAIN <<l>> : \E r :
            r \notin requests /\ Under(requests', <<l>>[i]) = Under(requests, <<l>>[i]) \union {r}
  <2>1. requests \subseteq requests /\ \A t \in Sockets : Range(down'[t]) \subseteq Range(down[t])
    BY <1>1
  <2> QED BY <1>1, <1>2, <1>3, <2>1, SendDraws
<1>5. /\ IsFiniteSet(Under(requests', l))
      /\ timers'[l] + Cardinality(Under(requests', l)) = opened'
  <2>1. PICK r : r \notin requests /\ Under(requests', l) = Under(requests, l) \union {r}
    BY <1>3, <1>4
  <2> DEFINE old == Under(requests, l)
  <2>2. IsFiniteSet(old) /\ timers[l] + Cardinality(old) = opened
    BY DEF TimerInv
  <2>3. r \notin old
    BY <2>1 DEF Under
  <2>4. Under(requests', l) = old \union {r}
    BY <2>1
  <2> HIDE DEF old
  <2>5. IsFiniteSet(old \union {r}) /\ Cardinality(old \union {r}) = Cardinality(old) + 1
    BY <2>2, <2>3, FS_AddElement
  <2>6. Cardinality(old) \in Nat
    BY <2>2, FS_CardinalityType
  <2>7. timers[l] \in Nat /\ timers'[l] = timers[l] - 1
    BY <1>1 DEF TypeInv, ApiTypeOK
  <2> QED BY <1>1, <2>2, <2>4, <2>5, <2>6, <2>7
<1>6. \A k \in LoopSet \ {l} : timers'[k] = timers[k]
  BY <1>1 DEF TypeInv, ApiTypeOK
<1>7. \A k \in LoopSet \ {l} : Under(requests', k) = Under(requests, k)
  BY <1>3, <1>4
<1>8. \A k \in LoopSet : /\ IsFiniteSet(Under(requests', k))
                         /\ timers'[k] + Cardinality(Under(requests', k)) = opened'
  BY <1>1, <1>5, <1>6, <1>7 DEF TimerInv
<1> QED BY <1>4, <1>8 DEF TimerInv

(* The answer to the password: each loop has one more request. *)
LEMMA TimerStarts ==
    ASSUME TypeInv, TimerInv, NEW m, NEW r \in requests, r.path = "password",
           Connected(m, {r}), \A s \in Sockets : Range(down'[s]) \subseteq Range(down[s])
    PROVE  TimerInv'
<1>1. /\ sendWebsocketMsg(requests \ {r}, Loops, page.hash)
      /\ UNCHANGED timers /\ opened' = opened + 1
  BY DEF Connected
<1>2. page.hash \in Nat \union BOOLEAN /\ Loops \in Seq(Paths)
  BY LoopsArePaths DEF TypeInv, ApiTypeOK
<1>3. \A i, j \in DOMAIN Loops : Loops[i] = Loops[j] => i = j
  BY WebApiAssumption DEF WebApiAssumption
<1>4. /\ \A p, q \in requests' : p.id = q.id => p = q
      /\ \A t \in Sockets : \A n \in Range(up'[t]) \union Range(down'[t]) :
            \A q \in requests' : q.id = n.id => q.path = n.path
      /\ \A i \in DOMAIN Loops : \E q :
            /\ q \notin requests \ {r}
            /\ Under(requests', Loops[i]) = Under(requests \ {r}, Loops[i]) \union {q}
  BY <1>1, <1>2, <1>3, SendDraws
<1>5. ASSUME NEW l \in LoopSet
      PROVE  /\ IsFiniteSet(Under(requests', l))
             /\ timers'[l] + Cardinality(Under(requests', l)) = opened'
  <2>1. PICK i \in DOMAIN Loops : l = Loops[i]
    BY DEF LoopSet
  <2>2. l # "password"
    BY <2>1, WebApiAssumption DEF WebApiAssumption
  <2> DEFINE old == Under(requests, l)
  <2>3. Under(requests \ {r}, l) = old
    BY <2>2 DEF Under
  <2>4. PICK q : q \notin requests \ {r} /\ Under(requests', l) = old \union {q}
    BY <1>4, <2>1, <2>3
  <2>5. q \notin old
    BY <2>2, <2>4 DEF Under
  <2>6. IsFiniteSet(old) /\ timers[l] + Cardinality(old) = opened
    BY DEF TimerInv
  <2> HIDE DEF old
  <2>7. IsFiniteSet(old \union {q}) /\ Cardinality(old \union {q}) = Cardinality(old) + 1
    BY <2>5, <2>6, FS_AddElement
  <2>8. Cardinality(old) \in Nat
    BY <2>6, FS_CardinalityType
  <2>9. timers[l] \in Nat
    BY DEF TypeInv, ApiTypeOK
  <2> QED BY <1>1, <2>4, <2>6, <2>7, <2>8, <2>9
<1> QED BY <1>4, <1>5 DEF TimerInv

LEMMA TimerReads ==
    ASSUME TypeInv, TimerInv, NEW s \in Sockets, pushMessage(s)
    PROVE  TimerInv'
<1> DEFINE m == Head(down[s])
           callbacks == {r \in requests : r.id = m.id}
<1>1. down[s] # <<>> /\ down[s] \in Seq(Told) /\ down' = [down EXCEPT ![s] = Tail(@)]
  BY DEF pushMessage, TypeInv
<1>2. m \in Range(down[s]) /\ \A t \in Sockets : Range(down'[t]) \subseteq Range(down[t])
  BY <1>1, QueueRange DEF TypeInv
<1>3. CASE callbacks = {}
  <2>1. UNCHANGED <<requests, timers, opened, up>>
    BY <1>3 DEF pushMessage, Unexpected
  <2> QED BY <1>2, <2>1, TimerLess
<1>4. CASE callbacks # {}
  <2>1. PICK r \in requests : callbacks = {r} /\ r.path = m.path
    BY <1>2, <1>4, AnswerEndsOne
  <2>2. IF m.path = "password" THEN Connected(m, callbacks) ELSE Answered(m, callbacks)
    BY <1>4 DEF pushMessage
  <2> HIDE DEF m, callbacks
  <2>3. CASE m.path = "password"
    BY <1>2, <2>1, <2>2, <2>3, TimerStarts
  <2>4. CASE m.path # "password"
    <3>1. requests' = requests \ {r} /\ Rearm(r.path) /\ UNCHANGED <<opened, up>>
      BY <2>1, <2>2, <2>4 DEF Answered
    <3> QED BY <1>2, <3>1, RequestEnds
  <2> QED BY <2>3, <2>4
<1> QED BY <1>3, <1>4

(* The server answers a request with its id and path. *)
LEMMA TimerAnswered ==
    ASSUME TypeInv, TimerInv, NEW s \in Sockets, HandleWs(s)
    PROVE  TimerInv'
<1> DEFINE m == Head(up[s])
<1>1. /\ up[s] # <<>> /\ up[s] \in Seq(Asked) /\ up' = [up EXCEPT ![s] = Tail(@)]
      /\ UNCHANGED <<requests, timers, opened>>
  BY DEF HandleWs, pageVars, TypeInv
<1>2. /\ m \in Asked /\ m \in Range(up[s])
      /\ \A t \in Sockets : Range(up'[t]) \subseteq Range(up[t])
  BY <1>1, HeadTailProperties, QueueRange DEF TypeInv
<1> HIDE DEF m
<1>3. CASE UNCHANGED down
  BY <1>1, <1>2, <1>3, TimerLess
<1>4. ASSUME NEW a \in Told, down' = [down EXCEPT ![s] = Append(@, a)],
             a.id = m.id, a.path = m.path
      PROVE  TimerInv'
  <2>1. /\ Range(down'[s]) = Range(down[s]) \union {a}
        /\ \A t \in Sockets \ {s} : down'[t] = down[t]
    BY <1>4, QueueRange DEF TypeInv
  <2>2. \A t \in Sockets : \A n \in Range(up'[t]) \union Range(down'[t]) :
           \E o \in Range(up[t]) \union Range(down[t]) : o.id = n.id /\ o.path = n.path
    BY <1>2, <1>4, <2>1
  <2> QED BY <1>1, <2>2, TimerUntouched
<1>5. CASE CheckPassword(s, m)
  <2>1. m.path = "password" => Answer(m, "success", <<>>) \in Told
    BY <1>2 DEF Answer, Asked, Told
  <2>2. Answer(m, "success", <<>>).id = m.id /\ Answer(m, "success", <<>>).path = m.path
    BY DEF Answer
  <2> QED BY <1>3, <1>4, <1>5, <2>1, <2>2 DEF CheckPassword
<1>6. CASE OnMessage(s, m)
  <2>1. Answer(m, "error", <<>>) \in Told
    BY <1>2 DEF Answer, Asked, Told
  <2>2. Get(m.arg) \in Bodies
    BY DEF Get, Bodies, TypeInv, ApiTypeOK
  <2>3. <<Get(m.arg)>> \in Seq(Bodies) /\ <<Get(m.arg)>> # <<>>
    BY <2>2
  <2>4. Answer(m, "success", <<Get(m.arg)>>) \in Told
    BY <1>2, <2>3 DEF Answer, Asked, Told
  <2>5. \A c, b : Answer(m, c, b).id = m.id /\ Answer(m, c, b).path = m.path
    BY DEF Answer
  <2> QED BY <1>4, <1>6, <2>1, <2>4, <2>5 DEF OnMessage
<1> QED BY <1>5, <1>6 DEF HandleWs, m

LEMMA LoopsStep == TypeInv /\ TimerInv /\ [ApiNext]_apiVars => TimerInv'
<1> SUFFICES ASSUME TypeInv, TimerInv, [ApiNext]_apiVars PROVE TimerInv'
  OBVIOUS
<1>1. CASE UNCHANGED <<requests, timers, opened, up, down>>
  BY <1>1, TimerLess
<1>2. CASE handleConnect \/ RetryTimer \/ EditConfig \/ Restart
  BY <1>1, <1>2 DEF handleConnect, RetryTimer, EditConfig, Restart, pageVars, netVars
<1>3. CASE Reload
  <2>1. /\ \A s \in Sockets : up'[s] = <<>> /\ down'[s] = <<>>
        /\ requests' = {} /\ opened' = 0 /\ \A l \in LoopSet : timers'[l] = 0
    BY <1>3 DEF Reload
  <2>2. \A s \in Sockets : Range(up'[s]) \union Range(down'[s]) = {}
    BY <2>1, RangeOfNone
  <2>3. \A l \in LoopSet : Under(requests', l) = {}
    BY <2>1 DEF Under
  <2>4. IsFiniteSet({}) /\ Cardinality({}) = 0
    BY FS_EmptySet
  <2>5. ASSUME NEW l \in LoopSet
        PROVE  /\ IsFiniteSet(Under(requests', l))
               /\ timers'[l] + Cardinality(Under(requests', l)) = opened'
    <3>1. IsFiniteSet(Under(requests', l)) /\ Cardinality(Under(requests', l)) = 0
      BY <2>3, <2>4
    <3>2. timers'[l] = 0 /\ opened' = 0
      BY <2>1
    <3> QED BY <3>1, <3>2
  <2> QED BY <2>1, <2>2, <2>5 DEF TimerInv
<1>4. ASSUME NEW s \in Sockets, onWebsocketOpen(s) PROVE TimerInv'
  BY <1>4, TimerOpens
<1>5. ASSUME NEW s \in Sockets, onWebsocketClose(s) PROVE TimerInv'
  <2>1. /\ up' = [up EXCEPT ![s] = <<>>] /\ down' = [down EXCEPT ![s] = <<>>]
        /\ UNCHANGED <<requests, timers, opened>>
    BY <1>5 DEF onWebsocketClose
  <2>2. \A t \in Sockets : /\ Range(up'[t]) \subseteq Range(up[t])
                           /\ Range(down'[t]) \subseteq Range(down[t])
    BY <2>1, RangeOfNone DEF TypeInv
  <2> QED BY <2>1, <2>2, TimerLess
<1>6. ASSUME NEW s \in Sockets, pushMessage(s) PROVE TimerInv'
  BY <1>6, TimerReads
<1>7. ASSUME NEW s \in Sockets, HandleWs(s) PROVE TimerInv'
  BY <1>7, TimerAnswered
<1>8. ASSUME NEW s \in Sockets, Break(s) PROVE TimerInv'
  BY <1>1, <1>8 DEF Break, pageVars
<1>9. ASSUME NEW l \in LoopSet, Poll(l) PROVE TimerInv'
  BY <1>9, TimerPolls
<1>10. ASSUME NEW r \in requests, sendTimeout(r) PROVE TimerInv'
  <2>1. requests' = requests \ {r} /\ Rearm(r.path) /\ UNCHANGED <<opened, up, down>>
    BY <1>10 DEF sendTimeout, netVars
  <2> QED BY <2>1, RequestEnds
<1>11. CASE UNCHANGED apiVars
  BY <1>1, <1>11 DEF apiVars, pageVars, netVars
<1> QED BY <1>2, <1>3, <1>4, <1>5, <1>6, <1>7, <1>8, <1>9, <1>10, <1>11 DEF ApiNext

(* Neither a failure, nor a timeout, nor a late answer, nor a reconnect ever
   stops a loop or starts it twice: it has one timer or one request for each
   time the page was told that it is connected. *)
THEOREM LoopsKeepRunning == ApiSpec => []LoopsKept
<1> QED BY TypeInit, TypeStep, TimerInvInit, LoopsStep, TimerInvShows, PTL DEF ApiSpec
=============================================================================
