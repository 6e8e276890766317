------------------------------- MODULE WebApi -------------------------------
(***************************************************************************)
(* The connection of the web console to its machine: the websocket, the    *)
(* table of requests, the loops that keep the configuration and the        *)
(* sign-in state of the page up to date (linker.web/src/apis/request.js,   *)
(* views/Api.vue, provide.js), and the server's side of one websocket      *)
(* (linker.libs/web/WebServer.cs).                                         *)
(*                                                                         *)
(* A socket goes from "opening" to "open" and "closing" to "closed"; its   *)
(* close event is the step to "closed".  A request id and a socket are     *)
(* taken from a finite set again once nothing mentions them: the code's    *)
(* counters never return to a value.                                       *)
(***************************************************************************)
EXTENDS Naturals, Sequences, FiniteSets

CONSTANTS
    Ids,            \* request ids
    Loops,          \* the sequence of the loops Api.vue starts
    Sockets,        \* websockets
    MaxFaults,      \* lost connections and server runs, reconnects, reloads
    MaxEdits        \* states of the machine's configuration

ASSUME WebApiAssumption == /\ IsFiniteSet(Ids)
                           /\ Loops \in Seq(STRING)
                           /\ \A i \in DOMAIN Loops : Loops[i] # "password"
                           /\ \A i, j \in DOMAIN Loops : Loops[i] = Loops[j] => i = j
                           /\ "none" \notin Sockets
                           /\ MaxFaults \in Nat
                           /\ MaxEdits \in Nat

VARIABLES
    phase,          \* of each websocket
    ws,             \* the page's current websocket, NoSocket before the first
    flags,          \* websocketState: connected, connecting
    retry,          \* timers that will call initWebsocket
    psd,            \* is the password the page has the right one
    requests,       \* requests that wait for an answer or the timeout
    up,             \* of each websocket: requests on their way to the server
    down,           \* of each websocket: answers on their way to the page
    session,        \* of each websocket: has the server accepted the password
    timers,         \* of each loop: timers that will poll again
    opened,         \* how often this page was told that it is connected
    page,           \* the page's hashcode, configuration, and run it was loaded in
    server,         \* the server's version and configuration, its runs
    prompt          \* the server answers this page within the timeout of 15 s

pageVars == <<ws, flags, retry, psd, requests, timers, opened, page>>
netVars == <<phase, up, down, session>>
apiVars == <<pageVars, netVars, server, prompt>>

NoSocket == "none"
LoopSet == {Loops[i] : i \in DOMAIN Loops}
Disconnected == [connected |-> FALSE, connecting |-> FALSE]
Active == flags.connected \/ flags.connecting
Live == {s \in Sockets : phase[s] \in {"opening", "open"}}

-----------------------------------------------------------------------------
(* Requests *)

InQueue(q) == {q[i].id : i \in DOMAIN q}
Travelling == UNION {InQueue(up[s]) \union InQueue(down[s]) : s \in Sockets}
Unused == Ids \ (Travelling \union {r.id : r \in requests})

\* Requests are entered in the table whatever happens to them, and go out if
\* the current websocket is open; if not, they wait there for the timeout.
sendWebsocketMsg(table, paths, arg) ==
    LET ids == CHOOSE f \in [DOMAIN paths -> Unused] :
                   \A i, j \in DOMAIN paths : f[i] = f[j] => i = j
    IN /\ Cardinality(Unused) >= Len(paths)
       /\ requests' = table \union {[id |-> ids[i], path |-> paths[i]] : i \in DOMAIN paths}
       /\ up' = IF phase'[ws] # "open" THEN up
                ELSE [up EXCEPT ![ws] = @ \o
                          [i \in DOMAIN paths |-> [id |-> ids[i], path |-> paths[i], arg |-> arg]]]

\* Answered or not, a loop waits a second and polls again.
Rearm(path) ==
    timers' = IF path \in LoopSet THEN [timers EXCEPT ![path] = @ + 1] ELSE timers

\* The request is older than its timeout.  Either it or its answer was lost, or
\* the server is late, which counts as a fault.
sendTimeout(r) ==
    /\ \/ r.id \notin Travelling /\ UNCHANGED server
       \/ /\ r.id \in Travelling /\ ~prompt /\ server.faults < MaxFaults
          /\ server' = [server EXCEPT !.faults = @ + 1]
    /\ requests' = requests \ {r}
    /\ Rearm(r.path)
    /\ UNCHANGED <<netVars, ws, flags, retry, psd, opened, page, prompt>>

-----------------------------------------------------------------------------
(* The websocket *)

closeWebsocket == IF ws # NoSocket /\ ws \in Live THEN [phase EXCEPT ![ws] = "closing"]
                                                  ELSE phase

Fresh == {s \in Sockets : phase[s] = "closed"}

\* Mutant: the check of the flags is missing.
initWebsocketAlways(ph) ==
    /\ Fresh # {}
    /\ ws' = CHOOSE s \in Fresh : TRUE
    /\ phase' = [ph EXCEPT ![ws'] = "opening"]
    /\ flags' = [flags EXCEPT !.connecting = TRUE]
    /\ session' = [session EXCEPT ![ws'] = FALSE]

\* Nothing happens while a websocket is connected or connecting; otherwise
\* the old one is closed and a new one is opened.  ph: the phases the caller
\* leaves.
initWebsocket(ph) ==
    \/ /\ Active
       /\ phase' = ph
       /\ UNCHANGED <<ws, flags, session>>
    \/ /\ ~Active /\ Fresh # {}
       /\ ws' = CHOOSE s \in Fresh : TRUE
       /\ phase' = [s \in Sockets |-> IF s = ws' THEN "opening"
                                      ELSE IF s = ws THEN closeWebsocket[s] ELSE ph[s]]
       /\ flags' = [flags EXCEPT !.connecting = TRUE]
       /\ session' = [session EXCEPT ![ws'] = FALSE]

\* A password is given, by Api.vue when a page loads or by the user later.
handleConnect ==
    /\ \/ ws = NoSocket /\ prompt' \in BOOLEAN /\ UNCHANGED server
       \/ /\ ws # NoSocket /\ server.faults < MaxFaults
          /\ server' = [server EXCEPT !.faults = @ + 1]
          /\ UNCHANGED prompt
    /\ psd' \in BOOLEAN
    /\ page' = IF ws = NoSocket THEN [page EXCEPT !.run = server.run] ELSE page
    /\ initWebsocket(closeWebsocket)
    /\ UNCHANGED <<retry, requests, up, down, timers, opened>>

\* Mutant: the timer fires more than once.
RetryTimerTwice ==
    /\ retry' = retry - 1
    /\ initWebsocket(phase)
    /\ UNCHANGED <<psd, requests, up, down, timers, opened, page, server, prompt>>

RetryTimer ==
    /\ retry > 0
    /\ retry' = retry - 1
    /\ initWebsocket(phase)
    /\ UNCHANGED <<psd, requests, up, down, timers, opened, page, server, prompt>>

\* Mutant: the password is not sent.
onWebsocketOpenSilent(s) ==
    /\ phase[s] = "opening"
    /\ phase' = [phase EXCEPT ![s] = "open"]
    /\ UNCHANGED <<pageVars, up, down, session, server, prompt>>

onWebsocketOpen(s) ==
    /\ phase[s] = "opening"
    /\ phase' = [phase EXCEPT ![s] = "open"]
    /\ sendWebsocketMsg(requests, <<"password">>, psd)
    /\ UNCHANGED <<ws, flags, retry, psd, down, session, timers, opened, page,
                   server, prompt>>

\* Mutants: the flag stays; no timer is set.
onWebsocketCloseKept(s) ==
    /\ phase[s] = "closing"
    /\ phase' = [phase EXCEPT ![s] = "closed"]
    /\ flags' = [flags EXCEPT !.connecting = FALSE]
    /\ retry' = retry + 1
    /\ up' = [up EXCEPT ![s] = <<>>]
    /\ down' = [down EXCEPT ![s] = <<>>]
    /\ UNCHANGED <<ws, psd, requests, session, timers, opened, page, server, prompt>>
onWebsocketCloseFinal(s) ==
    /\ phase[s] = "closing"
    /\ phase' = [phase EXCEPT ![s] = "closed"]
    /\ flags' = Disconnected
    /\ up' = [up EXCEPT ![s] = <<>>]
    /\ down' = [down EXCEPT ![s] = <<>>]
    /\ UNCHANGED <<ws, retry, psd, requests, session, timers, opened, page, server, prompt>>

\* The close event, of whichever websocket it is.
onWebsocketClose(s) ==
    /\ phase[s] = "closing"
    /\ phase' = [phase EXCEPT ![s] = "closed"]
    /\ flags' = Disconnected
    /\ retry' = retry + 1
    /\ up' = [up EXCEPT ![s] = <<>>]
    /\ down' = [down EXCEPT ![s] = <<>>]
    /\ UNCHANGED <<ws, psd, requests, session, timers, opened, page, server, prompt>>

\* The answer to the password: Api.vue starts both loops on each of them.
Connected(m, callbacks) ==
    /\ flags' = [connected |-> TRUE, connecting |-> FALSE]
    /\ opened' = opened + 1
    /\ UNCHANGED <<timers, page, phase>>
    /\ sendWebsocketMsg(requests \ callbacks, Loops, page.hash)

\* Mutant: the configuration is taken only the first time.
AdoptConfigOnce(body) ==
    page' = [page EXCEPT !.hash = body.version,
                         !.seen = IF body.full /\ page.hash = 0 THEN body.edits ELSE @]

\* _getConfig: only Running comes with an unchanged version.
AdoptConfig(body) ==
    page' = [page EXCEPT !.hash = body.version,
                         !.seen = IF body.full THEN body.edits ELSE @]

\* Mutant: a loop that fails is not set up again.
AnsweredOnce(m, callbacks) ==
    /\ requests' = requests \ callbacks
    /\ IF m.code = "success" THEN Rearm(m.path) ELSE UNCHANGED timers
    /\ IF m.path = "config" /\ m.code = "success" THEN AdoptConfig(m.body[1])
                                                  ELSE UNCHANGED page
    /\ UNCHANGED <<flags, opened, up, phase>>

\* The callback of the request is called with what the answer says.
Answered(m, callbacks) ==
    /\ requests' = requests \ callbacks
    /\ Rearm(m.path)
    /\ IF m.path = "config" /\ m.code = "success" THEN AdoptConfig(m.body[1])
                                                  ELSE UNCHANGED page
    /\ UNCHANGED <<flags, opened, up, phase>>

\* A message nobody waits for goes to the listeners of its path: there are none.
Unexpected == UNCHANGED <<requests, timers, page, flags, opened, up, phase>>

\* onWebsocketMsg and pushMessage
pushMessage(s) ==
    /\ phase[s] = "open" /\ down[s] # <<>>
    /\ down' = [down EXCEPT ![s] = Tail(@)]
    /\ LET m == Head(down[s])
           callbacks == {r \in requests : r.id = m.id}
       IN IF callbacks = {} THEN Unexpected
          ELSE IF m.path = "password" THEN Connected(m, callbacks)
          ELSE Answered(m, callbacks)
    /\ UNCHANGED <<ws, retry, psd, session, server, prompt>>

-----------------------------------------------------------------------------
(* Callers *)

Poll(loop) ==
    /\ timers[loop] > 0
    /\ timers' = [timers EXCEPT ![loop] = @ - 1]
    /\ UNCHANGED phase
    /\ sendWebsocketMsg(requests, <<loop>>, page.hash)
    /\ UNCHANGED <<ws, flags, retry, psd, down, session, opened, page, server, prompt>>

\* A page that is loaded again: everything it knew is gone.
Reload ==
    /\ server.faults < MaxFaults /\ ws # NoSocket
    /\ server' = [server EXCEPT !.faults = @ + 1]
    /\ phase' = [s \in Sockets |-> "closed"]
    /\ ws' = NoSocket /\ flags' = Disconnected /\ retry' = 0 /\ opened' = 0
    /\ requests' = {}
    /\ timers' = [l \in LoopSet |-> 0]
    /\ page' = [hash |-> 0, seen |-> 0, run |-> 0]
    /\ up' = [s \in Sockets |-> <<>>] /\ down' = [s \in Sockets |-> <<>>]
    /\ session' = [s \in Sockets |-> FALSE]
    /\ UNCHANGED <<psd, prompt>>

-----------------------------------------------------------------------------
(* The server: one request of a websocket after the other *)

Get(known) ==
    [version |-> server.version, full |-> server.version # known, edits |-> server.edits]

Answer(m, code, body) ==
    [id |-> m.id, path |-> m.path, code |-> code, body |-> body]

\* Mutant: requests are handled at the same time, and answers overtake.
OnMessageConcurrent(s, m) ==
    /\ session[s]
    /\ down' = [down EXCEPT ![s] = <<Answer(m, "success", <<Get(m.arg)>>)>> \o @]
    /\ UNCHANGED <<session, phase, server>>

\* OnMessage: a handler that throws, counted as a fault, is answered too.
OnMessage(s, m) ==
    /\ session[s]
    /\ \/ /\ down' = [down EXCEPT ![s] = Append(@, Answer(m, "success", <<Get(m.arg)>>))]
          /\ UNCHANGED server
       \/ /\ server.faults < MaxFaults
          /\ down' = [down EXCEPT ![s] = Append(@, Answer(m, "error", <<>>))]
          /\ server' = [server EXCEPT !.faults = @ + 1]
    /\ UNCHANGED <<session, phase>>

\* The first message has to be the password; the websocket is closed if not.
CheckPassword(s, m) ==
    /\ ~session[s]
    /\ IF m.path = "password" /\ m.arg
       THEN /\ session' = [session EXCEPT ![s] = TRUE]
            /\ down' = [down EXCEPT ![s] = Append(@, Answer(m, "success", <<>>))]
            /\ UNCHANGED phase
       ELSE /\ phase' = [phase EXCEPT ![s] = "closing"]
            /\ UNCHANGED <<session, down>>
    /\ UNCHANGED server

HandleWs(s) ==
    /\ phase[s] = "open" /\ up[s] # <<>>
    /\ CheckPassword(s, Head(up[s])) \/ OnMessage(s, Head(up[s]))
    /\ up' = [up EXCEPT ![s] = Tail(@)]
    /\ UNCHANGED <<pageVars, prompt>>

EditConfig ==
    /\ server.edits < MaxEdits
    /\ server' = [server EXCEPT !.version = @ + 1, !.edits = @ + 1]
    /\ UNCHANGED <<pageVars, netVars, prompt>>

\* A connection is lost, or cannot be made.
Break(s) ==
    /\ server.faults < MaxFaults /\ s \in Live
    /\ phase' = [phase EXCEPT ![s] = "closing"]
    /\ server' = [server EXCEPT !.faults = @ + 1]
    /\ UNCHANGED <<pageVars, up, down, session, prompt>>

\* The process starts again with the saved configuration, and counts its
\* versions from the beginning.
Restart ==
    /\ server.faults < MaxFaults
    /\ phase' = [s \in Sockets |-> IF s \in Live THEN "closing" ELSE phase[s]]
    /\ server' = [server EXCEPT !.version = 1, !.run = @ + 1, !.faults = @ + 1]
    /\ UNCHANGED <<pageVars, up, down, session, prompt>>

-----------------------------------------------------------------------------

\* No page is loaded.
ApiInit ==
    /\ phase = [s \in Sockets |-> "closed"]
    /\ ws = NoSocket /\ flags = Disconnected /\ retry = 0 /\ opened = 0
    /\ psd = FALSE
    /\ requests = {}
    /\ timers = [l \in LoopSet |-> 0]
    /\ page = [hash |-> 0, seen |-> 0, run |-> 0]
    /\ up = [s \in Sockets |-> <<>>] /\ down = [s \in Sockets |-> <<>>]
    /\ session = [s \in Sockets |-> FALSE]
    /\ server = [version |-> 1, edits |-> 1, run |-> 1, faults |-> 0]
    /\ prompt = FALSE

ApiNext ==
    \/ handleConnect \/ RetryTimer \/ Reload
    \/ \E s \in Sockets : \/ onWebsocketOpen(s) \/ onWebsocketClose(s)
                          \/ pushMessage(s) \/ HandleWs(s) \/ Break(s)
    \/ \E l \in LoopSet : Poll(l)
    \/ \E r \in requests : sendTimeout(r)
    \/ EditConfig \/ Restart

\* Events and timers of the page happen, and the server reads what it is sent;
\* the user need not do anything.
ApiFairness ==
    /\ WF_apiVars(prompt /\ psd /\ ws = NoSocket /\ handleConnect) /\ WF_apiVars(RetryTimer)
    /\ WF_apiVars(\E s \in Sockets : onWebsocketOpen(s))
    /\ WF_apiVars(\E s \in Sockets : onWebsocketClose(s))
    /\ WF_apiVars(\E s \in Sockets : pushMessage(s))
    /\ WF_apiVars(\E s \in Sockets : HandleWs(s))
    /\ WF_apiVars(\E l \in LoopSet : Poll(l))
    /\ \A p \in LoopSet \union {"password"} :
          WF_apiVars(\E r \in requests : r.path = p /\ sendTimeout(r))

ApiSpec == ApiInit /\ [][ApiNext]_apiVars /\ ApiFairness

-----------------------------------------------------------------------------
(* Properties *)

\* Types of the variables.
ApiTypeOK ==
    /\ phase \in [Sockets -> {"opening", "open", "closing", "closed"}]
    /\ ws \in Sockets \union {NoSocket}
    /\ flags \in [connected : BOOLEAN, connecting : BOOLEAN]
    /\ retry \in Nat /\ opened \in Nat
    /\ psd \in BOOLEAN /\ prompt \in BOOLEAN
    /\ requests \subseteq [id : Ids, path : LoopSet \union {"password"}]
    /\ timers \in [LoopSet -> Nat]
    /\ session \in [Sockets -> BOOLEAN]
    /\ page \in [hash : Nat, seen : Nat, run : Nat]
    /\ server \in [version : Nat, edits : Nat, run : Nat, faults : Nat]

\* Reconnecting by timer, by the user and after a failure never leaves two
\* websockets alive: the handlers are shared by all of them (request.js:123-126).
OneSocket == \A s, t \in Sockets : phase[s] # "closed" /\ phase[t] # "closed" => s = t

\* The page believes to be connected only while the server has accepted its
\* password on the current websocket.
ConnectedIsAccepted ==
    flags.connected => ws # NoSocket /\ session[ws] /\ phase[ws] \in {"open", "closing"}

\* A page without a connection always has something that will bring it back:
\* a websocket whose events are still to come, or the timer.
NeverGivesUp ==
    ws # NoSocket => retry > 0 \/ (Active /\ phase[ws] # "closed")

\* Neither a failure, nor a timeout, nor a lost connection stops or doubles a
\* loop: there is one poll or timer of it for each time the page connected.
LoopsKept ==
    \A l \in LoopSet : timers[l] + Cardinality({r \in requests : r.path = l}) = opened

\* A page that was loaded since the machine started, and has the machine's
\* version, shows the machine's configuration (Api.vue, ConfigApiController.cs).
SameVersionSameConfig ==
    page.run = server.run /\ page.hash = server.version => page.seen = server.edits

\* With a server that answers in time and the right password, the page gets
\* connected and learns of the last change.
Follows ==
    <>[](prompt /\ psd) => <>[](flags.connected /\ page.hash = server.version)

\* The page's configuration is one the machine had, and never goes back to an
\* older one.
View == INSTANCE Replica WITH source <- server.edits, copy <- page.seen
Replicates == View!Spec
=============================================================================
