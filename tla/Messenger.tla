------------------------------ MODULE Messenger ------------------------------
(***************************************************************************)
(* The request/reply layer every part of linker talks through: one         *)
(* MessengerSender, the calls that run on it concurrently, and the         *)
(* connections they use.                                                   *)
(*                                                                         *)
(* A call of SendReply takes a number from NumberSpaceUInt32 (an atomic    *)
(* reset, an atomic increment and a separate read), registers itself under *)
(* that number in "sends", writes the request and waits for Response to    *)
(* complete it or for its timer.  SendOnly numbers and writes the request  *)
(* and waits for nothing.                                                  *)
(*                                                                         *)
(* The peer is any program that answers each request at most once, in any  *)
(* order, or never (an exception in a handler, an empty ResponseData).     *)
(* A connection is one TcpConnection object: once down it stays down.      *)
(***************************************************************************)
EXTENDS Naturals

CONSTANTS
    Calls,      \* the SendReply and SendOnly invocations
    Conns,      \* the TcpConnection objects
    None,       \* no call
    MaxId,      \* uint.MaxValue
    WrapAt      \* uint.MaxValue - 10000

ASSUME NoneIsNoCall == None \notin Calls
ASSUME IdRange == MaxId \in Nat /\ WrapAt \in 0..MaxId

VARIABLES
    num,        \* NumberSpaceUInt32.num
    sends,      \* MessengerSender.sends: number -> the call registered under it
    pc,         \* where each call is
    kind,       \* "reply" for SendReply, "only" for SendOnly
    round,      \* 2 once SendOnly had to number the message (RequestId was 0)
    id,         \* MessageRequestWrap.RequestId of each call
    conn,       \* MessageRequestWrap.Connection of each call
    tcs,        \* the TaskCompletionSource of each call
    answer,     \* the call whose reply the TaskCompletionSource holds
    result,     \* what the call returned
    requests,   \* calls whose request is on its way to, or held by, the peer
    responses,  \* calls whose reply is on its way back
    link        \* each connection: up, stalled (the peer stopped reading) or down

vars == <<num, sends, pc, kind, round, id, conn, tcs, answer, result,
          requests, responses, link>>
callVars == <<kind, conn, round, id>>
wireVars == <<requests, responses, link>>

Ids == 0..MaxId
PCs == {"idle", "cas", "inc", "read", "add", "check", "write", "wait",
        "expire", "done"}

(* The calls that ran before these left num anywhere and nothing registered. *)
Init ==
    /\ num \in Ids
    /\ sends = [i \in Ids |-> None]
    /\ pc = [c \in Calls |-> "idle"]
    /\ kind = [c \in Calls |-> "reply"]
    /\ round = [c \in Calls |-> 1]
    /\ id = [c \in Calls |-> 0]
    /\ conn \in [Calls -> Conns]
    /\ tcs = [c \in Calls |-> "none"]
    /\ answer = [c \in Calls |-> None]
    /\ result = [c \in Calls |-> "none"]
    /\ requests = {}
    /\ responses = {}
    /\ link = [k \in Conns |-> "up"]

------------------------------------------------------------------------------
(* IConnection.Connected also expires after 15 s without traffic, so on a
   stalled connection a call may read it either way. *)
MayBeConnected(k) == link[k] # "down"
MayBeExpired(k) == link[k] # "up"

Goto(c, p) == pc' = [pc EXCEPT ![c] = p]

Finish(c, r) ==
    /\ Goto(c, "done")
    /\ result' = [result EXCEPT ![c] = r]

(* sends.TryRemove *)
Unregister(i) == sends' = [sends EXCEPT ![i] = None]

(* tcs.TrySetResult: the first result stays *)
Complete(c, r, from) ==
    IF tcs[c] = "none"
    THEN /\ tcs' = [tcs EXCEPT ![c] = r]
         /\ answer' = [answer EXCEPT ![c] = from]
    ELSE UNCHANGED <<tcs, answer>>

------------------------------------------------------------------------------
(* SendReply up to the allocation of the number *)
SendReply(c) ==
    /\ pc[c] = "idle"
    /\ kind' = [kind EXCEPT ![c] = "reply"]
    /\ \/ /\ MayBeExpired(conn[c])
          /\ Finish(c, "NOT_CONNECT")
       \/ /\ MayBeConnected(conn[c])
          /\ Goto(c, "cas")
          /\ UNCHANGED result
    /\ UNCHANGED <<num, sends, round, id, conn, tcs, answer, wireVars>>

(* A call of SendOnly goes straight to its own test of the connection. *)
SendOnly(c) ==
    /\ pc[c] = "idle"
    /\ kind' = [kind EXCEPT ![c] = "only"]
    /\ Goto(c, "check")
    /\ UNCHANGED <<num, sends, round, id, conn, tcs, answer, result, wireVars>>

(* NumberSpaceUInt32.Increment: three accesses to num, none of them tied to
   the next. *)
IncrementReset(c) ==
    /\ pc[c] = "cas"
    /\ num' = IF num = WrapAt THEN 0 ELSE num
    /\ Goto(c, "inc")
    /\ UNCHANGED <<sends, callVars, tcs, answer, result, wireVars>>

IncrementAddUnbounded(c) ==     \* mutant: no wrap-around of the 32 bits
    /\ pc[c] = "inc"
    /\ num' = num + 1
    /\ Goto(c, "read")
    /\ UNCHANGED <<sends, callVars, tcs, answer, result, wireVars>>

IncrementAdd(c) ==
    /\ pc[c] = "inc"
    /\ num' = IF num = MaxId THEN 0 ELSE num + 1
    /\ Goto(c, "read")
    /\ UNCHANGED <<sends, callVars, tcs, answer, result, wireVars>>

IncrementRead(c) ==
    /\ pc[c] = "read"
    /\ id' = [id EXCEPT ![c] = num]
    /\ Goto(c, IF round[c] = 1 THEN "add" ELSE "write")
    /\ UNCHANGED <<num, sends, kind, round, conn, tcs, answer, result, wireVars>>

(* sends.TryAdd, whose result SendReply ignores *)
Register(c) ==
    /\ pc[c] = "add"
    /\ sends' = IF sends[id[c]] = None
                THEN [sends EXCEPT ![id[c]] = c] ELSE sends
    /\ Goto(c, "check")
    /\ UNCHANGED <<num, callVars, tcs, answer, result, wireVars>>

(* SendOnly's own test of the connection.  When it fails SendReply removes
   what is registered under its number and completes itself. *)
SendOnlyCheck(c) ==
    /\ pc[c] = "check"
    /\ \/ /\ MayBeConnected(conn[c])
          /\ IF id[c] = 0
             THEN Goto(c, "cas") /\ round' = [round EXCEPT ![c] = 2]
             ELSE Goto(c, "write") /\ UNCHANGED round
          /\ UNCHANGED <<sends, tcs, answer, result>>
       \/ /\ MayBeExpired(conn[c])
          /\ kind[c] = "only"
          /\ Finish(c, "NOT_CONNECT")
          /\ UNCHANGED <<sends, tcs, answer, round>>
       \/ /\ MayBeExpired(conn[c])
          /\ kind[c] = "reply"
          /\ Unregister(id[c])
          /\ Complete(c, "NOT_CONNECT", None)
          /\ Goto(c, "wait")
          /\ UNCHANGED <<result, round>>
    /\ UNCHANGED <<num, id, conn, kind, wireVars>>

(* TcpConnection.SendAsync.  It answers true whatever happens: when the
   connection is already gone, and when the write fails, which also disposes
   of the connection.  On a stalled connection it does not return. *)
Written(c) ==
    IF kind[c] = "only" THEN Finish(c, "SENT")
    ELSE Goto(c, "wait") /\ UNCHANGED result

SendAsync(c) ==
    /\ pc[c] = "write"
    /\ link[conn[c]] # "stalled"
    /\ Written(c)
    /\ requests' = IF link[conn[c]] = "up" /\ kind[c] = "reply"
                   THEN requests \cup {c} ELSE requests
    /\ UNCHANGED <<num, sends, callVars, tcs, answer, responses, link>>

(* tcs.Task.WaitAsync returns the result *)
Return(c) ==
    /\ pc[c] = "wait"
    /\ tcs[c] # "none"
    /\ Finish(c, tcs[c])
    /\ UNCHANGED <<num, sends, callVars, tcs, answer, wireVars>>

TimeoutWhenDown(c) ==           \* mutant: the timer only runs on a dead connection
    /\ pc[c] = "wait"
    /\ tcs[c] = "none"
    /\ link[conn[c]] = "down"
    /\ Complete(c, "NOT_CONNECT", None)
    /\ Goto(c, "expire")
    /\ UNCHANGED <<num, sends, callVars, result, wireVars>>

(* ... or throws TimeoutException *)
Timeout(c) ==
    /\ pc[c] = "wait"
    /\ tcs[c] = "none"
    /\ Complete(c, "NOT_CONNECT", None)
    /\ Goto(c, "expire")
    /\ UNCHANGED <<num, sends, callVars, result, wireVars>>

ExpireKeeping(c) ==             \* mutant: the entry stays behind
    /\ pc[c] = "expire"
    /\ Finish(c, "TIMEOUT")
    /\ UNCHANGED <<num, sends, callVars, tcs, answer, wireVars>>

ExpireLatest(c) ==              \* mutant: removes the newest number, not its own
    /\ pc[c] = "expire"
    /\ Unregister(num)
    /\ Finish(c, "TIMEOUT")
    /\ UNCHANGED <<num, callVars, tcs, answer, wireVars>>

Expire(c) ==
    /\ pc[c] = "expire"
    /\ Unregister(id[c])
    /\ Finish(c, "TIMEOUT")
    /\ UNCHANGED <<num, callVars, tcs, answer, wireVars>>

------------------------------------------------------------------------------
(* The peer's handler replies; the reply carries the number of the request. *)
Reply(d) ==
    /\ d \in requests
    /\ link[conn[d]] # "down"
    /\ requests' = requests \ {d}
    /\ responses' = responses \cup {d}
    /\ UNCHANGED <<num, sends, pc, callVars, tcs, answer, result, link>>

(* MessengerSender.Response: takes whatever is registered under the number,
   on whichever connection the reply came; an unknown number is dropped. *)
ResponseTo(d, i) ==
    /\ d \in responses
    /\ responses' = responses \ {d}
    /\ IF sends[i] = None
       THEN UNCHANGED <<sends, tcs, answer>>
       ELSE Unregister(i) /\ Complete(sends[i], "OK", d)
    /\ UNCHANGED <<num, pc, callVars, result, requests, link>>

ResponseShort(d) == ResponseTo(d, id[d] % 2)   \* mutant: the number is truncated

Response(d) == ResponseTo(d, id[d])

(* The connection: the peer stops reading and goes on, or the connection
   ends and takes what was on it along. *)
Stall(k) ==
    /\ link[k] = "up"
    /\ link' = [link EXCEPT ![k] = "stalled"]
    /\ UNCHANGED <<num, sends, pc, callVars, tcs, answer, result, requests, responses>>

Resume(k) ==
    /\ link[k] = "stalled"
    /\ link' = [link EXCEPT ![k] = "up"]
    /\ UNCHANGED <<num, sends, pc, callVars, tcs, answer, result, requests, responses>>

Disponse(k) ==
    /\ link[k] # "down"
    /\ link' = [link EXCEPT ![k] = "down"]
    /\ requests' = {d \in requests : conn[d] # k}
    /\ responses' = {d \in responses : conn[d] # k}
    /\ UNCHANGED <<num, sends, pc, callVars, tcs, answer, result>>

CallStep(c) ==
    \/ SendReply(c) \/ SendOnly(c)
    \/ IncrementReset(c) \/ IncrementAdd(c) \/ IncrementRead(c)
    \/ Register(c) \/ SendOnlyCheck(c) \/ SendAsync(c)
    \/ Return(c) \/ Timeout(c) \/ Expire(c)

Next ==
    \/ \E c \in Calls : CallStep(c) \/ Reply(c) \/ Response(c)
    \/ \E k \in Conns : Stall(k) \/ Resume(k) \/ Disponse(k)

Spec == Init /\ [][Next]_vars

(* The thread pool runs every continuation and timer; nothing makes the peer
   answer, read on, or close. *)
Progress(c) ==
    \/ IncrementReset(c) \/ IncrementAdd(c) \/ IncrementRead(c)
    \/ Register(c) \/ SendOnlyCheck(c) \/ SendAsync(c)
    \/ Return(c) \/ Timeout(c) \/ Expire(c)

FairSpec == Spec /\ \A c \in Calls : WF_vars(Progress(c))

------------------------------------------------------------------------------
TypeOK ==
    /\ num \in Ids
    /\ sends \in [Ids -> Calls \cup {None}]
    /\ pc \in [Calls -> PCs]
    /\ kind \in [Calls -> {"reply", "only"}]
    /\ round \in [Calls -> {1, 2}]
    /\ id \in [Calls -> Ids]
    /\ conn \in [Calls -> Conns]
    /\ tcs \in [Calls -> {"none", "OK", "NOT_CONNECT"}]
    /\ answer \in [Calls -> Calls \cup {None}]
    /\ result \in [Calls -> {"none", "SENT", "OK", "NOT_CONNECT", "TIMEOUT"}]
    /\ requests \subseteq Calls
    /\ responses \subseteq Calls
    /\ link \in [Conns -> {"up", "stalled", "down"}]

(* The number a call registered under.  A call that drew 0 stays registered
   under 0 while SendOnly gives its message another number. *)
Key(c) == IF round[c] = 2 THEN 0 ELSE id[c]

(* A reply completes a call only if the request it answers carried the
   number the call is registered under: neither a late reply nor a reply on
   another connection can reach a call with a different number
   (MessengerSender.Response). *)
AnswerCarriesKey ==
    \A c \in Calls : answer[c] # None => id[answer[c]] = Key(c)

(* Once a call has returned, by its reply, its timer or a lost connection,
   nothing is registered for it any more, so "sends" does not grow with the
   number of calls.  Number 0 is the exception: the entry of a call that drew it
   stays for good, because SendOnly renumbers the message it is removed by. *)
NoLeak ==
    \A c \in Calls, i \in Ids \ {0} : sends[i] = c => pc[c] # "done"

(* A call whose number no other call drew stays registered until its reply
   comes or it gives up: no other call's failure, timeout or reply takes its
   entry away, so its own reply cannot be dropped. *)
Listening(c) ==
    /\ kind[c] = "reply"
    /\ pc[c] \in {"check", "write", "wait"}
    /\ round[c] = 1
    /\ tcs[c] = "none"

SoleOwnerStaysRegistered ==
    \A c \in Calls :
        (Listening(c) /\ id[c] # 0 /\ \A d \in Calls \ {c} : id[d] # id[c])
            => sends[id[c]] = c

(* SendReply's promise: what it returns is the reply to its own request.
   Two calls that overlap in Increment can draw the same number; then the
   first reply for that number completes whichever of them is registered. *)
OwnAnswer == \A c \in Calls : answer[c] \in {c, None}

(* A call that has written its request always returns, whatever the peer
   and the connection do: the timer covers the wait. *)
WrittenReturns == \A c \in Calls : pc[c] = "wait" ~> pc[c] = "done"
==============================================================================
