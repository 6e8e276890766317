--------------------------- MODULE Messenger_proofs ---------------------------
(***************************************************************************)
(* Proofs about Messenger, for any number of calls and connections and any *)
(* size of the number space.                                               *)
(*                                                                         *)
(* The inductive invariant Inv says, of every entry of "sends", that the   *)
(* call in it is registered under its own Key and is not over yet, and, of *)
(* every number, that it no longer changes once the call is past drawing   *)
(* it.                                                                     *)
(***************************************************************************)
EXTENDS Messenger, TLAPS

(* The call has drawn the number it registers under. *)
Past(c) ==
    \/ pc[c] \in {"check", "write", "wait", "expire", "done"}
    \/ round[c] = 2 /\ pc[c] \in {"cas", "inc", "read"}

(* The request of the call, if it has one, is written. *)
Sent(c) == pc[c] \in {"wait", "expire", "done"}

NumberInv ==
    \A c \in Calls :
        /\ pc[c] \in {"idle", "cas", "inc", "read"} => id[c] = 0
        /\ pc[c] \in {"idle", "add", "check"} => round[c] = 1
        /\ round[c] = 2 => Past(c)
        /\ pc[c] \in {"cas", "inc", "read", "add"} /\ round[c] = 1 => kind[c] = "reply"

EntryInv ==
    /\ \A i \in Ids, c \in Calls :
          sends[i] = c =>
              /\ i = Key(c)
              /\ kind[c] = "reply"
              /\ Past(c)
              /\ round[c] = 1 => /\ pc[c] # "done"
                                 /\ tcs[c] = "none" \/ pc[c] = "expire"
    /\ \A c \in Calls : ~Past(c) => tcs[c] = "none"

WireInv == \A d \in requests \cup responses : Sent(d)

AnswerInv ==
    \A c, d \in Calls : answer[c] = d => Past(c) /\ Sent(d) /\ id[d] = Key(c)

Inv == TypeOK /\ NumberInv /\ EntryInv /\ WireInv /\ AnswerInv
              /\ SoleOwnerStaysRegistered

------------------------------------------------------------------------------
(* The step of the system splits into one case per action. *)
LEMMA StepCases ==
    ASSUME [Next]_vars
    PROVE  \/ \E c \in Calls :
                 \/ SendReply(c) \/ SendOnly(c) \/ IncrementReset(c)
                 \/ IncrementAdd(c) \/ IncrementRead(c) \/ Register(c)
                 \/ SendOnlyCheck(c) \/ SendAsync(c) \/ Return(c)
                 \/ Timeout(c) \/ Expire(c) \/ Reply(c) \/ Response(c)
           \/ \E k \in Conns : Stall(k) \/ Resume(k) \/ Disponse(k)
           \/ UNCHANGED vars
BY DEF Next, CallStep

(* Every step keeps the types. *)
LEMMA TypeStep == TypeOK /\ [Next]_vars => TypeOK'
<1> SUFFICES ASSUME TypeOK, [Next]_vars PROVE TypeOK'
  OBVIOUS
<1> USE IdRange, NoneIsNoCall DEF TypeOK, Ids, PCs
<1>1. ASSUME NEW c \in Calls, SendReply(c) PROVE TypeOK'
  BY <1>1 DEF SendReply, Finish, Goto, wireVars
<1>2. ASSUME NEW c \in Calls, SendOnly(c) PROVE TypeOK'
  BY <1>2 DEF SendOnly, Goto, wireVars
<1>3. ASSUME NEW c \in Calls, IncrementReset(c) PROVE TypeOK'
  BY <1>3 DEF IncrementReset, Goto, callVars, wireVars
<1>4. ASSUME NEW c \in Calls, IncrementAdd(c) PROVE TypeOK'
  BY <1>4 DEF IncrementAdd, Goto, callVars, wireVars
<1>5. ASSUME NEW c \in Calls, IncrementRead(c) PROVE TypeOK'
  BY <1>5 DEF IncrementRead, Goto, wireVars
<1>6. ASSUME NEW c \in Calls, Register(c) PROVE TypeOK'
  BY <1>6 DEF Register, Goto, callVars, wireVars
<1>7. ASSUME NEW c \in Calls, SendOnlyCheck(c) PROVE TypeOK'
  BY <1>7 DEF SendOnlyCheck, Finish, Goto, Unregister, Complete, wireVars
<1>8. ASSUME NEW c \in Calls, SendAsync(c) PROVE TypeOK'
  BY <1>8 DEF SendAsync, Written, Finish, Goto, callVars
<1>9. ASSUME NEW c \in Calls, Return(c) PROVE TypeOK'
  BY <1>9 DEF Return, Finish, Goto, callVars, wireVars
<1>10. ASSUME NEW c \in Calls, Timeout(c) PROVE TypeOK'
  BY <1>10 DEF Timeout, Complete, Goto, callVars, wireVars
<1>11. ASSUME NEW c \in Calls, Expire(c) PROVE TypeOK'
  BY <1>11 DEF Expire, Unregister, Finish, Goto, callVars, wireVars
<1>12. ASSUME NEW c \in Calls, Reply(c) PROVE TypeOK'
  BY <1>12 DEF Reply, callVars
<1>13. ASSUME NEW c \in Calls, Response(c) PROVE TypeOK'
  <2>0. id[c] \in Ids /\ c \in responses
    BY <1>13 DEF Response, ResponseTo
  <2>1. CASE sends[id[c]] = None
    BY <1>13, <2>1 DEF Response, ResponseTo, callVars
  <2>2. CASE sends[id[c]] # None
    <3>1. PICK d \in Calls : d = sends[id[c]]
      BY <2>0, <2>2
    <3>2. /\ sends' = [sends EXCEPT ![id[c]] = None]
          /\ \/ /\ tcs[d] = "none"
                /\ tcs' = [tcs EXCEPT ![d] = "OK"]
                /\ answer' = [answer EXCEPT ![d] = c]
             \/ /\ tcs[d] # "none"
                /\ UNCHANGED <<tcs, answer>>
          /\ UNCHANGED <<num, pc, kind, conn, round, id, result, requests, link>>
          /\ responses' = responses \ {c}
      BY <1>13, <2>2, <3>1 DEF Response, ResponseTo, Unregister, Complete, callVars
    <3>3. sends' \in [Ids -> Calls \cup {None}]
      BY <2>0, <3>2
    <3>4. tcs' \in [Calls -> {"none", "OK", "NOT_CONNECT"}]
      <4>1. CASE tcs' = [tcs EXCEPT ![d] = "OK"]
        BY <4>1
      <4>2. CASE tcs' = tcs
        BY <4>2
      <4> QED BY <3>2, <4>1, <4>2
    <3>5. answer' \in [Calls -> Calls \cup {None}]
      <4>1. CASE answer' = [answer EXCEPT ![d] = c]
        BY <4>1
      <4>2. CASE answer' = answer
        BY <4>2
      <4> QED BY <3>2, <4>1, <4>2
    <3> QED BY <2>0, <3>2, <3>3, <3>4, <3>5
  <2> QED BY <2>1, <2>2
<1>14. ASSUME NEW k \in Conns, Stall(k) PROVE TypeOK'
  BY <1>14 DEF Stall, callVars
<1>15. ASSUME NEW k \in Conns, Resume(k) PROVE TypeOK'
  BY <1>15 DEF Resume, callVars
<1>16. ASSUME NEW k \in Conns, Disponse(k) PROVE TypeOK'
  BY <1>16 DEF Disponse, callVars
<1>17. CASE UNCHANGED vars
  BY <1>17 DEF vars
<1> QED BY <1>1, <1>2, <1>3, <1>4, <1>5, <1>6, <1>7, <1>8, <1>9, <1>10, <1>11, <1>12, <1>13, <1>14, <1>15, <1>16, <1>17, StepCases

(* A number is drawn once: afterwards only 0 is ever replaced. *)
LEMMA NumberStep == TypeOK /\ NumberInv /\ [Next]_vars => NumberInv'
<1> SUFFICES ASSUME TypeOK /\ NumberInv, [Next]_vars PROVE NumberInv'
  OBVIOUS
<1> USE IdRange, NoneIsNoCall DEF TypeOK, NumberInv, Past, Ids, PCs
<1>1. ASSUME NEW c \in Calls, SendReply(c) PROVE NumberInv'
  <2>1. CASE Finish(c, "NOT_CONNECT")
    BY <1>1, <2>1 DEF SendReply, Finish, Goto, wireVars
  <2>2. CASE Goto(c, "cas") /\ UNCHANGED result
    BY <1>1, <2>2 DEF SendReply, Finish, Goto, wireVars
  <2> QED BY <1>1, <2>1, <2>2 DEF SendReply, Finish, Goto, wireVars
<1>2. ASSUME NEW c \in Calls, SendOnly(c) PROVE NumberInv'
  BY <1>2 DEF SendOnly, Goto, wireVars
<1>3. ASSUME NEW c \in Calls, IncrementReset(c) PROVE NumberInv'
  BY <1>3 DEF IncrementReset, Goto, callVars, wireVars
<1>4. ASSUME NEW c \in Calls, IncrementAdd(c) PROVE NumberInv'
  BY <1>4 DEF IncrementAdd, Goto, callVars, wireVars
<1>5. ASSUME NEW c \in Calls, IncrementRead(c) PROVE NumberInv'
  BY <1>5 DEF IncrementRead, Goto, wireVars
<1>6. ASSUME NEW c \in Calls, Register(c) PROVE NumberInv'
  BY <1>6 DEF Register, Goto, callVars, wireVars
<1>7. ASSUME NEW c \in Calls, SendOnlyCheck(c) PROVE NumberInv'
  BY <1>7 DEF SendOnlyCheck, Finish, Goto, Unregister, Complete, wireVars
<1>8. ASSUME NEW c \in Calls, SendAsync(c) PROVE NumberInv'
  <2>1. CASE kind[c] = "only"
    BY <1>8, <2>1 DEF SendAsync, Written, Finish, Goto, callVars
  <2>2. CASE kind[c] = "reply"
    BY <1>8, <2>2 DEF SendAsync, Written, Finish, Goto, callVars
  <2> QED BY <1>8, <2>1, <2>2 DEF SendAsync, Written, Finish, Goto, callVars
<1>9. ASSUME NEW c \in Calls, Return(c) PROVE NumberInv'
  BY <1>9 DEF Return, Finish, Goto, callVars, wireVars
<1>10. ASSUME NEW c \in Calls, Timeout(c) PROVE NumberInv'
  BY <1>10 DEF Timeout, Complete, Goto, callVars, wireVars
<1>11. ASSUME NEW c \in Calls, Expire(c) PROVE NumberInv'
  BY <1>11 DEF Expire, Unregister, Finish, Goto, callVars, wireVars
<1>12. ASSUME NEW c \in Calls, Reply(c) PROVE NumberInv'
  BY <1>12 DEF Reply, callVars
<1>13. ASSUME NEW c \in Calls, Response(c) PROVE NumberInv'
  BY <1>13 DEF Response, ResponseTo, Unregister, Complete, callVars
<1>14. ASSUME NEW k \in Conns, Stall(k) PROVE NumberInv'
  BY <1>14 DEF Stall, callVars
<1>15. ASSUME NEW k \in Conns, Resume(k) PROVE NumberInv'
  BY <1>15 DEF Resume, callVars
<1>16. ASSUME NEW k \in Conns, Disponse(k) PROVE NumberInv'
  BY <1>16 DEF Disponse, callVars
<1>17. CASE UNCHANGED vars
  BY <1>17 DEF vars
<1> QED BY <1>1, <1>2, <1>3, <1>4, <1>5, <1>6, <1>7, <1>8, <1>9, <1>10, <1>11, <1>12, <1>13, <1>14, <1>15, <1>16, <1>17, StepCases

(* What is registered is registered under its own key, by a call not over. *)
LEMMA EntryStep == TypeOK /\ NumberInv /\ EntryInv /\ [Next]_vars => EntryInv'
<1> SUFFICES ASSUME TypeOK /\ NumberInv /\ EntryInv, [Next]_vars PROVE EntryInv'
  OBVIOUS
<1> USE IdRange, NoneIsNoCall DEF TypeOK, NumberInv, EntryInv, Past, Key, Ids, PCs
<1>1. ASSUME NEW c \in Calls, SendReply(c) PROVE EntryInv'
  <2>1. CASE Finish(c, "NOT_CONNECT")
    <3>1. /\ pc' = [pc EXCEPT ![c] = "done"]
          /\ kind' = [kind EXCEPT ![c] = "reply"]
          /\ UNCHANGED <<sends, round, id, tcs>>
      BY <1>1, <2>1 DEF SendReply, Finish, Goto
    <3>2. \A i \in Ids : sends[i] # c
      BY <1>1 DEF SendReply
    <3> QED BY <3>1, <3>2
  <2>2. CASE Goto(c, "cas") /\ UNCHANGED result
    BY <1>1, <2>2 DEF SendReply, Finish, Goto, wireVars
  <2> QED BY <1>1, <2>1, <2>2 DEF SendReply, Finish, Goto, wireVars
<1>2. ASSUME NEW c \in Calls, SendOnly(c) PROVE EntryInv'
  BY <1>2 DEF SendOnly, Goto, wireVars
<1>3. ASSUME NEW c \in Calls, IncrementReset(c) PROVE EntryInv'
  BY <1>3 DEF IncrementReset, Goto, callVars, wireVars
<1>4. ASSUME NEW c \in Calls, IncrementAdd(c) PROVE EntryInv'
  BY <1>4 DEF IncrementAdd, Goto, callVars, wireVars
<1>5. ASSUME NEW c \in Calls, IncrementRead(c) PROVE EntryInv'
  BY <1>5 DEF IncrementRead, Goto, wireVars
<1>6. ASSUME NEW c \in Calls, Register(c) PROVE EntryInv'
  <2>1. CASE sends[id[c]] = None
    <3>1. /\ sends' = [sends EXCEPT ![id[c]] = c]
          /\ pc' = [pc EXCEPT ![c] = "check"]
          /\ UNCHANGED <<kind, round, id, tcs>>
      BY <1>6, <2>1 DEF Register, Goto, callVars
    <3>2. kind[c] = "reply" /\ tcs[c] = "none"
      BY <1>6 DEF Register
    <3> QED BY <1>6, <3>1, <3>2 DEF Register
  <2>2. CASE sends[id[c]] # None
    BY <1>6, <2>2 DEF Register, Goto, callVars, wireVars
  <2> QED BY <1>6, <2>1, <2>2 DEF Register, Goto, callVars, wireVars
<1>7. ASSUME NEW c \in Calls, SendOnlyCheck(c) PROVE EntryInv'
  <2>1. CASE MayBeConnected(conn[c]) /\ id[c] = 0 /\ Goto(c, "cas")
             /\ round' = [round EXCEPT ![c] = 2]
             /\ UNCHANGED <<num, id, conn, kind, sends, tcs, answer, result, wireVars>>
    BY <1>7, <2>1 DEF SendOnlyCheck, Goto, wireVars
  <2>2. CASE Goto(c, "write")
             /\ UNCHANGED <<num, id, conn, kind, round, sends, tcs, answer, result, wireVars>>
    BY <1>7, <2>2 DEF SendOnlyCheck, Goto, wireVars
  <2>3. CASE kind[c] = "only" /\ Finish(c, "NOT_CONNECT")
             /\ UNCHANGED <<num, id, conn, kind, round, sends, tcs, answer, wireVars>>
    BY <1>7, <2>3 DEF SendOnlyCheck, Finish, Goto, wireVars
  <2>4. CASE kind[c] = "reply" /\ Unregister(id[c]) /\ Goto(c, "wait")
             /\ Complete(c, "NOT_CONNECT", None)
             /\ UNCHANGED <<num, id, conn, kind, round, result, wireVars>>
    <3>1. CASE tcs[c] = "none"
      BY <1>7, <2>4, <3>1 DEF SendOnlyCheck, Unregister, Complete, Goto, wireVars
    <3>2. CASE tcs[c] # "none"
      BY <1>7, <2>4, <3>2 DEF SendOnlyCheck, Unregister, Complete, Goto, wireVars
    <3> QED BY <3>1, <3>2
  <2> QED BY <1>7, <2>1, <2>2, <2>3, <2>4 DEF SendOnlyCheck
<1>8. ASSUME NEW c \in Calls, SendAsync(c) PROVE EntryInv'
  <2>1. CASE kind[c] = "only"
    <3>1. /\ pc' = [pc EXCEPT ![c] = "done"]
          /\ UNCHANGED <<sends, kind, round, id, tcs, answer>>
      BY <1>8, <2>1 DEF SendAsync, Written, Finish, Goto, callVars
    <3> QED BY <1>8, <2>1, <3>1 DEF SendAsync
  <2>2. CASE kind[c] = "reply"
    <3>1. /\ pc' = [pc EXCEPT ![c] = "wait"]
          /\ UNCHANGED <<sends, kind, round, id, tcs, answer>>
      BY <1>8, <2>2 DEF SendAsync, Written, Finish, Goto, callVars
    <3> QED BY <1>8, <2>2, <3>1 DEF SendAsync
  <2> QED BY <2>1, <2>2
<1>9. ASSUME NEW c \in Calls, Return(c) PROVE EntryInv'
  BY <1>9 DEF Return, Finish, Goto, callVars, wireVars
<1>10. ASSUME NEW c \in Calls, Timeout(c) PROVE EntryInv'
  BY <1>10 DEF Timeout, Complete, Goto, callVars, wireVars
<1>11. ASSUME NEW c \in Calls, Expire(c) PROVE EntryInv'
  BY <1>11 DEF Expire, Unregister, Finish, Goto, callVars, wireVars
<1>12. ASSUME NEW c \in Calls, Reply(c) PROVE EntryInv'
  BY <1>12 DEF Reply, callVars
<1>13. ASSUME NEW c \in Calls, Response(c) PROVE EntryInv'
  <2>0. id[c] \in Ids /\ c \in responses
    BY <1>13 DEF Response, ResponseTo
  <2>1. CASE sends[id[c]] = None
    BY <1>13, <2>1 DEF Response, ResponseTo, callVars
  <2>2. CASE sends[id[c]] # None
    <3>1. PICK d \in Calls : d = sends[id[c]]
      BY <2>0, <2>2
    <3>2. /\ sends' = [sends EXCEPT ![id[c]] = None]
          /\ \/ /\ tcs[d] = "none"
                /\ tcs' = [tcs EXCEPT ![d] = "OK"]
                /\ answer' = [answer EXCEPT ![d] = c]
             \/ /\ tcs[d] # "none"
                /\ UNCHANGED <<tcs, answer>>
          /\ UNCHANGED <<num, pc, kind, conn, round, id, result, requests, link>>
          /\ responses' = responses \ {c}
      BY <1>13, <2>2, <3>1 DEF Response, ResponseTo, Unregister, Complete, callVars
    <3> QED BY <2>0, <3>1, <3>2
  <2> QED BY <2>1, <2>2
<1>14. ASSUME NEW k \in Conns, Stall(k) PROVE EntryInv'
  BY <1>14 DEF Stall, callVars
<1>15. ASSUME NEW k \in Conns, Resume(k) PROVE EntryInv'
  BY <1>15 DEF Resume, callVars
<1>16. ASSUME NEW k \in Conns, Disponse(k) PROVE EntryInv'
  BY <1>16 DEF Disponse, callVars
<1>17. CASE UNCHANGED vars
  BY <1>17 DEF vars
<1> QED BY <1>1, <1>2, <1>3, <1>4, <1>5, <1>6, <1>7, <1>8, <1>9, <1>10, <1>11, <1>12, <1>13, <1>14, <1>15, <1>16, <1>17, StepCases

(* What is on the wire was written. *)
LEMMA WireStep == TypeOK /\ WireInv /\ [Next]_vars => WireInv'
<1> SUFFICES ASSUME TypeOK /\ WireInv, [Next]_vars PROVE WireInv'
  OBVIOUS
<1> USE IdRange, NoneIsNoCall DEF TypeOK, WireInv, Sent
<1>1. ASSUME NEW c \in Calls, SendReply(c) PROVE WireInv'
  BY <1>1 DEF SendReply, Finish, Goto, wireVars
<1>2. ASSUME NEW c \in Calls, SendOnly(c) PROVE WireInv'
  BY <1>2 DEF SendOnly, Goto, wireVars
<1>3. ASSUME NEW c \in Calls, IncrementReset(c) PROVE WireInv'
  BY <1>3 DEF IncrementReset, Goto, callVars, wireVars
<1>4. ASSUME NEW c \in Calls, IncrementAdd(c) PROVE WireInv'
  BY <1>4 DEF IncrementAdd, Goto, callVars, wireVars
<1>5. ASSUME NEW c \in Calls, IncrementRead(c) PROVE WireInv'
  BY <1>5 DEF IncrementRead, Goto, wireVars
<1>6. ASSUME NEW c \in Calls, Register(c) PROVE WireInv'
  BY <1>6 DEF Register, Goto, callVars, wireVars
<1>7. ASSUME NEW c \in Calls, SendOnlyCheck(c) PROVE WireInv'
  BY <1>7 DEF SendOnlyCheck, Finish, Goto, Unregister, Complete, wireVars
<1>8. ASSUME NEW c \in Calls, SendAsync(c) PROVE WireInv'
  BY <1>8 DEF SendAsync, Written, Finish, Goto, callVars
<1>9. ASSUME NEW c \in Calls, Return(c) PROVE WireInv'
  BY <1>9 DEF Return, Finish, Goto, callVars, wireVars
<1>10. ASSUME NEW c \in Calls, Timeout(c) PROVE WireInv'
  BY <1>10 DEF Timeout, Complete, Goto, callVars, wireVars
<1>11. ASSUME NEW c \in Calls, Expire(c) PROVE WireInv'
  BY <1>11 DEF Expire, Unregister, Finish, Goto, callVars, wireVars
<1>12. ASSUME NEW c \in Calls, Reply(c) PROVE WireInv'
  BY <1>12 DEF Reply, callVars
<1>13. ASSUME NEW c \in Calls, Response(c) PROVE WireInv'
  BY <1>13 DEF Response, ResponseTo, Unregister, Complete, callVars
<1>14. ASSUME NEW k \in Conns, Stall(k) PROVE WireInv'
  BY <1>14 DEF Stall, callVars
<1>15. ASSUME NEW k \in Conns, Resume(k) PROVE WireInv'
  BY <1>15 DEF Resume, callVars
<1>16. ASSUME NEW k \in Conns, Disponse(k) PROVE WireInv'
  BY <1>16 DEF Disponse, callVars
<1>17. CASE UNCHANGED vars
  BY <1>17 DEF vars
<1> QED BY <1>1, <1>2, <1>3, <1>4, <1>5, <1>6, <1>7, <1>8, <1>9, <1>10, <1>11, <1>12, <1>13, <1>14, <1>15, <1>16, <1>17, StepCases

(* A reply reaches the call registered under its number. *)
LEMMA AnswerStep == TypeOK /\ NumberInv /\ EntryInv /\ WireInv /\ AnswerInv /\ [Next]_vars => AnswerInv'
<1> SUFFICES ASSUME TypeOK /\ NumberInv /\ EntryInv /\ WireInv /\ AnswerInv, [Next]_vars PROVE AnswerInv'
  OBVIOUS
<1> USE IdRange, NoneIsNoCall DEF TypeOK, NumberInv, EntryInv, WireInv, AnswerInv, Past, Key, Sent, Ids, PCs
<1>1. ASSUME NEW c \in Calls, SendReply(c) PROVE AnswerInv'
  <2>1. CASE Finish(c, "NOT_CONNECT")
    BY <1>1, <2>1 DEF SendReply, Finish, Goto, wireVars
  <2>2. CASE Goto(c, "cas") /\ UNCHANGED result
    BY <1>1, <2>2 DEF SendReply, Finish, Goto, wireVars
  <2> QED BY <1>1, <2>1, <2>2 DEF SendReply, Finish, Goto, wireVars
<1>2. ASSUME NEW c \in Calls, SendOnly(c) PROVE AnswerInv'
  BY <1>2 DEF SendOnly, Goto, wireVars
<1>3. ASSUME NEW c \in Calls, IncrementReset(c) PROVE AnswerInv'
  BY <1>3 DEF IncrementReset, Goto, callVars, wireVars
<1>4. ASSUME NEW c \in Calls, IncrementAdd(c) PROVE AnswerInv'
  BY <1>4 DEF IncrementAdd, Goto, callVars, wireVars
<1>5. ASSUME NEW c \in Calls, IncrementRead(c) PROVE AnswerInv'
  BY <1>5 DEF IncrementRead, Goto, wireVars
<1>6. ASSUME NEW c \in Calls, Register(c) PROVE AnswerInv'
  BY <1>6 DEF Register, Goto, callVars, wireVars
<1>7. ASSUME NEW c \in Calls, SendOnlyCheck(c) PROVE AnswerInv'
  <2>1. CASE MayBeConnected(conn[c]) /\ id[c] = 0 /\ Goto(c, "cas")
             /\ round' = [round EXCEPT ![c] = 2]
             /\ UNCHANGED <<num, id, conn, kind, sends, tcs, answer, result, wireVars>>
    BY <1>7, <2>1 DEF SendOnlyCheck, Goto, wireVars
  <2>2. CASE Goto(c, "write")
             /\ UNCHANGED <<num, id, conn, kind, round, sends, tcs, answer, result, wireVars>>
    BY <1>7, <2>2 DEF SendOnlyCheck, Goto, wireVars
  <2>3. CASE kind[c] = "only" /\ Finish(c, "NOT_CONNECT")
             /\ UNCHANGED <<num, id, conn, kind, round, sends, tcs, answer, wireVars>>
    BY <1>7, <2>3 DEF SendOnlyCheck, Finish, Goto, wireVars
  <2>4. CASE kind[c] = "reply" /\ Unregister(id[c]) /\ Goto(c, "wait")
             /\ Complete(c, "NOT_CONNECT", None)
             /\ UNCHANGED <<num, id, conn, kind, round, result, wireVars>>
    <3>1. CASE tcs[c] = "none"
      BY <1>7, <2>4, <3>1 DEF SendOnlyCheck, Unregister, Complete, Goto, wireVars
    <3>2. CASE tcs[c] # "none"
      BY <1>7, <2>4, <3>2 DEF SendOnlyCheck, Unregister, Complete, Goto, wireVars
    <3> QED BY <3>1, <3>2
  <2> QED BY <1>7, <2>1, <2>2, <2>3, <2>4 DEF SendOnlyCheck
<1>8. ASSUME NEW c \in Calls, SendAsync(c) PROVE AnswerInv'
  <2>1. CASE kind[c] = "only"
    <3>1. /\ pc' = [pc EXCEPT ![c] = "done"]
          /\ UNCHANGED <<sends, kind, round, id, tcs, answer>>
      BY <1>8, <2>1 DEF SendAsync, Written, Finish, Goto, callVars
    <3> QED BY <1>8, <2>1, <3>1 DEF SendAsync
  <2>2. CASE kind[c] = "reply"
    <3>1. /\ pc' = [pc EXCEPT ![c] = "wait"]
          /\ UNCHANGED <<sends, kind, round, id, tcs, answer>>
      BY <1>8, <2>2 DEF SendAsync, Written, Finish, Goto, callVars
    <3> QED BY <1>8, <3>1 DEF SendAsync
  <2> QED BY <1>8, <2>1, <2>2 DEF SendAsync, Written, Finish, Goto, callVars
<1>9. ASSUME NEW c \in Calls, Return(c) PROVE AnswerInv'
  BY <1>9 DEF Return, Finish, Goto, callVars, wireVars
<1>10. ASSUME NEW c \in Calls, Timeout(c) PROVE AnswerInv'
  BY <1>10 DEF Timeout, Complete, Goto, callVars, wireVars
<1>11. ASSUME NEW c \in Calls, Expire(c) PROVE AnswerInv'
  BY <1>11 DEF Expire, Unregister, Finish, Goto, callVars, wireVars
<1>12. ASSUME NEW c \in Calls, Reply(c) PROVE AnswerInv'
  BY <1>12 DEF Reply, callVars
<1>13. ASSUME NEW c \in Calls, Response(c) PROVE AnswerInv'
  <2>0. id[c] \in Ids /\ c \in responses
    BY <1>13 DEF Response, ResponseTo
  <2>1. CASE sends[id[c]] = None
    BY <1>13, <2>1 DEF Response, ResponseTo, callVars
  <2>2. CASE sends[id[c]] # None
    <3>1. PICK d \in Calls : d = sends[id[c]]
      BY <2>0, <2>2
    <3>2. /\ sends' = [sends EXCEPT ![id[c]] = None]
          /\ \/ /\ tcs[d] = "none"
                /\ tcs' = [tcs EXCEPT ![d] = "OK"]
                /\ answer' = [answer EXCEPT ![d] = c]
             \/ /\ tcs[d] # "none"
                /\ UNCHANGED <<tcs, answer>>
          /\ UNCHANGED <<num, pc, kind, conn, round, id, result, requests, link>>
          /\ responses' = responses \ {c}
      BY <1>13, <2>2, <3>1 DEF Response, ResponseTo, Unregister, Complete, callVars
    <3>3. SUFFICES ASSUME NEW e \in Calls, NEW f \in Calls, answer'[e] = f
                   PROVE  Past(e)' /\ Sent(f)' /\ (id[f] = Key(e))'
      BY DEF AnswerInv
    <3>4. CASE answer[e] = f
      BY <3>2, <3>4
    <3>5. CASE answer[e] # f
      <4>1. e = d /\ f = c
        BY <2>0, <3>1, <3>2, <3>3, <3>5
      <4>2. id[c] = Key(d) /\ Past(d) /\ Sent(c)
        BY <2>0, <3>1
      <4> QED BY <3>2, <4>1, <4>2
    <3> QED BY <3>4, <3>5
  <2> QED BY <2>1, <2>2
<1>14. ASSUME NEW k \in Conns, Stall(k) PROVE AnswerInv'
  BY <1>14 DEF Stall, callVars
<1>15. ASSUME NEW k \in Conns, Resume(k) PROVE AnswerInv'
  BY <1>15 DEF Resume, callVars
<1>16. ASSUME NEW k \in Conns, Disponse(k) PROVE AnswerInv'
  BY <1>16 DEF Disponse, callVars
<1>17. CASE UNCHANGED vars
  BY <1>17 DEF vars
<1> QED BY <1>1, <1>2, <1>3, <1>4, <1>5, <1>6, <1>7, <1>8, <1>9, <1>10, <1>11, <1>12, <1>13, <1>14, <1>15, <1>16, <1>17, StepCases

(* Nobody removes the entry of a call that owns its number alone. *)
LEMMA OwnerStep == TypeOK /\ NumberInv /\ EntryInv /\ WireInv /\ SoleOwnerStaysRegistered /\ [Next]_vars => SoleOwnerStaysRegistered'
<1> SUFFICES ASSUME TypeOK /\ NumberInv /\ EntryInv /\ WireInv /\ SoleOwnerStaysRegistered, [Next]_vars PROVE SoleOwnerStaysRegistered'
  OBVIOUS
<1> USE IdRange, NoneIsNoCall DEF TypeOK, NumberInv, EntryInv, WireInv, SoleOwnerStaysRegistered, Listening, Past, Key, Ids, PCs
<1>1. ASSUME NEW c \in Calls, SendReply(c) PROVE SoleOwnerStaysRegistered'
  BY <1>1 DEF SendReply, Finish, Goto, wireVars
<1>2. ASSUME NEW c \in Calls, SendOnly(c) PROVE SoleOwnerStaysRegistered'
  BY <1>2 DEF SendOnly, Goto, wireVars
<1>3. ASSUME NEW c \in Calls, IncrementReset(c) PROVE SoleOwnerStaysRegistered'
  BY <1>3 DEF IncrementReset, Goto, callVars, wireVars
<1>4. ASSUME NEW c \in Calls, IncrementAdd(c) PROVE SoleOwnerStaysRegistered'
  BY <1>4 DEF IncrementAdd, Goto, callVars, wireVars
<1>5. ASSUME NEW c \in Calls, IncrementRead(c) PROVE SoleOwnerStaysRegistered'
  BY <1>5 DEF IncrementRead, Goto, wireVars
<1>6. ASSUME NEW c \in Calls, Register(c) PROVE SoleOwnerStaysRegistered'
  BY <1>6 DEF Register, Goto, callVars, wireVars
<1>7. ASSUME NEW c \in Calls, SendOnlyCheck(c) PROVE SoleOwnerStaysRegistered'
  <2>1. CASE MayBeConnected(conn[c]) /\ id[c] = 0 /\ Goto(c, "cas")
             /\ round' = [round EXCEPT ![c] = 2]
             /\ UNCHANGED <<num, id, conn, kind, sends, tcs, answer, result, wireVars>>
    BY <1>7, <2>1 DEF SendOnlyCheck, Goto, wireVars
  <2>2. CASE Goto(c, "write")
             /\ UNCHANGED <<num, id, conn, kind, round, sends, tcs, answer, result, wireVars>>
    BY <1>7, <2>2 DEF SendOnlyCheck, Goto, wireVars
  <2>3. CASE kind[c] = "only" /\ Finish(c, "NOT_CONNECT")
             /\ UNCHANGED <<num, id, conn, kind, round, sends, tcs, answer, wireVars>>
    BY <1>7, <2>3 DEF SendOnlyCheck, Finish, Goto, wireVars
  <2>4. CASE kind[c] = "reply" /\ Unregister(id[c]) /\ Goto(c, "wait")
             /\ Complete(c, "NOT_CONNECT", None)
             /\ UNCHANGED <<num, id, conn, kind, round, result, wireVars>>
    <3>1. CASE tcs[c] = "none"
      BY <1>7, <2>4, <3>1 DEF SendOnlyCheck, Unregister, Complete, Goto, wireVars
    <3>2. CASE tcs[c] # "none"
      BY <1>7, <2>4, <3>2 DEF SendOnlyCheck, Unregister, Complete, Goto, wireVars
    <3> QED BY <3>1, <3>2
  <2> QED BY <1>7, <2>1, <2>2, <2>3, <2>4 DEF SendOnlyCheck
<1>8. ASSUME NEW c \in Calls, SendAsync(c) PROVE SoleOwnerStaysRegistered'
  BY <1>8 DEF SendAsync, Written, Finish, Goto, callVars
<1>9. ASSUME NEW c \in Calls, Return(c) PROVE SoleOwnerStaysRegistered'
  BY <1>9 DEF Return, Finish, Goto, callVars, wireVars
<1>10. ASSUME NEW c \in Calls, Timeout(c) PROVE SoleOwnerStaysRegistered'
  BY <1>10 DEF Timeout, Complete, Goto, callVars, wireVars
<1>11. ASSUME NEW c \in Calls, Expire(c) PROVE SoleOwnerStaysRegistered'
  BY <1>11 DEF Expire, Unregister, Finish, Goto, callVars, wireVars
<1>12. ASSUME NEW c \in Calls, Reply(c) PROVE SoleOwnerStaysRegistered'
  BY <1>12 DEF Reply, callVars
<1>13. ASSUME NEW c \in Calls, Response(c) PROVE SoleOwnerStaysRegistered'
  BY <1>13 DEF Response, ResponseTo, Unregister, Complete, callVars
<1>14. ASSUME NEW k \in Conns, Stall(k) PROVE SoleOwnerStaysRegistered'
  BY <1>14 DEF Stall, callVars
<1>15. ASSUME NEW k \in Conns, Resume(k) PROVE SoleOwnerStaysRegistered'
  BY <1>15 DEF Resume, callVars
<1>16. ASSUME NEW k \in Conns, Disponse(k) PROVE SoleOwnerStaysRegistered'
  BY <1>16 DEF Disponse, callVars
<1>17. CASE UNCHANGED vars
  BY <1>17 DEF vars
<1> QED BY <1>1, <1>2, <1>3, <1>4, <1>5, <1>6, <1>7, <1>8, <1>9, <1>10, <1>11, <1>12, <1>13, <1>14, <1>15, <1>16, <1>17, StepCases

------------------------------------------------------------------------------
LEMMA InvInit == Init => Inv
<1> SUFFICES ASSUME Init PROVE Inv
  OBVIOUS
<1> USE IdRange, NoneIsNoCall
<1>1. TypeOK
  BY DEF Init, TypeOK, Ids, PCs
<1>2. NumberInv /\ EntryInv /\ WireInv /\ AnswerInv
  BY DEF Init, NumberInv, EntryInv, WireInv, AnswerInv, Past
<1>3. SoleOwnerStaysRegistered
  BY DEF Init, SoleOwnerStaysRegistered, Listening
<1> QED BY <1>1, <1>2, <1>3 DEF Inv

LEMMA InvStep == Inv /\ [Next]_vars => Inv'
BY TypeStep, NumberStep, EntryStep, WireStep, AnswerStep, OwnerStep DEF Inv

LEMMA InvHolds == Spec => []Inv
BY InvInit, InvStep, PTL DEF Spec

(* The types hold in every state, and the number space stays within 32 bits
   although three unrelated accesses make up an Increment. *)
THEOREM TypeCorrect == Spec => []TypeOK
<1>1. Inv => TypeOK
  BY DEF Inv
<1> QED BY <1>1, InvHolds, PTL

(* MessengerSender.Response never hands a reply to a call registered under
   another number, however late the reply is and whatever connection it took. *)
THEOREM AnswersCarryKeys == Spec => []AnswerCarriesKey
<1>1. Inv => AnswerCarriesKey
  BY DEF Inv, AnswerInv, AnswerCarriesKey, TypeOK
<1> QED BY <1>1, InvHolds, PTL

(* No call that has returned is left in "sends", number 0 apart. *)
THEOREM NothingLeaks == Spec => []NoLeak
<1>1. Inv => NoLeak
  BY DEF Inv, EntryInv, NoLeak, Key, TypeOK
<1> QED BY <1>1, InvHolds, PTL

(* A call that owns its number alone cannot lose its entry to another call. *)
THEOREM SoleOwnersStayRegistered == Spec => []SoleOwnerStaysRegistered
<1>1. Inv => SoleOwnerStaysRegistered
  BY DEF Inv
<1> QED BY <1>1, InvHolds, PTL

(* The consequence for SendReply: where no other call drew the same number,
   the reply it returns is the reply to its own request. *)
OwnAnswerUnlessShared ==
    \A c \in Calls :
        \/ answer[c] \in {c, None}
        \/ \E d \in Calls \ {c} : id[d] = Key(c)

THEOREM OnlySharedNumbersMix == Spec => []OwnAnswerUnlessShared
<1>1. Inv => OwnAnswerUnlessShared
  BY DEF Inv, AnswerInv, OwnAnswerUnlessShared, TypeOK
<1> QED BY <1>1, InvHolds, PTL
==============================================================================
