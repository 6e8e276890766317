---------------------------- MODULE Decenter_proofs ----------------------------
(***************************************************************************)
(* Proofs about Decenter, for any machines and groups, and any number of   *)
(* changes and faults.                                                     *)
(***************************************************************************)
EXTENDS Decenter, TLAPS

(* One round of the loop has one pull: it is the last thing asked, its answer
   comes when all that was asked before has been done, and a round that has
   ended leaves nothing of it behind. *)
Once(q, type) ==
    \A i, j \in DOMAIN q : q[i].type = type /\ q[j].type = type => i = j
OnlyLast(q, type) == \A i \in DOMAIN q : q[i].type = type => i = Len(q)

Queues(m) ==
    /\ (pc[m] = "idle" /\ ~dirty[m]) \/ pc[m] = "apply" => toServer[m] = <<>>
    /\ pc[m] # "wait" => reply[m] = None /\ ~Has(toServer[m], "pull")
                                         /\ ~Has(toClient[m], "pulled")
    /\ reply[m] # None \/ Has(toClient[m], "pulled") => toServer[m] = <<>>
    /\ OnlyLast(toServer[m], "pull")
    /\ reply[m] # None => ~Has(toClient[m], "pulled")
    /\ Once(toClient[m], "pulled")

QueueInv == \A m \in Machines : Queues(m)

(* The client owes a push: it will have to sign in, to start a round, or is
   about to push. *)
Owes(m) == con[m] # "on" \/ dirty[m] \/ pc[m] = "push"

(* What a server that has v, or the last version in q once it is done with q,
   ends up with is nothing or d. *)
Promises(q, v, d) ==
    /\ \A i \in DOMAIN q :
           q[i].type = "push" /\ (\A j \in DOMAIN q : j > i => q[j].type # "push")
               => q[i].val = d
    /\ ~Has(q, "push") => v \in {None, d}

StoreInv == \A m \in Machines : ~Owes(m) => Promises(toServer[m], store[m], data[m])

Inv == TypeOK /\ QueueInv /\ StoreInv

------------------------------------------------------------------------------
(* Queues *)

LEMMA WithoutType ==
    ASSUME NEW S, NEW s \in Seq(S), NEW type
    PROVE  Without(s, type) \in Seq(S)
<1>1. CASE Has(s, type)
  <2> DEFINE at == CHOOSE i \in DOMAIN s : s[i].type = type
             w == [i \in 1..(Len(s) - 1) |-> IF i < at THEN s[i] ELSE s[i + 1]]
  <2>1. at \in 1..Len(s)
    BY <1>1 DEF Has
  <2> HIDE DEF at
  <2>2. Len(s) - 1 \in Nat /\ \A i \in 1..(Len(s) - 1) : w[i] \in S
    BY <2>1
  <2>3. w \in Seq(S)
    BY <2>2
  <2> QED BY <1>1, <2>3 DEF Without, at
<1>2. CASE ~Has(s, type)
  BY <1>2 DEF Without
<1> QED BY <1>1, <1>2

LEMMA WithoutRemoves ==
    ASSUME NEW S, NEW s \in Seq(S), NEW type,
           Once(s, type)
    PROVE  ~Has(Without(s, type), type)
<1>1. CASE Has(s, type)
  <2> DEFINE at == CHOOSE i \in DOMAIN s : s[i].type = type
             w == [i \in 1..(Len(s) - 1) |-> IF i < at THEN s[i] ELSE s[i + 1]]
  <2>1. at \in 1..Len(s) /\ s[at].type = type
    BY <1>1 DEF Has
  <2> HIDE DEF at
  <2>2. \A i \in 1..(Len(s) - 1) : w[i].type # type
    BY <2>1 DEF Once
  <2>3. ~Has(w, type)
    BY <2>2 DEF Has
  <2> QED BY <1>1, <2>3 DEF Without, at
<1>2. CASE ~Has(s, type)
  BY <1>2 DEF Without
<1> QED BY <1>1, <1>2

(* What an empty queue, one that grew and one that shrank hold. *)
LEMMA EmptyHasNone == ASSUME NEW type PROVE ~Has(<<>>, type)
BY DEF Has

LEMMA AppendHas ==
    ASSUME NEW S, NEW s \in Seq(S), NEW e \in S, NEW type
    PROVE  Has(Append(s, e), type) <=> Has(s, type) \/ e.type = type
<1>1. /\ Len(Append(s, e)) = Len(s) + 1 /\ Append(s, e) \in Seq(S)
      /\ \A i \in 1..Len(s) : Append(s, e)[i] = s[i]
      /\ Append(s, e)[Len(s) + 1] = e
  OBVIOUS
<1> QED BY <1>1 DEF Has

LEMMA HeadHas ==
    ASSUME NEW S, NEW s \in Seq(S), s # <<>>
    PROVE  Has(s, Head(s).type)
BY DEF Has

LEMMA TailHas ==
    ASSUME NEW S, NEW s \in Seq(S), s # <<>>, NEW type
    PROVE  Has(s, type) <=> Has(Tail(s), type) \/ Head(s).type = type
<1>1. /\ Tail(s) \in Seq(S) /\ Len(Tail(s)) = Len(s) - 1 /\ Len(s) > 0
      /\ \A i \in 1..(Len(s) - 1) : Tail(s)[i] = s[i + 1]
      /\ Head(s) = s[1]
  OBVIOUS
<1>2. ASSUME NEW i \in DOMAIN s, s[i].type = type PROVE Has(Tail(s), type) \/ Head(s).type = type
  <2>1. CASE i = 1
    BY <1>1, <1>2, <2>1
  <2>2. CASE i # 1
    <3>1. i - 1 \in DOMAIN Tail(s) /\ Tail(s)[i - 1] = s[i]
      BY <1>1, <2>2
    <3> QED BY <1>2, <3>1 DEF Has
  <2> QED BY <2>1, <2>2
<1>3. ASSUME NEW i \in DOMAIN Tail(s), Tail(s)[i].type = type PROVE Has(s, type)
  <2>1. i + 1 \in DOMAIN s /\ s[i + 1] = Tail(s)[i]
    BY <1>1
  <2> QED BY <1>3, <2>1 DEF Has
<1>4. Head(s).type = type => Has(s, type)
  BY <1>1 DEF Has
<1> QED BY <1>2, <1>3, <1>4 DEF Has

LEMMA TailLast ==
    ASSUME NEW S, NEW s \in Seq(S), s # <<>>, NEW type, OnlyLast(s, type)
    PROVE  OnlyLast(Tail(s), type) /\ (Head(s).type = type => Tail(s) = <<>>)
<1>1. /\ Tail(s) \in Seq(S) /\ Len(s) \in Nat /\ Len(Tail(s)) = Len(s) - 1 /\ Len(s) > 0
      /\ \A i \in 1..(Len(s) - 1) : Tail(s)[i] = s[i + 1]
      /\ Head(s) = s[1]
  OBVIOUS
<1>2. Head(s).type = type => Tail(s) = <<>>
  BY <1>1 DEF OnlyLast
<1>3. ASSUME NEW i \in DOMAIN Tail(s), Tail(s)[i].type = type PROVE i = Len(Tail(s))
  <2>1. i + 1 \in DOMAIN s /\ s[i + 1] = Tail(s)[i] /\ i \in Nat
    BY <1>1
  <2>2. i + 1 = Len(s)
    BY <1>3, <2>1 DEF OnlyLast
  <2>3. Len(Tail(s)) = Len(s) - 1
    BY <1>1
  <2> QED BY <2>1, <2>2, <2>3
<1> QED BY <1>2, <1>3 DEF OnlyLast

LEMMA AppendLast ==
    ASSUME NEW S, NEW s \in Seq(S), NEW e \in S, NEW type, ~Has(s, type)
    PROVE  OnlyLast(Append(s, e), type)
<1>1. /\ Len(Append(s, e)) = Len(s) + 1 /\ Append(s, e) \in Seq(S)
      /\ \A i \in 1..Len(s) : Append(s, e)[i] = s[i]
  OBVIOUS
<1> QED BY <1>1 DEF Has, OnlyLast

LEMMA TailOnce ==
    ASSUME NEW S, NEW s \in Seq(S), s # <<>>, NEW type, Once(s, type)
    PROVE  Once(Tail(s), type) /\ (Head(s).type = type => ~Has(Tail(s), type))
<1>1. /\ Tail(s) \in Seq(S) /\ Len(Tail(s)) = Len(s) - 1 /\ Len(s) > 0
      /\ \A i \in 1..(Len(s) - 1) : Tail(s)[i] = s[i + 1]
      /\ Head(s) = s[1]
  OBVIOUS
<1>2. \A i \in DOMAIN Tail(s) : i \in Nat /\ i > 0 /\ i + 1 \in DOMAIN s /\ s[i + 1] = Tail(s)[i]
  BY <1>1
<1>3. Once(Tail(s), type)
  BY <1>2 DEF Once
<1>4. ASSUME Head(s).type = type, NEW i \in DOMAIN Tail(s), Tail(s)[i].type = type PROVE FALSE
  <2>1. 1 \in DOMAIN s /\ s[1].type = type
    BY <1>1, <1>4
  <2>2. i + 1 = 1
    BY <1>2, <1>4, <2>1 DEF Once
  <2> QED BY <1>2, <2>2
<1> QED BY <1>3, <1>4 DEF Has

LEMMA AppendOnce ==
    ASSUME NEW S, NEW s \in Seq(S), NEW e \in S, NEW type,
           Once(s, type), ~Has(s, type) \/ e.type # type
    PROVE  Once(Append(s, e), type)
<1>1. /\ Len(Append(s, e)) = Len(s) + 1 /\ Append(s, e) \in Seq(S)
      /\ \A i \in 1..Len(s) : Append(s, e)[i] = s[i]
      /\ Append(s, e)[Len(s) + 1] = e
  OBVIOUS
<1> QED BY <1>1 DEF Has, Once

(* A push on its way decides; the server takes over what it decides, and
   nothing else matters. *)
LEMMA AppendPush ==
    ASSUME NEW q \in Seq(Requests), NEW v, NEW d \in 0..MaxEdits
    PROVE  Promises(Append(q, [type |-> "push", val |-> d]), v, d)
<1> DEFINE e == [type |-> "push", val |-> d]
<1>1. /\ Len(Append(q, e)) = Len(q) + 1
      /\ DOMAIN Append(q, e) = 1..(Len(q) + 1)
      /\ \A i \in 1..Len(q) : Append(q, e)[i] = q[i]
      /\ Append(q, e)[Len(q) + 1] = e
  OBVIOUS
<1>2. Has(Append(q, e), "push")
  BY <1>1 DEF Has
<1>3. ASSUME NEW i \in DOMAIN Append(q, e),
             \A j \in DOMAIN Append(q, e) : j > i => Append(q, e)[j].type # "push"
      PROVE  Append(q, e)[i].val = d
  <2>1. i = Len(q) + 1
    BY <1>1, <1>3
  <2> QED BY <1>1, <2>1
<1> QED BY <1>2, <1>3 DEF Promises

LEMMA AppendPull ==
    ASSUME NEW q \in Seq(Requests), NEW v, NEW d, Promises(q, v, d)
    PROVE  Promises(Append(q, [type |-> "pull"]), v, d)
<1> DEFINE e == [type |-> "pull"]
<1>1. /\ Len(q) \in Nat /\ DOMAIN q = 1..Len(q)
      /\ DOMAIN Append(q, e) = 1..(Len(q) + 1)
      /\ \A i \in 1..Len(q) : Append(q, e)[i] = q[i]
      /\ Append(q, e)[Len(q) + 1] = e
  OBVIOUS
<1>2. ~Has(Append(q, e), "push") => ~Has(q, "push")
  BY <1>1 DEF Has
<1>3. ASSUME NEW i \in DOMAIN Append(q, e), Append(q, e)[i].type = "push",
             \A j \in DOMAIN Append(q, e) : j > i => Append(q, e)[j].type # "push"
      PROVE  Append(q, e)[i].val = d
  <2>1. i \in DOMAIN q /\ \A j \in DOMAIN q : j > i => q[j].type # "push"
    BY <1>1, <1>3
  <2> QED BY <1>1, <1>3, <2>1 DEF Promises
<1> QED BY <1>2, <1>3 DEF Promises

LEMMA TailPromises ==
    ASSUME NEW q \in Seq(Requests), q # <<>>, NEW v, NEW d, Promises(q, v, d)
    PROVE  Promises(Tail(q), IF Head(q).type = "push" THEN Head(q).val ELSE v, d)
<1>1. /\ Len(q) \in Nat /\ Len(q) > 0 /\ DOMAIN q = 1..Len(q)
      /\ DOMAIN Tail(q) = 1..(Len(q) - 1)
      /\ \A i \in 1..(Len(q) - 1) : Tail(q)[i] = q[i + 1]
      /\ Head(q) = q[1]
  OBVIOUS
<1>2. ASSUME NEW i \in DOMAIN Tail(q), Tail(q)[i].type = "push",
             \A j \in DOMAIN Tail(q) : j > i => Tail(q)[j].type # "push"
      PROVE  Tail(q)[i].val = d
  <2>1. i + 1 \in DOMAIN q /\ q[i + 1] = Tail(q)[i]
    BY <1>1
  <2>2. ASSUME NEW j \in DOMAIN q, j > i + 1 PROVE q[j].type # "push"
    <3>1. j - 1 \in DOMAIN Tail(q) /\ j - 1 > i /\ Tail(q)[j - 1] = q[j]
      BY <1>1, <2>2
    <3> QED BY <1>2, <3>1
  <2> QED BY <1>2, <2>1, <2>2 DEF Promises
<1>3. ASSUME ~Has(Tail(q), "push"), Head(q).type = "push" PROVE Head(q).val = d
  <2>1. \A j \in DOMAIN q : j > 1 => q[j].type # "push"
    <3> SUFFICES ASSUME NEW j \in DOMAIN q, j > 1 PROVE q[j].type # "push"
      OBVIOUS
    <3>1. j - 1 \in DOMAIN Tail(q) /\ Tail(q)[j - 1] = q[j]
      BY <1>1
    <3> QED BY <1>3, <3>1 DEF Has
  <2> QED BY <1>1, <1>3, <2>1 DEF Promises
<1>4. ASSUME ~Has(Tail(q), "push"), Head(q).type # "push" PROVE v \in {None, d}
  <2>1. ~Has(q, "push")
    BY <1>4, TailHas
  <2> QED BY <2>1 DEF Promises
<1> QED BY <1>2, <1>3, <1>4 DEF Promises

------------------------------------------------------------------------------
(* Types *)

LEMMA TypeInit == Init => TypeOK
<1> SUFFICES ASSUME Init PROVE TypeOK
  OBVIOUS
<1>1. Nothing \in Lists
  BY DEF Nothing, Lists, Versions
<1>2. data \in [Machines -> 0..MaxEdits] /\ faults \in 0..MaxFaults
  BY BoundsAreNaturals DEF Init
<1>3. toServer \in [Machines -> Seq(Requests)] /\ toClient \in [Machines -> Seq(Answers)]
  BY DEF Init
<1>4. \A m \in Machines : pc[m] # "apply" /\ pulled[m] = None
  BY DEF Init
<1>5. known \in [Machines -> Lists] /\ store \in Lists
  BY <1>1 DEF Init
<1> QED BY <1>2, <1>3, <1>4, <1>5 DEF Init, TypeOK

LEMMA RequestTypes ==
    /\ \A v \in 0..MaxEdits : [type |-> "push", val |-> v] \in Requests
    /\ [type |-> "pull"] \in Requests
    /\ \A r \in Requests : r.type \in {"push", "pull"} /\ (r.type = "push" => r.val \in 0..MaxEdits)
BY DEF Requests

LEMMA AnswerTypes ==
    /\ \A m \in Machines, v \in 0..MaxEdits :
           [type |-> "notify", from |-> m, val |-> v] \in Answers
    /\ PullReplies \subseteq Answers
    /\ \A a \in Answers : a.type \in {"notify", "pulled"}
    /\ \A a \in Answers : a.type = "notify" => a.from \in Machines /\ a.val \in 0..MaxEdits
    /\ \A a \in Answers : a.type = "pulled" => a.ok \in BOOLEAN /\ a.list \in Lists
    /\ \A r \in PullReplies : r.type = "pulled"
BY DEF Answers, PullReplies

LEMMA SendTypes ==
    ASSUME TypeOK, NEW m \in Machines, NEW msg \in Requests, Send(m, msg)
    PROVE  toServer' \in [Machines -> Seq(Requests)]
BY DEF Send, TypeOK

LEMMA DisconnectTypes ==
    ASSUME TypeOK, NEW ms \in SUBSET Machines, Disconnect(ms)
    PROVE  /\ con' \in [Machines -> {"off", "client", "on"}]
           /\ toServer' \in [Machines -> Seq(Requests)]
           /\ toClient' \in [Machines -> Seq(Answers)]
           /\ reply' \in [Machines -> PullReplies \cup {None}]
BY DEF Disconnect, TypeOK

LEMMA TypeStep == TypeOK /\ QueueInv /\ [Next]_vars => TypeOK'
<1> SUFFICES ASSUME TypeOK, QueueInv, [Next]_vars PROVE TypeOK'
  OBVIOUS
<1> USE BoundsAreNaturals, NoneIsNothing
    DEF TypeOK, loopVars, clientVars, netVars, serverVars, Goto, Refresh, Fault
<1>1. ASSUME NEW m \in Machines, Edit(m) PROVE TypeOK'
  BY <1>1 DEF Edit
<1>2. ASSUME NEW m \in Machines, NEW g \in Groups, SetGroup(m, g) PROVE TypeOK'
  BY <1>2 DEF SetGroup
<1>3. ASSUME NEW m \in Machines, Restore(m) PROVE TypeOK'
  <2>1. Nothing \in Lists
    BY DEF Nothing, Lists, Versions
  <2> QED BY <1>3, <2>1 DEF Restore
<1>4. ASSUME NEW m \in Machines, Push(m) PROVE TypeOK'
  <2>1. toServer' \in [Machines -> Seq(Requests)]
    BY <1>4, SendTypes, RequestTypes DEF Push
  <2> QED BY <1>4, <2>1 DEF Push
<1>5. ASSUME NEW m \in Machines, Pull(m) PROVE TypeOK'
  <2>1. toServer' \in [Machines -> Seq(Requests)]
    BY <1>5, SendTypes, RequestTypes DEF Pull
  <2> QED BY <1>5, <2>1 DEF Pull
<1>6. ASSUME NEW m \in Machines, Apply(m) PROVE TypeOK'
  <2>1. Merge(known[m], pulled[m]) \in Lists
    BY <1>6 DEF Merge, Lists, Apply
  <2> QED BY <1>6, <2>1 DEF Apply
<1>7. ASSUME NEW m \in Machines, PullTimeout(m) PROVE TypeOK'
  <2>1. /\ Without(toServer[m], "pull") \in Seq(Requests)
        /\ Without(toClient[m], "pulled") \in Seq(Answers)
    BY WithoutType
  <2> QED BY <1>7, <2>1 DEF PullTimeout
<1>8. ASSUME NEW m \in Machines, Check(m) PROVE TypeOK'
  BY <1>8 DEF Check
<1>9. ASSUME NEW m \in Machines, Notify(m) PROVE TypeOK'
  <2> DEFINE msg == Head(toClient[m])
  <2>1. toClient' \in [Machines -> Seq(Answers)] /\ msg \in Answers /\ msg.type = "notify"
    BY <1>9 DEF Notify, Received, Receive
  <2>2. msg.from \in Machines /\ msg.val \in Versions
    BY <2>1, AnswerTypes DEF Versions
  <2>3. known' \in [Machines -> Lists]
    BY <1>9, <2>2 DEF Notify, Lists
  <2> QED BY <1>9, <2>1, <2>3 DEF Notify
<1>10. ASSUME NEW m \in Machines, PullDone(m) PROVE TypeOK'
  <2> DEFINE msg == Head(toClient[m])
  <2>1. toClient' \in [Machines -> Seq(Answers)] /\ msg \in Answers /\ msg.type = "pulled"
    BY <1>10 DEF PullDone, Received, Receive
  <2>2. msg.list \in Lists
    BY <2>1, AnswerTypes
  <2>3. pc[m] = "wait"
    <3>1. Has(toClient[m], "pulled")
      BY <1>10, HeadHas DEF PullDone, Received
    <3> QED BY <3>1 DEF QueueInv, Queues
  <2>4. CASE msg.ok
    <3>1. /\ pc' = [pc EXCEPT ![m] = "apply"] /\ pulled' = [pulled EXCEPT ![m] = msg.list]
          /\ UNCHANGED <<data, dirty, cfg, seen, known, con, toServer, serverVars, faults>>
      BY <1>10, <2>4 DEF PullDone
    <3>2. msg.list # None
      BY <2>2
    <3> HIDE DEF msg
    <3>3. \A n \in Machines : pc'[n] = "apply" <=> pulled'[n] # None
      BY <3>1, <3>2
    <3> QED BY <2>1, <2>2, <3>1, <3>3
  <2>5. CASE ~msg.ok
    <3>1. /\ pc' = [pc EXCEPT ![m] = "idle"] /\ pulled' = pulled
          /\ dirty' = [dirty EXCEPT ![m] = TRUE]
          /\ UNCHANGED <<data, cfg, seen, known, con, toServer, serverVars, faults>>
      BY <1>10, <2>5 DEF PullDone
    <3>2. \A n \in Machines : pc'[n] = "apply" <=> pulled'[n] # None
      BY <2>3, <3>1
    <3> QED BY <2>1, <3>1, <3>2
  <2> QED BY <2>4, <2>5
<1>11. ASSUME NEW m \in Machines, ServePush(m) PROVE TypeOK'
  <2>1. /\ Head(toServer[m]) \in Requests /\ Head(toServer[m]).type = "push"
        /\ Tail(toServer[m]) \in Seq(Requests)
    BY <1>11 DEF ServePush, Requested
  <2>2. Head(toServer[m]).val \in 0..MaxEdits
    BY <2>1, RequestTypes
  <2>3. store' \in Lists
    BY <1>11, <2>2 DEF ServePush, Lists, Versions
  <2>4. toClient' \in [Machines -> Seq(Answers)]
    <3>1. [type |-> "notify", from |-> m, val |-> Head(toServer[m]).val] \in Answers
      BY <2>2, AnswerTypes
    <3> QED BY <1>11, <3>1 DEF ServePush
  <2> QED BY <1>11, <2>1, <2>3, <2>4 DEF ServePush, Take
<1>12. ASSUME NEW m \in Machines, ServePull(m) PROVE TypeOK'
  <2> DEFINE list == [n \in Machines |-> IF n # m /\ SameGroup(m, n) THEN store[n] ELSE None]
  <2>1. list \in Lists
    BY DEF Lists, Versions
  <2>2. [type |-> "pulled", ok |-> named, list |-> list] \in PullReplies
    BY <2>1 DEF PullReplies
  <2>3. toServer' \in [Machines -> Seq(Requests)]
    BY <1>12 DEF ServePull, Requested, Take
  <2> QED BY <1>12, <2>2, <2>3 DEF ServePull
<1>13. ASSUME NEW m \in Machines, ReplyPull(m) PROVE TypeOK'
  <2>1. reply[m] \in Answers
    BY <1>13, AnswerTypes DEF ReplyPull
  <2> QED BY <1>13, <2>1 DEF ReplyPull
<1>14. CASE ClearFind
  BY <1>14 DEF ClearFind
<1>15. CASE ClearRemove
  BY <1>15 DEF ClearRemove, Lists, Versions
<1>16. ASSUME NEW m \in Machines, SignIn(m) PROVE TypeOK'
  BY <1>16 DEF SignIn
<1>17. ASSUME NEW m \in Machines, OnSignInSuccess(m) PROVE TypeOK'
  BY <1>17 DEF OnSignInSuccess
<1>18. ASSUME NEW m \in Machines, Drop(m) PROVE TypeOK'
  BY <1>18, DisconnectTypes DEF Drop
<1>19. CASE Restart
  <2>1. Nothing \in Lists
    BY DEF Nothing, Lists, Versions
  <2>2. /\ con' \in [Machines -> {"off", "client", "on"}]
        /\ toServer' \in [Machines -> Seq(Requests)]
        /\ toClient' \in [Machines -> Seq(Answers)]
        /\ reply' \in [Machines -> PullReplies \cup {None}]
    <3>1. Disconnect(Machines) /\ Machines \in SUBSET Machines
      BY <1>19 DEF Restart
    <3> QED BY <3>1, DisconnectTypes
  <2>3. store' \in Lists /\ named' \in BOOLEAN /\ removing' \subseteq Machines
    BY <1>19, <2>1 DEF Restart
  <2>4. faults' \in 0..MaxFaults
    BY <1>19 DEF Restart
  <2>5. UNCHANGED <<data, dirty, cfg, seen, known, pc, pulled, sg>>
    BY <1>19 DEF Restart
  <2> QED BY <2>2, <2>3, <2>4, <2>5
<1>20. CASE UNCHANGED vars
  BY <1>20 DEF vars
<1> QED
  BY <1>1, <1>2, <1>3, <1>4, <1>5, <1>6, <1>7, <1>8, <1>9, <1>10, <1>11, <1>12, <1>13, <1>14,
     <1>15, <1>16, <1>17, <1>18, <1>19, <1>20
     DEF Next, Loop, Client, Server, Connect

------------------------------------------------------------------------------
(* What the queues of a machine hold *)

LEMMA QueueInit == Init => QueueInv
<1> SUFFICES ASSUME Init, NEW m \in Machines PROVE Queues(m)
  BY DEF QueueInv
<1>1. toServer[m] = <<>> /\ toClient[m] = <<>> /\ reply[m] = None /\ pc[m] = "idle"
  BY DEF Init
<1> QED BY <1>1, EmptyHasNone DEF Queues, Once, OnlyLast

(* A disconnected machine has nothing under way. *)
LEMMA DisconnectQueues ==
    ASSUME TypeOK, QueueInv, NEW ms \in SUBSET Machines, Disconnect(ms),
           UNCHANGED <<pc, dirty>>
    PROVE  QueueInv'
<1> SUFFICES ASSUME NEW n \in Machines PROVE Queues(n)'
  BY DEF QueueInv
<1>1. CASE n \in ms
  <2>1. toServer'[n] = <<>> /\ toClient'[n] = <<>> /\ reply'[n] = None
    BY <1>1 DEF Disconnect
  <2> QED BY <2>1, EmptyHasNone DEF Queues, Once, OnlyLast
<1>2. CASE n \notin ms
  <2>1. /\ toServer'[n] = toServer[n] /\ toClient'[n] = toClient[n] /\ reply'[n] = reply[n]
        /\ pc'[n] = pc[n] /\ dirty'[n] = dirty[n]
    BY <1>2 DEF Disconnect
  <2> QED BY <2>1 DEF QueueInv, Queues
<1> QED BY <1>1, <1>2

LEMMA QueueStep == TypeOK /\ QueueInv /\ [Next]_vars => QueueInv'
<1> SUFFICES ASSUME TypeOK, QueueInv, [Next]_vars PROVE QueueInv'
  OBVIOUS
<1> DEFINE Kept(n) == /\ pc'[n] = pc[n] /\ dirty'[n] = dirty[n] /\ reply'[n] = reply[n]
                      /\ toServer'[n] = toServer[n] /\ toClient'[n] = toClient[n]
<1>a. ASSUME NEW n \in Machines, Kept(n) PROVE Queues(n)'
  BY <1>a DEF QueueInv, Queues
<1>b. ASSUME NEW m \in Machines, Queues(m)', \A n \in Machines \ {m} : Kept(n)
      PROVE  QueueInv'
  BY <1>a, <1>b DEF QueueInv
<1> USE DEF loopVars, clientVars, netVars, serverVars, Goto, Refresh
<1>1. ASSUME NEW m \in Machines, Edit(m) \/ Check(m) \/ OnSignInSuccess(m) PROVE QueueInv'
  <2>1. \A n \in Machines \ {m} : Kept(n)
    BY <1>1 DEF Edit, Check, OnSignInSuccess, TypeOK
  <2>2. Queues(m)'
    BY <1>1 DEF Edit, Check, OnSignInSuccess, TypeOK, QueueInv, Queues
  <2> QED BY <1>b, <2>1, <2>2
<1>2. ASSUME NEW m \in Machines, NEW g \in Groups, SetGroup(m, g) PROVE QueueInv'
  BY <1>2, <1>a DEF SetGroup, QueueInv
<1>3. ASSUME NEW m \in Machines, Restore(m) PROVE QueueInv'
  <2>1. \A n \in Machines \ {m} : Kept(n)
    BY <1>3 DEF Restore, TypeOK
  <2>2. Queues(m)'
    BY <1>3 DEF Restore, TypeOK, QueueInv, Queues
  <2> QED BY <1>b, <2>1, <2>2
<1>4. ASSUME NEW m \in Machines, Push(m) PROVE QueueInv'
  <2> DEFINE e == [type |-> "push", val |-> data[m]]
  <2>1. \A n \in Machines \ {m} : Kept(n)
    BY <1>4 DEF Push, Send, TypeOK
  <2>2. /\ pc[m] = "push" /\ pc'[m] = "pull" /\ UNCHANGED <<dirty, reply, toClient>>
        /\ toServer'[m] \in {toServer[m], Append(toServer[m], e)}
    BY <1>4 DEF Push, Send, TypeOK
  <2>3. ~Has(toServer[m], "pull") /\ ~Has(toClient[m], "pulled") /\ reply[m] = None
    BY <2>2 DEF QueueInv, Queues
  <2>4. e \in Requests /\ e.type # "pull"
    BY RequestTypes DEF TypeOK
  <2>5. ~Has(toServer'[m], "pull") /\ OnlyLast(toServer'[m], "pull")
    <3> HIDE DEF e
    <3>1. toServer[m] \in Seq(Requests)
      BY DEF TypeOK
    <3>2. ~Has(Append(toServer[m], e), "pull") /\ OnlyLast(Append(toServer[m], e), "pull")
      BY <2>3, <2>4, <3>1, AppendHas, AppendLast
    <3> QED BY <2>2, <2>3, <3>2 DEF QueueInv, Queues
  <2>6. Queues(m)'
    BY <2>2, <2>3, <2>5 DEF QueueInv, Queues
  <2> QED BY <1>b, <2>1, <2>6
<1>5. ASSUME NEW m \in Machines, Pull(m) PROVE QueueInv'
  <2>1. \A n \in Machines \ {m} : Kept(n)
    BY <1>5 DEF Pull, Send, TypeOK
  <2>2. pc[m] = "pull" /\ UNCHANGED <<reply, toClient>>
    BY <1>5 DEF Pull
  <2>3. ~Has(toServer[m], "pull") /\ ~Has(toClient[m], "pulled") /\ reply[m] = None
    BY <2>2 DEF QueueInv, Queues
  <2>4. CASE Connected(m)
    <3>1. pc'[m] = "wait" /\ toServer'[m] = Append(toServer[m], [type |-> "pull"])
      BY <1>5, <2>4 DEF Pull, Send, TypeOK
    <3>2. OnlyLast(toServer'[m], "pull")
      <4>1. toServer[m] \in Seq(Requests)
        BY DEF TypeOK
      <4> QED BY <2>3, <3>1, <4>1, RequestTypes, AppendLast
    <3>3. Queues(m)'
      BY <2>2, <2>3, <3>1, <3>2 DEF QueueInv, Queues
    <3> QED BY <1>b, <2>1, <3>3
  <2>5. CASE ~Connected(m)
    <3>1. pc'[m] = "idle" /\ dirty'[m] /\ toServer'[m] = toServer[m]
      BY <1>5, <2>5 DEF Pull, TypeOK
    <3>2. Queues(m)'
      BY <2>2, <2>3, <3>1 DEF QueueInv, Queues
    <3> QED BY <1>b, <2>1, <3>2
  <2> QED BY <2>4, <2>5
<1>6. ASSUME NEW m \in Machines, Apply(m) PROVE QueueInv'
  <2>1. \A n \in Machines \ {m} : Kept(n)
    BY <1>6 DEF Apply, TypeOK
  <2>2. Queues(m)'
    BY <1>6 DEF Apply, TypeOK, QueueInv, Queues
  <2> QED BY <1>b, <2>1, <2>2
<1>7. ASSUME NEW m \in Machines, PullTimeout(m) PROVE QueueInv'
  <2>1. \A n \in Machines \ {m} : Kept(n)
    BY <1>7 DEF PullTimeout, TypeOK
  <2>2. /\ pc'[m] = "idle" /\ dirty'[m] /\ reply'[m] = None
        /\ toServer'[m] = Without(toServer[m], "pull")
        /\ toClient'[m] = Without(toClient[m], "pulled")
    BY <1>7 DEF PullTimeout, TypeOK
  <2>3. toServer[m] \in Seq(Requests) /\ toClient[m] \in Seq(Answers)
    BY DEF TypeOK
  <2>4. Once(toServer[m], "pull") /\ Once(toClient[m], "pulled")
    BY DEF QueueInv, Queues, OnlyLast, Once
  <2>5. ~Has(toServer'[m], "pull") /\ ~Has(toClient'[m], "pulled")
    BY <2>2, <2>3, <2>4, WithoutRemoves
  <2>6. Queues(m)'
    BY <2>2, <2>5 DEF Queues, Has, OnlyLast, Once
  <2> QED BY <1>b, <2>1, <2>6
<1>8. ASSUME NEW m \in Machines, Notify(m) PROVE QueueInv'
  <2>1. \A n \in Machines \ {m} : Kept(n)
    BY <1>8 DEF Notify, Receive, TypeOK
  <2>2. /\ toClient[m] \in Seq(Answers) /\ toClient[m] # <<>>
        /\ toClient'[m] = Tail(toClient[m])
        /\ pc'[m] = pc[m] /\ dirty'[m] = dirty[m] /\ reply'[m] = reply[m]
        /\ toServer'[m] = toServer[m]
    BY <1>8 DEF Notify, Received, Receive, TypeOK
  <2>3. /\ Has(toClient'[m], "pulled") => Has(toClient[m], "pulled")
        /\ Once(toClient'[m], "pulled")
    BY <2>2, TailHas, TailOnce DEF QueueInv, Queues
  <2>4. Queues(m)'
    BY <2>2, <2>3 DEF QueueInv, Queues
  <2> QED BY <1>b, <2>1, <2>4
<1>9. ASSUME NEW m \in Machines, PullDone(m) PROVE QueueInv'
  <2>1. \A n \in Machines \ {m} : Kept(n)
    BY <1>9 DEF PullDone, Receive, TypeOK
  <2>2. /\ toClient[m] \in Seq(Answers) /\ toClient[m] # <<>> /\ Head(toClient[m]).type = "pulled"
        /\ toClient'[m] = Tail(toClient[m]) /\ UNCHANGED <<reply, toServer>>
        /\ pc'[m] = "apply" \/ (pc'[m] = "idle" /\ dirty'[m])
    BY <1>9 DEF PullDone, Received, Receive, TypeOK
  <2>3. Has(toClient[m], "pulled")
    BY <2>2, HeadHas
  <2>4. toServer[m] = <<>> /\ reply[m] = None
    BY <2>3 DEF QueueInv, Queues, TypeOK
  <2>5. ~Has(toClient'[m], "pulled") /\ Once(toClient'[m], "pulled")
    BY <2>2, TailOnce DEF QueueInv, Queues
  <2>6. Queues(m)'
    BY <2>2, <2>4, <2>5, EmptyHasNone DEF Queues, OnlyLast
  <2> QED BY <1>b, <2>1, <2>6
<1>10. ASSUME NEW m \in Machines, ServePush(m) PROVE QueueInv'
  <2> DEFINE e == [type |-> "notify", from |-> m, val |-> Head(toServer[m]).val]
  <2>1. /\ toServer[m] \in Seq(Requests) /\ toServer[m] # <<>>
        /\ Head(toServer[m]) \in Requests /\ Head(toServer[m]).type = "push"
        /\ toServer' = [toServer EXCEPT ![m] = Tail(@)]
        /\ UNCHANGED <<pc, dirty, reply>>
        /\ toClient'[m] = toClient[m]
        /\ \A n \in Machines : toClient'[n] \in {toClient[n], Append(toClient[n], e)}
    BY <1>10 DEF ServePush, Requested, Take, TypeOK
  <2>2. e \in Answers /\ e.type # "pulled"
    BY <2>1, RequestTypes, AnswerTypes
  <2> HIDE DEF e
  <2>3. Queues(m)'
    <3>1. toServer'[m] = Tail(toServer[m])
      BY <2>1 DEF TypeOK
    <3>2. /\ Has(toServer'[m], "pull") => Has(toServer[m], "pull")
          /\ OnlyLast(toServer'[m], "pull")
      BY <2>1, <3>1, TailHas, TailLast DEF QueueInv, Queues
    <3> QED BY <2>1, <3>2 DEF QueueInv, Queues
  <2>4. ASSUME NEW n \in Machines, n # m PROVE Queues(n)'
    <3>1. toServer'[n] = toServer[n] /\ toClient[n] \in Seq(Answers)
      BY <2>1, <2>4 DEF TypeOK
    <3>2. /\ Has(Append(toClient[n], e), "pulled") <=> Has(toClient[n], "pulled")
          /\ Once(Append(toClient[n], e), "pulled")
      BY <2>2, <3>1, AppendHas, AppendOnce DEF QueueInv, Queues
    <3>3. /\ Has(toClient'[n], "pulled") <=> Has(toClient[n], "pulled")
          /\ Once(toClient'[n], "pulled")
      BY <2>1, <3>2 DEF QueueInv, Queues
    <3> QED BY <2>1, <3>1, <3>3 DEF QueueInv, Queues
  <2> QED BY <2>3, <2>4 DEF QueueInv
<1>11. ASSUME NEW m \in Machines, ServePull(m) PROVE QueueInv'
  <2>1. \A n \in Machines \ {m} : Kept(n)
    BY <1>11 DEF ServePull, Take, TypeOK
  <2>2. /\ toServer[m] \in Seq(Requests) /\ toServer[m] # <<>> /\ Head(toServer[m]).type = "pull"
        /\ toServer'[m] = Tail(toServer[m])
        /\ pc'[m] = pc[m] /\ toClient'[m] = toClient[m]
    BY <1>11 DEF ServePull, Requested, Take, TypeOK
  <2>3. toServer'[m] = <<>>
    BY <2>2, TailLast DEF QueueInv, Queues
  <2>4. Has(toServer[m], "pull")
    BY <2>2, HeadHas
  <2>5. pc[m] = "wait" /\ ~Has(toClient[m], "pulled") /\ Once(toClient[m], "pulled")
    BY <2>2, <2>4 DEF QueueInv, Queues
  <2>6. Queues(m)'
    <3>1. ~Has(toClient'[m], "pulled") /\ Once(toClient'[m], "pulled") /\ pc'[m] = "wait"
      BY <2>2, <2>5
    <3>2. OnlyLast(toServer'[m], "pull")
      BY <2>3 DEF OnlyLast
    <3> QED BY <2>3, <3>1, <3>2 DEF Queues
  <2> QED BY <1>b, <2>1, <2>6
<1>12. ASSUME NEW m \in Machines, ReplyPull(m) PROVE QueueInv'
  <2>1. \A n \in Machines \ {m} : Kept(n)
    BY <1>12 DEF ReplyPull, TypeOK
  <2>2. /\ toClient'[m] = Append(toClient[m], reply[m]) /\ reply'[m] = None
        /\ reply[m] # None /\ reply[m] \in Answers /\ toClient[m] \in Seq(Answers)
        /\ UNCHANGED <<pc, dirty, toServer>>
    BY <1>12, AnswerTypes DEF ReplyPull, TypeOK
  <2>3. pc[m] = "wait" /\ toServer[m] = <<>> /\ ~Has(toClient[m], "pulled")
    BY <2>2 DEF QueueInv, Queues
  <2>4. Once(toClient'[m], "pulled")
    BY <2>2, <2>3, AppendOnce DEF QueueInv, Queues
  <2>5. Queues(m)'
    BY <2>2, <2>3, <2>4 DEF Queues, OnlyLast
  <2> QED BY <1>b, <2>1, <2>5
<1>13. CASE ClearFind \/ ClearRemove
  BY <1>13, <1>a DEF ClearFind, ClearRemove, QueueInv
<1>14. ASSUME NEW m \in Machines, SignIn(m) PROVE QueueInv'
  BY <1>14, <1>a DEF SignIn, QueueInv
<1>15. ASSUME NEW m \in Machines, Drop(m) PROVE QueueInv'
  BY <1>15, DisconnectQueues DEF Drop
<1>16. CASE Restart
  <2>1. Disconnect(Machines) /\ Machines \in SUBSET Machines /\ UNCHANGED <<pc, dirty>>
    BY <1>16 DEF Restart
  <2> QED BY <2>1, DisconnectQueues
<1>17. CASE UNCHANGED vars
  BY <1>17, <1>a DEF vars, QueueInv
<1> QED
  BY <1>1, <1>2, <1>3, <1>4, <1>5, <1>6, <1>7, <1>8, <1>9, <1>10, <1>11, <1>12, <1>13, <1>14,
     <1>15, <1>16, <1>17
     DEF Next, Loop, Client, Server, Connect

------------------------------------------------------------------------------
(* What the server will have *)

LEMMA StoreInit == Init => StoreInv
BY DEF Init, StoreInv, Owes

LEMMA StoreStep == Inv /\ [Next]_vars => StoreInv'
<1> SUFFICES ASSUME Inv, [Next]_vars PROVE StoreInv'
  OBVIOUS
<1> DEFINE Kept(n) == /\ con'[n] = con[n] /\ pc'[n] = pc[n] /\ dirty'[n] = dirty[n]
                      /\ data'[n] = data[n] /\ store'[n] = store[n]
                      /\ toServer'[n] = toServer[n]
           Stored(n) == ~Owes(n) => Promises(toServer[n], store[n], data[n])
<1>a. ASSUME NEW n \in Machines, Kept(n) PROVE Stored(n)'
  BY <1>a DEF Inv, StoreInv, Owes
<1>b. ASSUME NEW m \in Machines, Stored(m)', \A n \in Machines \ {m} : Kept(n)
      PROVE  StoreInv'
  BY <1>a, <1>b DEF StoreInv
<1>c. ASSUME NEW m \in Machines, Owes(m)', \A n \in Machines \ {m} : Kept(n)
      PROVE  StoreInv'
  BY <1>b, <1>c
<1> USE DEF loopVars, clientVars, netVars, serverVars, Goto, Refresh, Inv
<1>1. ASSUME NEW m \in Machines, Edit(m) \/ Check(m) PROVE StoreInv'
  <2>1. \A n \in Machines \ {m} : Kept(n)
    BY <1>1 DEF Edit, Check, TypeOK
  <2>2. Owes(m)'
    BY <1>1 DEF Edit, Check, Owes, TypeOK
  <2> QED BY <1>c, <2>1, <2>2
<1>2. ASSUME NEW m \in Machines, OnSignInSuccess(m) \/ PullTimeout(m) PROVE StoreInv'
  <2>1. \A n \in Machines \ {m} : Kept(n)
    BY <1>2 DEF OnSignInSuccess, PullTimeout, TypeOK
  <2>2. Owes(m)'
    BY <1>2 DEF OnSignInSuccess, PullTimeout, Owes, TypeOK
  <2> QED BY <1>c, <2>1, <2>2
<1>3. ASSUME NEW m \in Machines, Restore(m) PROVE StoreInv'
  <2>1. \A n \in Machines \ {m} : Kept(n)
    BY <1>3 DEF Restore, TypeOK
  <2>2. Owes(m)'
    BY <1>3 DEF Restore, Owes, TypeOK
  <2> QED BY <1>c, <2>1, <2>2
<1>4. ASSUME NEW m \in Machines, Push(m) PROVE StoreInv'
  <2>1. \A n \in Machines \ {m} : Kept(n)
    BY <1>4 DEF Push, Send, TypeOK
  <2>2. CASE Connected(m)
    <3>1. /\ toServer'[m] = Append(toServer[m], [type |-> "push", val |-> data[m]])
          /\ data'[m] = data[m] /\ toServer[m] \in Seq(Requests) /\ data[m] \in 0..MaxEdits
      BY <1>4, <2>2 DEF Push, Send, TypeOK
    <3>2. Promises(toServer'[m], store'[m], data'[m])
      BY <3>1, AppendPush
    <3> QED BY <1>b, <2>1, <3>2
  <2>3. CASE ~Connected(m)
    <3>1. Owes(m)'
      BY <1>4, <2>3 DEF Push, Connected, Owes, TypeOK
    <3> QED BY <1>c, <2>1, <3>1
  <2> QED BY <2>2, <2>3
<1>5. ASSUME NEW m \in Machines, Pull(m) PROVE StoreInv'
  <2>1. \A n \in Machines \ {m} : Kept(n)
    BY <1>5 DEF Pull, Send, TypeOK
  <2>2. CASE Connected(m)
    <3>1. /\ toServer'[m] = Append(toServer[m], [type |-> "pull"])
          /\ data'[m] = data[m] /\ store'[m] = store[m] /\ toServer[m] \in Seq(Requests)
          /\ con'[m] = con[m] /\ dirty'[m] = dirty[m] /\ pc[m] = "pull"
      BY <1>5, <2>2 DEF Pull, Send, TypeOK
    <3>2. ~Owes(m)' => Promises(toServer[m], store[m], data[m])
      BY <3>1 DEF StoreInv, Owes
    <3>3. Stored(m)'
      BY <3>1, <3>2, AppendPull
    <3> QED BY <1>b, <2>1, <3>3
  <2>3. CASE ~Connected(m)
    <3>1. Owes(m)'
      BY <1>5, <2>3 DEF Pull, Connected, Owes, TypeOK
    <3> QED BY <1>c, <2>1, <3>1
  <2> QED BY <2>2, <2>3
<1>6. ASSUME NEW m \in Machines, Apply(m) PROVE StoreInv'
  <2>1. \A n \in Machines \ {m} : Kept(n)
    BY <1>6 DEF Apply, TypeOK
  <2>2. Stored(m)'
    BY <1>6 DEF Apply, StoreInv, Owes, TypeOK
  <2> QED BY <1>b, <2>1, <2>2
<1>7. ASSUME NEW m \in Machines, Notify(m) PROVE StoreInv'
  BY <1>7, <1>a DEF Notify, StoreInv
<1>8. ASSUME NEW m \in Machines, PullDone(m) PROVE StoreInv'
  <2>1. \A n \in Machines \ {m} : Kept(n)
    BY <1>8 DEF PullDone, TypeOK
  <2>2. Has(toClient[m], "pulled")
    BY <1>8, HeadHas DEF PullDone, Received, TypeOK
  <2>3. pc[m] = "wait"
    BY <2>2 DEF QueueInv, Queues
  <2>4. /\ UNCHANGED <<con, data, store, toServer>>
        /\ dirty'[m] \/ dirty'[m] = dirty[m]
    BY <1>8 DEF PullDone, TypeOK
  <2>5. Stored(m)'
    BY <2>3, <2>4 DEF StoreInv, Owes
  <2> QED BY <1>b, <2>1, <2>5
<1>9. ASSUME NEW m \in Machines, ServePush(m) PROVE StoreInv'
  <2>1. \A n \in Machines \ {m} : Kept(n)
    BY <1>9 DEF ServePush, Take, TypeOK
  <2>2. /\ toServer[m] \in Seq(Requests) /\ toServer[m] # <<>> /\ Head(toServer[m]).type = "push"
        /\ toServer'[m] = Tail(toServer[m]) /\ store'[m] = Head(toServer[m]).val
        /\ UNCHANGED <<con, dirty, pc, data>>
    BY <1>9 DEF ServePush, Requested, Take, TypeOK, Lists
  <2>3. Owes(m)' <=> Owes(m)
    BY <2>2 DEF Owes
  <2>4. ~Owes(m) => Promises(Tail(toServer[m]), Head(toServer[m]).val, data[m])
    BY <2>2, TailPromises DEF StoreInv
  <2>5. Stored(m)'
    BY <2>2, <2>3, <2>4
  <2> QED BY <1>b, <2>1, <2>5
<1>10. ASSUME NEW m \in Machines, ServePull(m) PROVE StoreInv'
  <2>1. \A n \in Machines \ {m} : Kept(n)
    BY <1>10 DEF ServePull, Take, TypeOK
  <2>2. /\ toServer[m] \in Seq(Requests) /\ toServer[m] # <<>> /\ Head(toServer[m]).type = "pull"
        /\ toServer'[m] = Tail(toServer[m])
        /\ UNCHANGED <<con, dirty, pc, data, store>>
    BY <1>10 DEF ServePull, Requested, Take, TypeOK
  <2>3. Owes(m)' <=> Owes(m)
    BY <2>2 DEF Owes
  <2>4. ~Owes(m) => Promises(Tail(toServer[m]), store[m], data[m])
    BY <2>2, TailPromises DEF StoreInv
  <2>5. Stored(m)'
    BY <2>2, <2>3, <2>4
  <2> QED BY <1>b, <2>1, <2>5
<1>11. CASE (\E m \in Machines : ReplyPull(m) \/ \E g \in Groups : SetGroup(m, g)) \/ ClearFind
  BY <1>11, <1>a DEF ReplyPull, SetGroup, ClearFind, StoreInv
<1>12. CASE ClearRemove
  <2> SUFFICES ASSUME NEW n \in Machines PROVE Stored(n)'
    BY DEF StoreInv
  <2>1. /\ store'[n] \in {None, store[n]}
        /\ UNCHANGED <<con, dirty, pc, data, toServer>>
    BY <1>12 DEF ClearRemove
  <2> QED BY <2>1 DEF StoreInv, Owes, Promises
<1>13. ASSUME NEW m \in Machines, SignIn(m) PROVE StoreInv'
  <2>1. \A n \in Machines \ {m} : Kept(n)
    BY <1>13 DEF SignIn, TypeOK
  <2>2. Owes(m)'
    BY <1>13 DEF SignIn, Owes, TypeOK
  <2> QED BY <1>c, <2>1, <2>2
<1>14. ASSUME NEW m \in Machines, Drop(m) PROVE StoreInv'
  <2>1. \A n \in Machines \ {m} : Kept(n)
    BY <1>14 DEF Drop, Disconnect
  <2>2. Owes(m)'
    BY <1>14 DEF Drop, Disconnect, Owes
  <2> QED BY <1>c, <2>1, <2>2
<1>15. CASE Restart
  BY <1>15 DEF Restart, Disconnect, StoreInv, Owes
<1>16. CASE UNCHANGED vars
  BY <1>16, <1>a DEF vars, StoreInv
<1> QED
  BY <1>1, <1>2, <1>3, <1>4, <1>5, <1>6, <1>7, <1>8, <1>9, <1>10, <1>11, <1>12, <1>13, <1>14,
     <1>15, <1>16
     DEF Next, Loop, Client, Server, Connect

------------------------------------------------------------------------------
(* Theorems *)

(* Every step keeps the invariant. *)
THEOREM Invariance == Spec => []Inv
<1>1. Init => Inv
  BY TypeInit, QueueInit, StoreInit DEF Inv
<1>2. Inv /\ [Next]_vars => Inv'
  BY TypeStep, QueueStep, StoreStep DEF Inv
<1> QED BY <1>1, <1>2, PTL DEF Spec

(* The variables keep their types: the loop applies an answer only when it has
   one, and an answer that comes late finds no round to spoil. *)
THEOREM TypeCorrect == Spec => []TypeOK
<1>1. Inv => TypeOK
  BY DEF Inv
<1> QED BY Invariance, <1>1, PTL

(* A client that owes nothing has its latest data on the server, or none of
   it, for any number of machines, changes and faults. *)
THEOREM NeverOutdatedServer == Spec => []NeverOutdated
<1>1. Inv => NeverOutdated
  <2> SUFFICES ASSUME Inv, NEW m \in Machines, con[m] = "on", pc[m] = "idle", ~dirty[m]
               PROVE  store[m] \in {None, data[m]}
    BY DEF NeverOutdated
  <2>1. toServer[m] = <<>>
    BY DEF Inv, QueueInv, Queues
  <2>2. Promises(toServer[m], store[m], data[m])
    BY DEF Inv, StoreInv, Owes
  <2> QED BY <2>1, <2>2, EmptyHasNone DEF Promises
<1> QED BY Invariance, <1>1, PTL
================================================================================
