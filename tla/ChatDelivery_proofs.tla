------------------------ MODULE ChatDelivery_proofs ------------------------
(***************************************************************************)
(* What the inductive invariant of ChatCluster_proofs says of the steps of *)
(* the cluster: none drops a message of a settled account, and each is a   *)
(* step of the session registry, or none of its business.                  *)
(***************************************************************************)
EXTENDS ChatCluster_proofs

USE DEF database, redis, server, chat, history

(* Messages.                                                               *)

\* What NoLossWhenSettled asks of a step.
Kept(u, m) == InHands(u, m) \/ <<u, u, m>> \in sent \/ m \in offlineMsg[u]

\* No fault strikes and no process ends in this step.
Faultless == stopping' = stopping /\ budget'["fault"] = budget["fault"]

\* A fault is noticed in the budget.
LEMMA SpentIsFault ==
  ASSUME TypeOK, NEW k \in Fault, Spend(k), Faultless
  PROVE  FALSE
<1>1. k # "login"
  BY DEF Fault
<1> QED
  BY <1>1 DEF TypeOK, Spend, Faultless, Limited

\* The connection entered for a settled, undamaged account is its own, on every
\* server that has an entry for it.
LEMMA SettledEntry ==
  ASSUME IndInv, NEW u \in User \ raced, Settled(u), NEW s \in Server, userConnMap[s][u] # NoConn
  PROVE  /\ userConnMap[s][u] \in Conn
         /\ conn[userConnMap[s][u]] = "up"
         /\ session[userConnMap[s][u]] = u
<1>1. PICK c \in Conn : conn[c] = "up" /\ userConnMap[ServerOf[c]][u] = c
  BY DEF Settled
<1>2. ServerOf[c] \in Server /\ c # NoConn
  BY ClusterAssumption DEF ClusterAssumption
<1>3. s = ServerOf[c]
  BY <1>1, <1>2 DEF IndInv, SingleSession
<1>4. u \notin stray
  BY DEF IndInv, StrayIsRaced
<1> QED
  BY <1>1, <1>2, <1>3, <1>4 DEF IndInv, NoDanglingEntry

\* send() gives the message to the connection entered for a settled account.
LEMMA SendReaches ==
  ASSUME IndInv, NEW u \in User \ raced, NEW m, Settled(u), NEW s \in Server,
         userConnMap[s][u] # NoConn, Send(userConnMap[s][u], u, m)
  PROVE  <<u, u, m>> \in sent'
<1>1. conn[userConnMap[s][u]] = "up" /\ session[userConnMap[s][u]] = u
  BY SettledEntry
<1> QED
  BY <1>1 DEF Send

\* A step that leaves the handlers' messages and what waits for the observers
\* alone leaves a message in hands.
LEMMA HandsAlone ==
  ASSUME NEW u, NEW m, InHands(u, m), UNCHANGED <<todo, msg, inbound>>
  PROVE  InHands(u, m)'
BY DEF InHands

\* The message leaves a handler with its last recipient only, and a recipient
\* when it is dealt with.
LEMMA OthersWait ==
  ASSUME TypeOK, NEW c \in Conn, NEW v \in todo[c], NextRecipient(c, v),
         NEW u \in User, NEW m, NEW d \in Conn, msg[d] = m, u \in todo[d], d # c \/ u # v
  PROVE  msg'[d] = m /\ u \in todo'[d]
BY DEF NextRecipient, TypeOK

\* Only what the observer takes leaves the sequence before it.
LEMMA TailKeeps ==
  ASSUME NEW S, NEW q \in Seq(S), q # <<>>, NEW i \in DOMAIN q
  PROVE  q[i] = Head(q) \/ \E j \in DOMAIN Tail(q) : Tail(q)[j] = q[i]
<1>1. CASE i = 1
  BY <1>1
<1>2. CASE i # 1
  <2>1. i - 1 \in DOMAIN Tail(q) /\ Tail(q)[i - 1] = q[i]
    BY <1>2
  <2> QED
    BY <2>1
<1> QED
  BY <1>1, <1>2

\* INSERT INTO OfflineMessage, when it does not fail, stores the message.
LEMMA StoreKeeps ==
  ASSUME TypeOK, NEW u \in User, NEW m \in Msg, StoreOffline(u, m), Faultless
  PROVE  m \in offlineMsg'[u]
<1>1. "db" \in Fault
  BY DEF Fault
<1>2. offlineMsg' = [offlineMsg EXCEPT ![u] = @ \cup {m}]
  BY <1>1, SpentIsFault DEF StoreOffline
<1> QED
  BY <1>2 DEF TypeOK

\* A step of the observer of server s takes the first message, and sends or
\* stores it.
LEMMA ObserverKeeps ==
  ASSUME IndInv, NEW s \in Server, NEW u \in User \ raced, NEW m \in Msg, Settled(u), Faultless,
         NEW t \in Server, NEW i \in DOMAIN inbound[t], inbound[t][i] = <<u, m>>,
         ObserverStep(s)
  PROVE  Kept(u, m)'
<1>1. inbound[s] \in Seq(User \X Msg) /\ TypeOK
  BY DEF IndInv, TypeOK
<1>2. inbound[s] # <<>> /\ (inbound' = inbound \/ inbound' = [inbound EXCEPT ![s] = Tail(@)])
  BY DEF ObserverStep, Observe, ObserveStore, IndInv, AbsenceHolds
<1>3. CASE inbound'[t] = inbound[t]
  BY <1>3 DEF Kept, InHands
<1>4. CASE t = s /\ inbound' = [inbound EXCEPT ![s] = Tail(@)]
  <2>1. inbound'[s] = Tail(inbound[s])
    BY <1>1, <1>4 DEF TypeOK
  <2>2. ASSUME NEW j \in DOMAIN Tail(inbound[s]), Tail(inbound[s])[j] = inbound[s][i]
        PROVE  Kept(u, m)'
    BY <1>4, <2>1, <2>2 DEF Kept, InHands
  <2>3. CASE inbound[s][i] = Head(inbound[s])
    <3>1. Head(inbound[s])[1] = u /\ Head(inbound[s])[2] = m
      BY <1>4, <2>3
    <3>2. CASE Observe(s)
      <4>1. inbound' # inbound
        <5>1. Len(Tail(inbound[s])) # Len(inbound[s])
          BY <1>1, <1>2
        <5> QED
          BY <1>1, <1>4, <5>1 DEF TypeOK
      <4>2. userConnMap[s][u] # NoConn /\ Send(userConnMap[s][u], u, m)
        BY <3>1, <3>2, <4>1 DEF Observe
      <4> QED
        BY <4>2, SendReaches DEF Kept
    <3>3. CASE ObserveStore(s)
      BY <1>1, <3>1, <3>3, StoreKeeps DEF ObserveStore, Kept
    <3> QED
      BY <3>2, <3>3 DEF ObserverStep
  <2> QED
    BY <1>1, <1>2, <1>4, <2>2, <2>3, TailKeeps
<1> QED
  BY <1>1, <1>2, <1>3, <1>4 DEF TypeOK

\* A step that deals with a recipient sends, publishes or stores its message.
LEMMA HandlerKeeps ==
  ASSUME IndInv, NEW c \in Conn, NEW u \in User \ raced, NEW m \in Msg, Settled(u), Faultless,
         InHands(u, m), DeliverHere(c) \/ Publish(c) \/ Store(c)
  PROVE  Kept(u, m)'
<1> DEFINE s == ServerOf[c]
<1>1. TypeOK /\ s \in Server /\ \A d \in Conn : ServerOf[d] \in Server
  BY ClusterAssumption DEF IndInv, ClusterAssumption
<1>2. PICK v \in todo[c] :
        /\ NextRecipient(c, v)
        /\ \/ userConnMap[s][v] # NoConn /\ Send(userConnMap[s][v], v, msg[c])
           \/ /\ pc[c] = "publish" /\ v = uid[c]
              /\ inbound' = Published(v, msg[c]) \/ Spend("publish")
           \/ StoreOffline(v, msg[c])
  BY DEF DeliverHere, Publish, Store, IndInv, Control
<1>3. v \in User /\ msg[c] \in Msg
  BY <1>1 DEF DeliverHere, Publish, Store, IndInv, Control, DeliverPC, TypeOK
<1>4. ASSUME NEW d \in Conn, msg[d] = m, u \in todo[d] PROVE Kept(u, m)'
  <2>1. CASE d # c \/ u # v
    BY <1>1, <1>2, <1>4, <2>1, OthersWait DEF Kept, InHands
  <2>2. CASE d = c /\ u = v
    <3>1. CASE userConnMap[s][v] # NoConn /\ Send(userConnMap[s][v], v, msg[c])
      BY <1>1, <1>4, <2>2, <3>1, SendReaches DEF Kept
    <3>2. CASE inbound' = Published(v, msg[c]) \/ Spend("publish")
      <4>1. inbound' = Published(u, m)
        BY <1>1, <1>4, <2>2, <3>2, SpentIsFault DEF Fault
      <4>2. PICK t \in Server : t \in subs[u]
        BY <1>1 DEF Settled
      <4>3. inbound[t] \in Seq(User \X Msg) /\ inbound'[t] = Append(inbound[t], <<u, m>>)
        BY <1>1, <4>1, <4>2 DEF Published, TypeOK
      <4>4. Len(inbound[t]) + 1 \in DOMAIN inbound'[t]
            /\ inbound'[t][Len(inbound[t]) + 1] = <<u, m>>
        BY <4>3
      <4> QED
        BY <4>4 DEF Kept, InHands
    <3>3. CASE StoreOffline(v, msg[c])
      BY <1>1, <1>3, <1>4, <2>2, <3>3, StoreKeeps DEF Kept
    <3> QED
      BY <1>2, <3>1, <3>2, <3>3
  <2> QED
    BY <2>1, <2>2
<1>5. ASSUME NEW t \in Server, NEW i \in DOMAIN inbound[t], inbound[t][i] = <<u, m>>
      PROVE  Kept(u, m)'
  <2>1. inbound[t] \in Seq(User \X Msg)
    BY <1>1 DEF TypeOK
  <2>2. inbound'[t] = inbound[t] \/ inbound'[t] = Append(inbound[t], <<uid[c], msg[c]>>)
    BY DEF DeliverHere, Publish, Store, Published
  <2>3. i \in DOMAIN inbound'[t] /\ inbound'[t][i] = inbound[t][i]
    <3>1. CASE inbound'[t] = Append(inbound[t], <<uid[c], msg[c]>>)
      <4>1. PICK x : x = <<uid[c], msg[c]>>
        OBVIOUS
      <4>2. inbound'[t] = Append(inbound[t], x) /\ i \in DOMAIN inbound[t]
        BY <3>1, <4>1
      <4> QED
        BY <2>1, <4>2
    <3> QED
      BY <2>2, <3>1
  <2> QED
    BY <1>5, <2>3 DEF Kept, InHands
<1> QED
  BY <1>4, <1>5 DEF InHands

\* No step loses a message of a settled, undamaged account unless a fault strikes.
LEMMA StepKeeps ==
  ASSUME IndInv, [Next]_vars, NEW u \in User \ raced, NEW m \in Msg,
         InHands(u, m), Settled(u), Faultless
  PROVE  Kept(u, m)'
<1>1. TypeOK
  BY DEF IndInv
<1>2. CASE UNCHANGED <<todo, msg, inbound>>
  BY <1>2, HandsAlone DEF Kept
<1>3. ASSUME NEW c \in Conn, NEW n \in Msg, NEW R \in (SUBSET User) \ {{}}, Chat(c, n, R)
      PROVE  Kept(u, m)'
  <2>1. todo[c] = {}
    BY <1>3 DEF Chat, IndInv, Control, DeliverPC
  <2>2. UNCHANGED inbound /\ \A d \in Conn \ {c} : todo'[d] = todo[d] /\ msg'[d] = msg[d]
    BY <1>1, <1>3 DEF Chat, TypeOK
  <2> QED
    BY <2>1, <2>2 DEF Kept, InHands
<1>4. ASSUME NEW c \in Conn, HandlerStep(c) PROVE Kept(u, m)'
  <2>1. CASE DeliverHere(c) \/ Publish(c) \/ Store(c)
    BY <2>1, HandlerKeeps
  <2>2. CASE ~ (DeliverHere(c) \/ Publish(c) \/ Store(c))
    <3>1. UNCHANGED <<todo, msg, inbound>>
      BY <1>4, <2>2 DEF HandlerStep, LoginUpdate, LoginUpdateFails, LoginInsert, LoginSubscribe,
         LoginRead, LoginRemove, LoginAck, DeliverElsewhere, Lookup, CloseErase, Unsubscribe,
         SetOffline
    <3> QED
      BY <1>2, <3>1
  <2> QED
    BY <2>1, <2>2
<1>5. ASSUME NEW s \in Server, ObserverStep(s) PROVE Kept(u, m)'
  <2>1. UNCHANGED <<todo, msg>>
    BY <1>5 DEF ObserverStep, Observe, ObserveStore
  <2>2. CASE \E d \in Conn : msg[d] = m /\ u \in todo[d]
    BY <2>1, <2>2 DEF Kept, InHands
  <2>3. ASSUME NEW t \in Server, NEW i \in DOMAIN inbound[t], inbound[t][i] = <<u, m>>
        PROVE  Kept(u, m)'
    BY <1>5, <2>3, ObserverKeeps
  <2> QED
    BY <2>2, <2>3 DEF InHands
<1>6. ASSUME NEW s \in Server, LoseRedis(s) \/ Crash(s) \/ Sigint(s) \/ Exit(s) PROVE FALSE
  <2>1. CASE Exit(s)
    BY <2>1 DEF Exit, Wipe, Faultless
  <2>2. CASE LoseRedis(s) \/ Crash(s) \/ Sigint(s)
    <3>1. Spend("redis") \/ Spend("crash") \/ Spend("reset")
      BY <2>2 DEF LoseRedis, Crash, Sigint
    <3> QED
      BY <1>1, <3>1, SpentIsFault DEF Fault
  <2> QED
    BY <1>6, <2>1, <2>2
<1>7. ASSUME NEW c \in Conn, ClientStep(c) PROVE Kept(u, m)'
  <2>1. CASE Connect(c) \/ (\E v \in User : LoginQuery(c, v)) \/ Loginout(c) \/ Close(c)
    <3>1. UNCHANGED <<todo, msg, inbound>>
      BY <2>1 DEF Connect, LoginQuery, Loginout, Close
    <3> QED
      BY <1>2, <3>1
  <2> QED
    BY <1>3, <1>7, <2>1, RecipientsType DEF ClientStep
<1>8. ASSUME NEW s \in Server, Redis(s) PROVE Kept(u, m)'
  <2>1. UNCHANGED <<todo, msg, inbound>>
    BY <1>8 DEF Redis
  <2> QED
    BY <1>2, <2>1
<1>9. CASE UNCHANGED vars
  <2>1. UNCHANGED <<todo, msg, inbound>>
    BY <1>9 DEF vars
  <2> QED
    BY <1>2, <2>1
<1> QED
  BY <1>4, <1>5, <1>6, <1>7, <1>8, <1>9 DEF Next

\* A message on its way to a settled, undamaged account is not lost by any
\* step in which no fault strikes: handlers and observers send or store it.
THEOREM MessagesKept == Spec => NoLossWhenSettled
<1> DEFINE Step == \A u \in User \ raced, m \in Msg :
                     /\ InHands(u, m) /\ Settled(u)
                     /\ stopping' = stopping /\ budget'["fault"] = budget["fault"]
                     => InHands(u, m)' \/ <<u, u, m>> \in sent' \/ m \in offlineMsg'[u]
<1>1. IndInv /\ [Next]_vars => Step
  BY StepKeeps DEF Kept, Faultless
<1>2. IndInv /\ [Next]_vars => [Step]_vars
  BY <1>1
<1> QED
  BY <1>2, Inductive, PTL DEF Spec, NoLossWhenSettled

-----------------------------------------------------------------------------
(* The registry of sessions.                                               *)

\* A step in which every connection keeps the account it uses or gives it
\* back, and the damaged accounts stay damaged, is a step of the registry.
LEMMA GivesBack ==
  ASSUME \A d \in Conn : \/ session'[d] = NoUser
                         \/ pc'[d] = "login_update"
                         \/ session'[d] = session[d] /\ pc[d] # "login_update",
         raced \subseteq raced', raced' \subseteq User
  PROVE  Registry!Next
<1> DEFINE C == {d \in Conn : session'[d] = NoUser \/ pc'[d] = "login_update"}
<1>1. Using' = [d \in Conn |-> IF d \in C THEN NoUser ELSE Using[d]]
  BY DEF Using
<1>2. raced' = raced \cup raced'
  OBVIOUS
<1>3. Registry!GiveBack(C, raced')
  BY <1>1, <1>2 DEF Registry!GiveBack
<1> QED
  BY <1>3 DEF Registry!Next

\* The UPDATE of login takes the account, which no connection uses unless it
\* is damaged.
LEMMA LoginTakes ==
  ASSUME IndInv, NEW c \in Conn, LoginUpdate(c)
  PROVE  Registry!Next
<1> DEFINE u == session[c]
<1>1. u \in User /\ Using[c] = NoUser
  BY DEF IndInv, Control, LoginUpdate, LoginPC, Using
<1>2. raced' \in {raced, raced \cup {u}}
  BY DEF LoginUpdate
<1>3. Registry!Free(u) \/ u \in raced'
  <2> SUFFICES ASSUME NEW d \in Conn, Using[d] = u, u \notin raced
               PROVE  u \in raced'
    BY <1>2 DEF Registry!Free
  <2>1. d \in Holders(u)
    BY <1>1, ClusterAssumption DEF Using, Holders, ClusterAssumption
  <2>2. userState[u] = "online"
    BY <1>1, <2>1 DEF IndInv, FlagIsLock
  <2> QED
    BY <2>2 DEF LoginUpdate
<1>4. Using' = [Using EXCEPT ![c] = u]
  <2>1. session' = session /\ \A d \in Conn : pc'[d] = IF d = c THEN "login_insert" ELSE pc[d]
    BY DEF LoginUpdate, Goto, IndInv, TypeOK
  <2> QED
    BY <2>1 DEF Using
<1>5. Registry!Take(c, u)
  BY <1>1, <1>2, <1>3, <1>4 DEF Registry!Take
<1> QED
  BY <1>1, <1>5 DEF Registry!Next

\* Every step of the cluster is one of the registry.
LEMMA RegistryStep ==
  ASSUME IndInv, IndInv', [Next]_vars
  PROVE  [Registry!Next]_<<Using, raced>>
<1>1. TypeOK /\ raced' \subseteq User
  BY DEF IndInv, TypeOK
<1>2. ASSUME UNCHANGED session, raced \subseteq raced',
             NEW c \in Conn, pc[c] # "login_update", \A d \in Conn \ {c} : pc'[d] = pc[d]
      PROVE  Registry!Next
  <2>1. \A d \in Conn : session'[d] = session[d]
                        /\ (pc'[d] = "login_update" \/ pc[d] # "login_update")
    BY <1>2
  <2> QED
    BY <1>1, <1>2, <2>1, GivesBack
<1>3. ASSUME UNCHANGED <<session, pc>>, raced \subseteq raced' PROVE Registry!Next
  BY <1>1, <1>3, GivesBack
<1>4. ASSUME NEW c \in Conn, HandlerStep(c) PROVE Registry!Next
  <2>1. CASE LoginUpdate(c)
    BY <2>1, LoginTakes
  <2>2. CASE LoginUpdateFails(c)
    <3>1. /\ raced' = raced /\ session'[c] = NoUser
          /\ \A d \in Conn \ {c} : session'[d] = session[d] /\ pc'[d] = pc[d]
      BY <1>1, <2>2 DEF LoginUpdateFails, Goto, TypeOK
    <3> QED
      BY <1>1, <3>1, GivesBack
  <2>3. CASE Unsubscribe(c) \/ SetOffline(c)
    <3>1. pc[c] # "login_update" /\ raced \subseteq raced'
      BY <2>3 DEF Unsubscribe, SetOffline, AppendCommand
    <3>2. /\ session'[c] \in {NoUser, session[c]}
          /\ \A d \in Conn \ {c} : session'[d] = session[d] /\ pc'[d] = pc[d]
      BY <1>1, <2>3 DEF Unsubscribe, SetOffline, Left, Goto, TypeOK
    <3>3. \A d \in Conn : \/ session'[d] = NoUser
                          \/ pc'[d] = "login_update"
                          \/ session'[d] = session[d] /\ pc[d] # "login_update"
      BY <3>1, <3>2
    <3> QED
      BY <1>1, <3>1, <3>3, GivesBack
  <2>4. CASE DeliverHere(c) \/ Publish(c) \/ Store(c)
    <3>1. PICK u, l : UNCHANGED <<raced, session>> /\ Goto(c, l)
      BY <2>4 DEF DeliverHere, Publish, Store, NextRecipient
    <3>2. pc[c] # "login_update" /\ \A d \in Conn \ {c} : pc'[d] = pc[d]
      BY <1>1, <2>4, <3>1 DEF DeliverHere, Publish, Store, Goto, TypeOK
    <3> QED
      BY <1>2, <3>1, <3>2
  <2>5. CASE \/ LoginInsert(c) \/ LoginSubscribe(c) \/ LoginRead(c) \/ LoginRemove(c)
             \/ LoginAck(c) \/ DeliverElsewhere(c) \/ Lookup(c) \/ CloseErase(c)
    <3>1. UNCHANGED session /\ raced \subseteq raced' /\ pc[c] # "login_update"
      BY <2>5 DEF LoginInsert, LoginSubscribe, LoginRead, LoginRemove, LoginAck,
         DeliverElsewhere, Lookup, CloseErase, AppendCommand
    <3>2. PICK l : Goto(c, l)
      BY <2>5 DEF LoginInsert, LoginSubscribe, LoginRead, LoginRemove, LoginAck,
         DeliverElsewhere, Lookup, CloseErase
    <3>3. \A d \in Conn \ {c} : pc'[d] = pc[d]
      BY <1>1, <3>2 DEF Goto, TypeOK
    <3> QED
      BY <1>2, <3>1, <3>3
  <2> QED
    BY <1>4, <2>1, <2>2, <2>3, <2>4, <2>5 DEF HandlerStep
<1>5. ASSUME NEW c \in Conn, ClientStep(c) PROVE Registry!Next
  <2>1. CASE Connect(c)
    BY <1>3, <2>1 DEF Connect
  <2>2. ASSUME NEW u \in User, LoginQuery(c, u) PROVE Registry!Next
    <3>1. /\ raced \subseteq raced' /\ pc'[c] = "login_update"
          /\ \A d \in Conn \ {c} : session'[d] = session[d] /\ pc'[d] = pc[d]
      BY <1>1, <2>2 DEF LoginQuery, LeaveBehind, Goto, TypeOK
    <3> QED
      BY <1>1, <3>1, GivesBack
  <2>3. CASE (\E m \in Msg, R \in Recipients : Chat(c, m, R)) \/ Loginout(c) \/ Close(c)
    <3>1. UNCHANGED <<session, raced>> /\ pc[c] = "idle"
      BY <2>3 DEF Chat, Loginout, Close
    <3>2. \A d \in Conn \ {c} : pc'[d] = pc[d]
      BY <1>1, <2>3 DEF Chat, Loginout, Close, Goto, TypeOK
    <3> QED
      BY <1>2, <3>1, <3>2
  <2> QED
    BY <1>5, <2>1, <2>2, <2>3 DEF ClientStep
<1>6. ASSUME NEW s \in Server, Redis(s) \/ ObserverStep(s) \/ LoseRedis(s) \/ Sigint(s)
      PROVE  Registry!Next
  <2>1. UNCHANGED <<session, pc>> /\ raced \subseteq raced'
    BY <1>6 DEF Redis, ObserverStep, Observe, ObserveStore, LoseRedis, Sigint
  <2> QED
    BY <1>3, <2>1
<1>7. ASSUME NEW s \in Server, Wipe(s) PROVE Registry!Next
  <2>1. /\ raced' = raced
        /\ \A d \in Conn : IF ServerOf[d] = s THEN session'[d] = NoUser
                                              ELSE session'[d] = session[d] /\ pc'[d] = pc[d]
    BY <1>7 DEF Wipe, OnServer
  <2> QED
    BY <1>1, <2>1, GivesBack
<1>8. CASE UNCHANGED vars
  BY <1>8 DEF vars, Using
<1> QED
  BY <1>4, <1>5, <1>6, <1>7, <1>8 DEF Next, Crash, Exit

\* The accounts of the whole cluster are locks that connections take and give
\* back: one in use is taken only once a race or a reset has damaged it.
THEOREM ClusterIsRegistry == Spec => IsRegistry
<1>1. Init => Registry!Init
  BY DEF Init, Registry!Init, Using
<1>2. IndInv /\ IndInv' /\ [Next]_vars => [Registry!Next]_<<Using, raced>>
  BY RegistryStep
<1> QED
  BY <1>1, <1>2, Inductive, PTL DEF Spec, IsRegistry, Registry!Spec, Registry!vars

-----------------------------------------------------------------------------
(* The fate of a message.                                                  *)

\* Copies wait with the handlers, whatever else changes.
LEMMA WaitingAlone ==
  ASSUME UNCHANGED <<todo, msg>>
  PROVE  Waiting' = Waiting
BY DEF Waiting, Handled

\* Copies are published as long as they are before an observer.
LEMMA BeforeAlone ==
  ASSUME UNCHANGED inbound
  PROVE  BeforeAll' = BeforeAll
BY DEF BeforeAll, Before

\* A login that has read nothing has fetched nothing for any account.
LEMMA FetchedAlone ==
  ASSUME UNCHANGED vec, \A c \in Conn : session'[c] = session[c] \/ vec[c] = {}
  PROVE  Fetched' = Fetched
<1>1. \A c \in Conn : ({session[c]} \X vec[c])' = {session[c]} \X vec[c]
  OBVIOUS
<1> QED
  BY <1>1 DEF Fetched

\* Stored copies are the rows, and given ones what was sent.
LEMMA RowsAlone ==
  ASSUME UNCHANGED offlineMsg
  PROVE  Stored' = Stored
BY DEF Stored

LEMMA GivenAlone ==
  ASSUME UNCHANGED sent
  PROVE  Given' = Given
BY DEF Given

\* A step that moves no copy is none of the specification's business.
LEMMA FateAlone ==
  ASSUME UNCHANGED <<todo, msg, inbound, vec, addressed, sent, offlineMsg, deaf, ended>>,
         \A c \in Conn : session'[c] = session[c] \/ vec[c] = {}
  PROVE  UNCHANGED Fate!vars
<1>1. Waiting' = Waiting /\ BeforeAll' = BeforeAll /\ Fetched' = Fetched
  BY WaitingAlone, BeforeAlone, FetchedAlone
<1>2. Stored' = Stored /\ Given' = Given
  BY RowsAlone, GivenAlone
<1> QED
  BY <1>1, <1>2 DEF Fate!vars, Fate!faults

\* A copy waits at a server when a handler there has it.
LEMMA WaitingMembers ==
  ASSUME NEW s \in Server, NEW q
  PROVE  /\ q \in Waiting[s] <=> \E d \in Conn : ServerOf[d] = s /\ q \in Handled(d)
         /\ q \in Waiting'[s] <=> \E d \in Conn : ServerOf[d] = s /\ q \in Handled(d)'
BY DEF Waiting

\* What the rest of an iteration takes from the waiting copies is the one of
\* this recipient, which no other handler has.
LEMMA TakesOne ==
  ASSUME IndInv, NEW c \in Conn, NEW v \in todo[c], NextRecipient(c, v),
         NEW p, p = <<v, msg[c]>>
  PROVE  /\ p \in Waiting[ServerOf[c]]
         /\ Waiting' = [Waiting EXCEPT ![ServerOf[c]] = @ \ {p}]
<1>1. TypeOK /\ msg[c] \in Msg /\ msg[c] # NoMsg
  BY ClusterAssumption DEF IndInv, Control, DeliverPC, ClusterAssumption
<1>2. ServerOf[c] \in Server
  BY ClusterAssumption DEF ClusterAssumption
<1>3. p \in Handled(c)
  <2>1. <<v, msg[c]>> \in todo[c] \X {msg[c]}
    OBVIOUS
  <2> QED
    BY <2>1 DEF Handled
<1>4. Handled(c)' = Handled(c) \ {p}
  <2>1. todo'[c] = todo[c] \ {v} /\ (msg'[c] = msg[c] \/ todo'[c] = {})
    BY <1>1 DEF NextRecipient, TypeOK
  <2>2. todo'[c] \X {msg'[c]} = (todo[c] \X {msg[c]}) \ {<<v, msg[c]>>}
    BY <2>1
  <2> QED
    BY <2>2 DEF Handled
<1>5. \A d \in Conn \ {c} : Handled(d)' = Handled(d) /\ p \notin Handled(d)
  <2> SUFFICES ASSUME NEW d \in Conn \ {c}
               PROVE  Handled(d)' = Handled(d) /\ p \notin Handled(d)
    OBVIOUS
  <2>1. todo'[d] = todo[d] /\ msg'[d] = msg[d]
    BY <1>1 DEF NextRecipient, TypeOK
  <2>2. msg[d] # msg[c]
    BY <1>1 DEF IndInv, Copies
  <2> QED
    BY <2>1, <2>2 DEF Handled
<1>6. p \in Waiting[ServerOf[c]]
  BY <1>2, <1>3, WaitingMembers
<1>7. ASSUME NEW t \in Server
      PROVE  Waiting'[t] = IF t = ServerOf[c] THEN Waiting[t] \ {p} ELSE Waiting[t]
  <2>1. ASSUME NEW q
        PROVE  q \in Waiting'[t] <=> q \in Waiting[t] /\ (t = ServerOf[c] => q # p)
    <3>1. q \in Waiting'[t] <=> \E d \in Conn : ServerOf[d] = t /\ q \in Handled(d)'
      BY WaitingMembers
    <3>2. q \in Waiting[t] <=> \E d \in Conn : ServerOf[d] = t /\ q \in Handled(d)
      BY WaitingMembers
    <3> QED
      BY <1>3, <1>4, <1>5, <3>1, <3>2
  <2> QED
    BY <2>1
<1>8. /\ Waiting' = [t \in Server |-> Waiting'[t]]
      /\ Waiting = [t \in Server |-> Waiting[t]]
  BY DEF Waiting
<1> HIDE DEF Waiting
<1> QED
  BY <1>6, <1>7, <1>8

\* The row that the INSERT adds.
LEMMA StoresOne ==
  ASSUME TypeOK, NEW u \in User, NEW m \in Msg, StoreOffline(u, m)
  PROVE  Stored' \in {Stored, Stored \cup {<<u, m>>}}
<1>1. CASE UNCHANGED offlineMsg
  BY <1>1, RowsAlone
<1>2. CASE offlineMsg' = [offlineMsg EXCEPT ![u] = @ \cup {m}]
  <2>1. \A w \in User : {w} \X offlineMsg'[w] = ({w} \X offlineMsg[w]) \cup {q \in {<<u, m>>} : w = u}
    BY <1>2 DEF TypeOK
  <2> QED
    BY <2>1 DEF Stored
<1> QED
  BY <1>1, <1>2 DEF StoreOffline

\* send() gives the copy to a client, or drops it.
LEMMA SendsOne ==
  ASSUME NEW c, NEW u, NEW m, Send(c, u, m)
  PROVE  Given' \in {Given, Given \cup {<<u, m>>}}
<1>1. CASE conn[c] = "up"
  <2>1. PICK p : p = <<session[c], u, m>>
    OBVIOUS
  <2>2. sent' = sent \cup {p} /\ p[2] = u /\ p[3] = m
    BY <1>1, <2>1 DEF Send
  <2> QED
    BY <2>2 DEF Given
<1>2. CASE conn[c] # "up"
  <2>1. sent' = sent
    BY <1>2 DEF Send
  <2> QED
    BY <2>1, GivenAlone
<1> QED
  BY <1>1, <1>2

\* Redis adds a copy behind what is before an observer.
LEMMA AppendedElements ==
  ASSUME NEW q \in Seq(User \X Msg), NEW x \in User \X Msg
  PROVE  {Append(q, x)[i] : i \in DOMAIN Append(q, x)} = {q[i] : i \in DOMAIN q} \cup {x}
<1>1. DOMAIN Append(q, x) = DOMAIN q \cup {Len(q) + 1}
  OBVIOUS
<1>2. \A i \in DOMAIN q : Append(q, x)[i] = q[i]
  OBVIOUS
<1>3. Append(q, x)[Len(q) + 1] = x
  OBVIOUS
<1> QED
  BY <1>1, <1>2, <1>3

\* The first of different messages leaves with it, and no other.
LEMMA TailElements ==
  ASSUME NEW q \in Seq(User \X Msg), q # <<>>,
         \A i, j \in DOMAIN q : q[i] = q[j] => i = j
  PROVE  {Tail(q)[i] : i \in DOMAIN Tail(q)} = {q[i] : i \in DOMAIN q} \ {Head(q)}
<1>1. \A i \in DOMAIN Tail(q) : i + 1 \in DOMAIN q /\ Tail(q)[i] = q[i + 1] /\ i + 1 # 1
  OBVIOUS
<1>2. 1 \in DOMAIN q /\ Head(q) = q[1]
  OBVIOUS
<1>3. \A i \in DOMAIN Tail(q) : Tail(q)[i] # Head(q)
  BY <1>1, <1>2
<1>4. \A i \in DOMAIN q : q[i] = Head(q) \/ \E j \in DOMAIN Tail(q) : Tail(q)[j] = q[i]
  BY TailKeeps
<1> QED
  BY <1>1, <1>3, <1>4

\* The chat handler deals with one recipient.
LEMMA HandlerDeals ==
  ASSUME IndInv, NEW c \in Conn, DeliverHere(c) \/ Publish(c) \/ Store(c)
  PROVE  Fate!Next
<1> DEFINE s == ServerOf[c]
<1>1. TypeOK /\ s \in Server
  BY ClusterAssumption DEF IndInv, ClusterAssumption
<1>2. PICK v \in todo[c] :
        /\ NextRecipient(c, v)
        /\ \/ /\ userConnMap[s][v] # NoConn /\ Send(userConnMap[s][v], v, msg[c])
              /\ UNCHANGED <<offlineMsg, inbound>>
           \/ StoreOffline(v, msg[c]) /\ UNCHANGED <<sent, inbound>>
           \/ UNCHANGED <<offlineMsg, sent>> /\ inbound' \in {inbound, Published(v, msg[c])}
        /\ UNCHANGED deaf
  BY DEF DeliverHere, Publish, Store, IndInv, Control
<1>3. v \in User /\ msg[c] \in Msg
  BY <1>1 DEF DeliverHere, Publish, Store, IndInv, Control, DeliverPC, TypeOK
<1>4. PICK p : p = <<v, msg[c]>>
  OBVIOUS
<1>5. p \in Waiting[s] /\ Waiting' = [Waiting EXCEPT ![s] = @ \ {p}]
  BY <1>2, <1>4, TakesOne
<1>6. addressed' = addressed /\ ended' = ended /\ deaf' = deaf
  BY <1>2 DEF NextRecipient
<1>7. Fetched' = Fetched
  BY <1>2, FetchedAlone DEF NextRecipient
<1>8. CASE Send(userConnMap[s][v], v, msg[c]) /\ UNCHANGED <<offlineMsg, inbound>>
  <2>1. Given' \in {Given, Given \cup {p}}
    BY <1>4, <1>8, SendsOne
  <2>2. Stored' = Stored /\ BeforeAll' = BeforeAll
    BY <1>8, RowsAlone, BeforeAlone
  <2>3. Fate!DealWith(s, p)
    BY <1>5, <1>6, <1>7, <2>1, <2>2 DEF Fate!DealWith, Fate!Send, Fate!faults
  <2> QED
    BY <1>1, <1>5, <2>3 DEF Fate!Next, Fate!ServerStep
<1>9. CASE StoreOffline(v, msg[c]) /\ UNCHANGED <<sent, inbound>>
  <2>1. Stored' \in {Stored, Stored \cup {p}}
    BY <1>1, <1>3, <1>4, <1>9, StoresOne
  <2>2. Given' = Given /\ BeforeAll' = BeforeAll
    BY <1>9, GivenAlone, BeforeAlone
  <2>3. Fate!DealWith(s, p)
    BY <1>5, <1>6, <1>7, <2>1, <2>2 DEF Fate!DealWith, Fate!Store, Fate!faults
  <2> QED
    BY <1>1, <1>5, <2>3 DEF Fate!Next, Fate!ServerStep
<1>10. CASE UNCHANGED <<offlineMsg, sent>> /\ inbound' \in {inbound, Published(v, msg[c])}
  <2>1. Stored' = Stored /\ Given' = Given
    BY <1>10, RowsAlone, GivenAlone
  <2>2. PICK T \in SUBSET Server : \A t \in Server :
          inbound'[t] = IF t \in T THEN Append(inbound[t], p) ELSE inbound[t]
    <3>1. CASE inbound' = inbound
      <4>1. PICK T : T = {}
        OBVIOUS
      <4>2. T \in SUBSET Server /\ \A t \in Server : t \notin T /\ inbound'[t] = inbound[t]
        BY <3>1, <4>1
      <4> QED
        BY <4>2
    <3>2. CASE inbound' = Published(v, msg[c])
      <4>1. subs[v] \in SUBSET Server
        BY <1>1, <1>3 DEF TypeOK
      <4>2. \A t \in Server : inbound'[t] = IF t \in subs[v] THEN Append(inbound[t], p) ELSE inbound[t]
        BY <1>4, <3>2 DEF Published
      <4> QED
        BY <4>1, <4>2
    <3> QED
      BY <1>10, <3>1, <3>2
  <2>3. ASSUME NEW t \in Server
        PROVE  Before(t)' = Before(t) \cup {q \in {p} : t \in T}
    <3>1. inbound[t] \in Seq(User \X Msg) /\ p \in User \X Msg
      BY <1>1, <1>3, <1>4 DEF TypeOK
    <3>2. CASE t \in T
      <4>1. inbound'[t] = Append(inbound[t], p)
        BY <2>2, <3>2
      <4>2. {inbound'[t][i] : i \in DOMAIN inbound'[t]} = {inbound[t][i] : i \in DOMAIN inbound[t]} \cup {p}
        BY <3>1, <4>1, AppendedElements
      <4> QED
        BY <3>2, <4>2 DEF Before
    <3>3. CASE t \notin T
      BY <2>2, <3>3 DEF Before
    <3> QED
      BY <3>2, <3>3
  <2>4. BeforeAll' = [t \in Server |-> BeforeAll[t] \cup {q \in {p} : t \in T}]
    BY <2>3 DEF BeforeAll
  <2>5. Fate!Publish(s, p, T)
    BY <1>5, <1>6, <1>7, <2>1, <2>4 DEF Fate!Publish, Fate!faults
  <2> QED
    BY <1>1, <1>5, <2>5 DEF Fate!Next, Fate!ServerStep
<1> QED
  BY <1>2, <1>8, <1>9, <1>10

\* The observer takes _mutex, or deals with the first message before it.
LEMMA ObserverDeals ==
  ASSUME IndInv, NEW s \in Server, ObserverStep(s)
  PROVE  [Fate!Next]_(Fate!vars)
<1>1. TypeOK /\ inbound[s] \in Seq(User \X Msg)
  BY DEF IndInv, TypeOK
<1>2. inbound[s] # <<>>
  BY DEF ObserverStep, Observe, ObserveStore, IndInv, AbsenceHolds
<1>3. PICK p : p = Head(inbound[s])
  OBVIOUS
<1>4. p \in User \X Msg /\ p[1] \in User /\ p[2] \in Msg /\ p = <<p[1], p[2]>>
  BY <1>1, <1>2, <1>3
<1>5. UNCHANGED <<todo, msg, vec, session, addressed, deaf, ended>>
  BY DEF ObserverStep, Observe, ObserveStore
<1>6. Fetched' = Fetched /\ Waiting' = Waiting
  BY <1>5, FetchedAlone, WaitingAlone
<1>7. CASE UNCHANGED <<inbound, sent, offlineMsg>>
  BY <1>5, <1>7, FateAlone
<1>8. ASSUME inbound' = [inbound EXCEPT ![s] = Tail(@)],
             \/ Send(userConnMap[s][p[1]], p[1], p[2]) /\ UNCHANGED offlineMsg
             \/ StoreOffline(p[1], p[2]) /\ UNCHANGED sent
      PROVE  Fate!Next
  <2>1. p \in Before(s) /\ Before(s)' = Before(s) \ {p}
    <3>1. PICK h : h = inbound[s]
      OBVIOUS
    <3>2. h \in Seq(User \X Msg) /\ h # <<>> /\ p = Head(h) /\ inbound'[s] = Tail(h)
      BY <1>1, <1>2, <1>3, <1>8, <3>1 DEF TypeOK
    <3>3. \A i, j \in DOMAIN h : h[i] = h[j] => i = j
      BY <3>1 DEF IndInv, Copies
    <3>4. {Tail(h)[i] : i \in DOMAIN Tail(h)} = {h[i] : i \in DOMAIN h} \ {p}
      BY <3>2, <3>3, TailElements
    <3>5. 1 \in DOMAIN h /\ h[1] = p
      BY <3>2
    <3>6. Before(s) = {h[i] : i \in DOMAIN h}
      BY <3>1 DEF Before
    <3>7. Before(s)' = {Tail(h)[i] : i \in DOMAIN Tail(h)}
      BY <3>2 DEF Before
    <3> QED
      BY <3>4, <3>5, <3>6, <3>7
  <2>2. \A t \in Server \ {s} : Before(t)' = Before(t)
    BY <1>1, <1>8 DEF Before, TypeOK
  <2>3. p \in BeforeAll[s] /\ BeforeAll' = [BeforeAll EXCEPT ![s] = @ \ {p}]
    BY <2>1, <2>2 DEF BeforeAll
  <2>4. \/ Given' \in {Given, Given \cup {p}} /\ Stored' = Stored
        \/ Stored' \in {Stored, Stored \cup {p}} /\ Given' = Given
    BY <1>1, <1>4, <1>8, SendsOne, StoresOne, RowsAlone, GivenAlone
  <2>5. Fate!DealWithPublished(s, p)
    BY <1>5, <1>6, <2>3, <2>4 DEF Fate!DealWithPublished, Fate!Send, Fate!Store, Fate!faults
  <2> QED
    BY <2>3, <2>5 DEF Fate!Next, Fate!ServerStep
<1>9. CASE Observe(s)
  BY <1>3, <1>7, <1>8, <1>9 DEF Observe
<1>10. CASE ObserveStore(s)
  BY <1>3, <1>8, <1>10 DEF ObserveStore
<1> QED
  BY <1>9, <1>10 DEF ObserverStep

\* A login is given rows of its account, or finds none.
LEMMA ReadFetches ==
  ASSUME IndInv, NEW c \in Conn, LoginRead(c)
  PROVE  [Fate!Next]_(Fate!vars)
<1>1. TypeOK /\ vec[c] = {} /\ session[c] \in User
  BY DEF IndInv, LoginRead, Control, LoginPC
<1>2. UNCHANGED <<todo, msg, inbound, session, addressed, sent, offlineMsg, deaf, ended>>
  BY DEF LoginRead
<1>3. PICK rows \in SUBSET offlineMsg[session[c]] : vec' = [vec EXCEPT ![c] = rows]
  BY DEF LoginRead
<1>4. CASE rows = {}
  <2>1. vec' = vec
    BY <1>1, <1>3, <1>4 DEF TypeOK
  <2> QED
    BY <1>2, <2>1, FateAlone
<1>5. CASE rows # {}
  <2>1. PICK P : P = {session[c]} \X rows
    OBVIOUS
  <2>2. \A d \in Conn : {session'[d]} \X vec'[d] = IF d = c THEN P ELSE {session[d]} \X vec[d]
    BY <1>1, <1>2, <1>3, <2>1 DEF TypeOK
  <2>3. Fetched' = [Fetched EXCEPT ![c] = P] /\ Fetched[c] = {}
    BY <1>1, <2>2 DEF Fetched
  <2>4. P \in (SUBSET Fate!Of(session[c])) \ {{}}
    <3>1. P # {}
      <4>1. PICK m : m \in rows
        BY <1>5
      <4>2. <<session[c], m>> \in {session[c]} \X rows
        BY <4>1
      <4> QED
        BY <2>1, <4>2
    <3>2. \A q \in P : q \in Stored /\ q[1] = session[c]
      BY <1>1, <1>3, <2>1 DEF Stored
    <3> QED
      BY <3>1, <3>2 DEF Fate!Of
  <2>5. Waiting' = Waiting /\ BeforeAll' = BeforeAll /\ Stored' = Stored /\ Given' = Given
    BY <1>2, WaitingAlone, BeforeAlone, RowsAlone, GivenAlone
  <2>6. Fate!Fetch(c, session[c])
    BY <1>2, <2>3, <2>4, <2>5 DEF Fate!Fetch, Fate!faults
  <2> QED
    BY <1>1, <2>6 DEF Fate!Next, Fate!LoginStep
<1> QED
  BY <1>4, <1>5

\* Once it has read some, it removes all rows of its account.
LEMMA RemoveRemoves ==
  ASSUME IndInv, NEW c \in Conn, LoginRemove(c)
  PROVE  [Fate!Next]_(Fate!vars)
<1>1. TypeOK /\ vec[c] # {} /\ session[c] \in User
  BY DEF IndInv, LoginRemove, Control, LoginPC
<1>2. UNCHANGED <<todo, msg, inbound, session, vec, addressed, sent, deaf, ended>>
  BY DEF LoginRemove
<1>3. CASE UNCHANGED offlineMsg
  BY <1>2, <1>3, FateAlone
<1>4. CASE offlineMsg' = [offlineMsg EXCEPT ![session[c]] = {}]
  <2>1. \A u \in User : offlineMsg'[u] = IF u = session[c] THEN {} ELSE offlineMsg[u]
    BY <1>1, <1>4 DEF TypeOK
  <2>2. Stored' = Stored \ Fate!Of(session[c])
    <3>1. \A u \in User : {u} \X offlineMsg'[u] = {q \in {u} \X offlineMsg[u] : q[1] # session[c]}
      BY <2>1
    <3> QED
      BY <3>1 DEF Stored, Fate!Of
  <2>3. PICK q : q \in Fetched[c] /\ q[1] = session[c]
    <3>1. PICK m : m \in vec[c]
      BY <1>1
    <3>2. <<session[c], m>> \in {session[c]} \X vec[c]
      BY <3>1
    <3> QED
      BY <3>2 DEF Fetched
  <2>4. Waiting' = Waiting /\ BeforeAll' = BeforeAll /\ Fetched' = Fetched /\ Given' = Given
    BY <1>2, WaitingAlone, BeforeAlone, FetchedAlone, GivenAlone
  <2>5. Fate!Remove(c)
    BY <1>2, <2>2, <2>3, <2>4 DEF Fate!Remove, Fate!faults
  <2> QED
    BY <2>5 DEF Fate!Next, Fate!LoginStep
<1> QED
  BY <1>3, <1>4 DEF LoginRemove

\* What it has read it sends with its answer.
LEMMA AckAnswers ==
  ASSUME IndInv, NEW c \in Conn, LoginAck(c)
  PROVE  [Fate!Next]_(Fate!vars)
<1>1. TypeOK /\ session[c] \in User
  BY DEF IndInv, LoginAck, Control, LoginPC
<1>2. UNCHANGED <<todo, msg, inbound, session, addressed, offlineMsg, deaf, ended>>
  BY DEF LoginAck
<1>3. PICK P : P = {session[c]} \X vec[c]
  OBVIOUS
<1>4. Fetched[c] = P
  BY <1>3 DEF Fetched
<1>5. \A d \in Conn : {session'[d]} \X vec'[d] = IF d = c THEN {} ELSE {session[d]} \X vec[d]
  BY <1>1, <1>2 DEF LoginAck, TypeOK
<1>6. Fetched' = [Fetched EXCEPT ![c] = {}]
  BY <1>5 DEF Fetched
<1>7. Given' = Given \cup P
  <2>1. sent' = sent \cup ({session[c]} \X {session[c]} \X vec[c])
    BY DEF LoginAck, Answered
  <2>2. {<<q[2], q[3]>> : q \in {session[c]} \X {session[c]} \X vec[c]} = P
    <3>1. \A q \in {session[c]} \X {session[c]} \X vec[c] : <<q[2], q[3]>> \in P
      BY <1>3
    <3>2. ASSUME NEW m \in vec[c]
          PROVE  \E q \in {session[c]} \X {session[c]} \X vec[c] : <<session[c], m>> = <<q[2], q[3]>>
      <4>1. PICK q : q = <<session[c], session[c], m>>
        OBVIOUS
      <4>2. q \in {session[c]} \X {session[c]} \X vec[c] /\ <<session[c], m>> = <<q[2], q[3]>>
        BY <4>1
      <4> QED
        BY <4>2
    <3>3. \A r \in P : \E q \in {session[c]} \X {session[c]} \X vec[c] : r = <<q[2], q[3]>>
      BY <1>3, <3>2
    <3> QED
      BY <3>1, <3>3
  <2> QED
    BY <2>1, <2>2 DEF Given
<1>8. Waiting' = Waiting /\ BeforeAll' = BeforeAll /\ Stored' = Stored
  BY <1>2, WaitingAlone, BeforeAlone, RowsAlone
<1>9. CASE P # {}
  <2>1. Fate!Answer(c)
    BY <1>2, <1>4, <1>6, <1>7, <1>8, <1>9 DEF Fate!Answer, Fate!faults
  <2> QED
    BY <2>1 DEF Fate!Next, Fate!LoginStep
<1>10. CASE P = {}
  <2>1. Fetched' = Fetched
    BY <1>4, <1>6, <1>10 DEF Fetched
  <2>2. Given' = Given
    BY <1>7, <1>10
  <2> QED
    BY <1>2, <1>8, <2>1, <2>2 DEF Fate!vars, Fate!faults
<1> QED
  BY <1>9, <1>10

\* A step of a handler is about one recipient, the table or the answer.
LEMMA HandlerFate ==
  ASSUME IndInv, NEW c \in Conn, HandlerStep(c)
  PROVE  [Fate!Next]_(Fate!vars)
<1>1. TypeOK /\ Control
  BY DEF IndInv
<1>2. CASE \/ LoginUpdate(c) \/ LoginInsert(c) \/ LoginSubscribe(c) \/ DeliverElsewhere(c)
           \/ Lookup(c) \/ CloseErase(c)
  <2>1. UNCHANGED <<todo, msg, inbound, vec, session, addressed, sent, offlineMsg, deaf, ended>>
    BY <1>2 DEF LoginUpdate, LoginInsert, LoginSubscribe, DeliverElsewhere, Lookup, CloseErase
  <2> QED
    BY <2>1, FateAlone
<1>3. CASE LoginUpdateFails(c) \/ Unsubscribe(c) \/ SetOffline(c)
  <2>1. UNCHANGED <<todo, msg, inbound, vec, addressed, sent, offlineMsg, deaf, ended>>
    BY <1>3 DEF LoginUpdateFails, Unsubscribe, SetOffline
  <2>2. \A d \in Conn \ {c} : session'[d] = session[d]
    BY <1>1, <1>3 DEF LoginUpdateFails, Unsubscribe, SetOffline, Left, TypeOK
  <2>3. vec[c] = {}
    BY <1>1, <1>3 DEF LoginUpdateFails, Unsubscribe, SetOffline, Control
  <2> QED
    BY <2>1, <2>2, <2>3, FateAlone
<1>4. CASE LoginRead(c) \/ LoginRemove(c) \/ LoginAck(c)
  BY <1>4, ReadFetches, RemoveRemoves, AckAnswers
<1>5. CASE DeliverHere(c) \/ Publish(c) \/ Store(c)
  BY <1>5, HandlerDeals
<1> QED
  BY <1>2, <1>3, <1>4, <1>5 DEF HandlerStep

\* A message is submitted with all its recipients.
LEMMA ChatSubmits ==
  ASSUME IndInv, NEW c \in Conn, NEW m \in Msg, NEW R \in (SUBSET User) \ {{}}, Chat(c, m, R)
  PROVE  Fate!Next
<1> DEFINE s == ServerOf[c]
<1>1. TypeOK /\ todo[c] = {} /\ s \in Server
  BY ClusterAssumption DEF IndInv, Control, DeliverPC, Chat, ClusterAssumption
<1>2. UNCHANGED <<inbound, vec, session, sent, offlineMsg, deaf, ended>>
  BY DEF Chat
<1>3. /\ todo'[c] = R /\ msg'[c] = m
      /\ \A d \in Conn \ {c} : todo'[d] = todo[d] /\ msg'[d] = msg[d]
  BY <1>1 DEF Chat, TypeOK
<1>4. Handled(c) = {} /\ Handled(c)' = R \X {m}
  BY <1>1, <1>3 DEF Handled
<1>5. \A d \in Conn \ {c} : Handled(d)' = Handled(d)
  BY <1>3 DEF Handled
<1>6. ASSUME NEW t \in Server
      PROVE  Waiting'[t] = IF t = s THEN Waiting[t] \cup (R \X {m}) ELSE Waiting[t]
  <2>1. ASSUME NEW q
        PROVE  q \in Waiting'[t] <=> q \in Waiting[t] \/ (t = s /\ q \in R \X {m})
    <3>1. q \in Waiting'[t] <=> \E d \in Conn : ServerOf[d] = t /\ q \in Handled(d)'
      BY WaitingMembers
    <3>2. q \in Waiting[t] <=> \E d \in Conn : ServerOf[d] = t /\ q \in Handled(d)
      BY WaitingMembers
    <3> QED
      BY <1>4, <1>5, <3>1, <3>2
  <2> QED
    BY <2>1
<1>7. /\ Waiting' = [t \in Server |-> Waiting'[t]]
      /\ Waiting = [t \in Server |-> Waiting[t]]
  BY DEF Waiting
<1>8. Waiting' = [Waiting EXCEPT ![s] = @ \cup (R \X {m})]
  BY <1>6, <1>7
<1>9. Fetched' = Fetched /\ BeforeAll' = BeforeAll /\ Stored' = Stored /\ Given' = Given
  BY <1>2, FetchedAlone, BeforeAlone, RowsAlone, GivenAlone
<1>10. addressed[m] = {} /\ addressed' = [addressed EXCEPT ![m] = R]
  BY DEF Chat
<1>11. Fate!Submit(s, m, R)
  BY <1>2, <1>8, <1>9, <1>10 DEF Fate!Submit, Fate!faults
<1> QED
  BY <1>1, <1>11 DEF Fate!Next, Fate!ServerStep

\* A server that loses Redis still takes what it had received.
LEMMA LosesSome ==
  ASSUME IndInv, NEW s \in Server, LoseRedis(s)
  PROVE  Fate!Next
<1>1. inbound \in [Server -> Seq(User \X Msg)]
  BY DEF IndInv, TypeOK
<1>2. UNCHANGED <<todo, msg, vec, session, addressed, sent, offlineMsg, ended>>
  BY DEF LoseRedis
<1>3. PICK n \in 0 .. Len(inbound[s]) : inbound' = [inbound EXCEPT ![s] = SubSeq(@, 1, n)]
  BY DEF LoseRedis
<1>4. Before(s)' \subseteq Before(s)
  <2>1. PICK h : h = inbound[s]
    OBVIOUS
  <2>2. h \in Seq(User \X Msg) /\ inbound'[s] = SubSeq(h, 1, n) /\ n \in 0 .. Len(h)
    BY <1>1, <1>3, <2>1
  <2>3. \A i \in DOMAIN SubSeq(h, 1, n) : i \in DOMAIN h /\ SubSeq(h, 1, n)[i] = h[i]
    BY <2>2
  <2> QED
    BY <2>1, <2>2, <2>3 DEF Before
<1>5. \A t \in Server \ {s} : Before(t)' = Before(t)
  BY <1>1, <1>3 DEF Before
<1>6. /\ Before(s)' \in SUBSET BeforeAll[s]
      /\ BeforeAll' = [BeforeAll EXCEPT ![s] = Before(s)']
  BY <1>4, <1>5 DEF BeforeAll
<1>7. Fetched' = Fetched /\ Waiting' = Waiting /\ Stored' = Stored /\ Given' = Given
  BY <1>2, FetchedAlone, WaitingAlone, RowsAlone, GivenAlone
<1>8. s \notin deaf /\ deaf' = deaf \cup {s}
  BY DEF LoseRedis
<1>9. Fate!LoseSubscription(s)
  BY <1>2, <1>6, <1>7, <1>8 DEF Fate!LoseSubscription
<1> QED
  BY <1>9 DEF Fate!Next, Fate!ServerStep

\* The end of a process takes what it has in memory with it and nothing else.
LEMMA EndEnds ==
  ASSUME IndInv, NEW s \in Server, Wipe(s)
  PROVE  Fate!Next
<1>1. TypeOK
  BY DEF IndInv
<1>2. UNCHANGED <<addressed, sent, offlineMsg>>
  BY DEF Wipe
<1>3. \A d \in Conn : IF ServerOf[d] = s THEN todo'[d] = {} /\ vec'[d] = {}
                      ELSE /\ todo'[d] = todo[d] /\ msg'[d] = msg[d]
                           /\ vec'[d] = vec[d] /\ session'[d] = session[d]
  BY DEF Wipe, OnServer
<1>4. \A d \in Conn : Handled(d)' = IF ServerOf[d] = s THEN {} ELSE Handled(d)
  BY <1>3 DEF Handled
<1>5. Waiting' = [Waiting EXCEPT ![s] = {}]
  <2>1. ASSUME NEW t \in Server
        PROVE  Waiting'[t] = IF t = s THEN {} ELSE Waiting[t]
    <3>1. ASSUME NEW q
          PROVE  q \in Waiting'[t] <=> q \in Waiting[t] /\ t # s
      <4>1. q \in Waiting'[t] <=> \E d \in Conn : ServerOf[d] = t /\ q \in Handled(d)'
        BY WaitingMembers
      <4>2. q \in Waiting[t] <=> \E d \in Conn : ServerOf[d] = t /\ q \in Handled(d)
        BY WaitingMembers
      <4> QED
        BY <1>4, <4>1, <4>2
    <3> QED
      BY <3>1
  <2>2. /\ Waiting' = [t \in Server |-> Waiting'[t]]
        /\ Waiting = [t \in Server |-> Waiting[t]]
    BY DEF Waiting
  <2> QED
    BY <2>1, <2>2
<1>6. BeforeAll' = [BeforeAll EXCEPT ![s] = {}]
  <2>1. inbound'[s] = <<>> /\ \A t \in Server \ {s} : inbound'[t] = inbound[t]
    BY <1>1 DEF Wipe, TypeOK
  <2>2. Before(s)' = {} /\ \A t \in Server \ {s} : Before(t)' = Before(t)
    BY <2>1 DEF Before
  <2> QED
    BY <2>2 DEF BeforeAll
<1>7. Fetched' = [d \in Conn |-> IF ServerOf[d] = s THEN {} ELSE Fetched[d]]
  <2>1. \A d \in Conn : {session'[d]} \X vec'[d] = IF ServerOf[d] = s THEN {} ELSE {session[d]} \X vec[d]
    BY <1>3
  <2> QED
    BY <2>1 DEF Fetched
<1>8. Stored' = Stored /\ Given' = Given
  BY <1>2, RowsAlone, GivenAlone
<1>9. deaf' = deaf \ {s} /\ ended' = [ended EXCEPT ![s] = @ + 1]
  BY DEF Wipe
<1>10. Fate!End(s)
  BY <1>2, <1>5, <1>6, <1>7, <1>8, <1>9 DEF Fate!End
<1> QED
  BY <1>10 DEF Fate!Next, Fate!ServerStep

\* Every step of the cluster deals with messages as MessageFate says.
LEMMA FateStep ==
  ASSUME IndInv, [Next]_vars
  PROVE  [Fate!Next]_(Fate!vars)
<1>1. ASSUME NEW c \in Conn, ClientStep(c) PROVE [Fate!Next]_(Fate!vars)
  <2>1. CASE Connect(c) \/ Loginout(c) \/ Close(c)
    <3>1. UNCHANGED <<todo, msg, inbound, vec, session, addressed, sent, offlineMsg, deaf, ended>>
      BY <2>1 DEF Connect, Loginout, Close
    <3> QED
      BY <3>1, FateAlone
  <2>2. ASSUME NEW u \in User, LoginQuery(c, u) PROVE [Fate!Next]_(Fate!vars)
    <3>1. UNCHANGED <<todo, msg, inbound, vec, addressed, sent, offlineMsg, deaf, ended>>
      BY <2>2 DEF LoginQuery
    <3>2. vec[c] = {} /\ \A d \in Conn \ {c} : session'[d] = session[d]
      BY <2>2 DEF LoginQuery, IndInv, Control, TypeOK
    <3> QED
      BY <3>1, <3>2, FateAlone
  <2> QED
    BY <1>1, <2>1, <2>2, ChatSubmits, RecipientsType DEF ClientStep
<1>2. ASSUME NEW s \in Server, Redis(s) \/ Sigint(s) PROVE [Fate!Next]_(Fate!vars)
  <2>1. UNCHANGED <<todo, msg, inbound, vec, session, addressed, sent, offlineMsg, deaf, ended>>
    BY <1>2 DEF Redis, Sigint
  <2> QED
    BY <2>1, FateAlone
<1>3. CASE UNCHANGED vars
  <2>1. UNCHANGED <<todo, msg, inbound, vec, session, addressed, sent, offlineMsg, deaf, ended>>
    BY <1>3 DEF vars
  <2> QED
    BY <2>1, FateAlone
<1>4. ASSUME NEW s \in Server, LoseRedis(s) \/ Crash(s) \/ Exit(s) PROVE Fate!Next
  BY <1>4, LosesSome, EndEnds DEF Crash, Exit
<1> QED
  BY <1>1, <1>2, <1>3, <1>4, HandlerFate, ObserverDeals DEF Next

\* Whatever breaks, what was dealt with does not come back; what a server
\* accepted or was published stays with it until it sends, stores or publishes
\* it, its process ends, or its subscription is lost; what is stored stays until
\* a login that was given stored messages removes it; and what a login was given
\* it sends unless its process ends.
THEOREM ClusterIsFate == Spec => IsFate
<1>1. Init => Fate!Init
  <2> SUFFICES ASSUME Init PROVE Fate!Init
    OBVIOUS
  <2>1. Waiting = [s \in Server |-> {}]
    BY DEF Init, Waiting, Handled
  <2>2. BeforeAll = [s \in Server |-> {}]
    BY DEF Init, BeforeAll, Before
  <2>3. Stored = {} /\ Given = {}
    BY DEF Init, Stored, Given
  <2>4. Fetched = [c \in Conn |-> {}]
    BY DEF Init, Fetched
  <2> QED
    BY <2>1, <2>2, <2>3, <2>4 DEF Init, Fate!Init
<1>2. IndInv /\ [Next]_vars => [Fate!Next]_(Fate!vars)
  BY FateStep
<1> QED
  BY <1>2, <1>1, Inductive, PTL DEF Spec, IsFate, Fate!Spec

=============================================================================
