------------------------- MODULE ChatCluster_proofs -------------------------
(***************************************************************************)
(* What TLAPS proves of ChatCluster, for every number of servers,          *)
(* connections, accounts and messages, and for every budget of faults.     *)
(*                                                                         *)
(* IndInv is inductive.  Its parts lean on one another: TypeOK on Control  *)
(* (a handler past the login query has an account), Control on             *)
(* NoDanglingEntry (what a closing connection erases is its own),          *)
(* NoMisdelivery on NoDanglingEntry and Provenance, SingleSession on       *)
(* FlagIsLock, Subscribed on Entered and SingleSession: what a server has  *)
(* asked of Redis changes with the two commands of a session, and its own  *)
(* session is the one an account has there.  Each part has a lemma that    *)
(* one step preserves it, with one case per action or kind of action;      *)
(* Inductive puts them together.                                           *)
(***************************************************************************)
EXTENDS ChatCluster, TLAPS

USE DEF database, redis, server, chat, history

(* Lemmas about the pieces the handlers share.                             *)

\* A step to a program point leaves every program counter at a program point.
LEMMA GotoType ==
  ASSUME TypeOK, NEW c \in Conn, NEW l \in PC, Goto(c, l)
  PROVE  pc' \in [Conn -> PC]
BY DEF Goto, TypeOK

\* A message is for some accounts.
LEMMA RecipientsType == \A R \in Recipients : R \in (SUBSET User) \ {{}}
BY ClusterAssumption DEF ClusterAssumption

\* An answer to a login contains what the login has read, for its account.
LEMMA AnsweredRows ==
  ASSUME NEW u, NEW rows
  PROVE  /\ \A p \in Answered(u, rows) : p \in sent \/ \E m \in rows : p = <<u, u, m>>
         /\ \A p \in sent : p \in Answered(u, rows)
         /\ \A m \in rows : <<u, u, m>> \in Answered(u, rows)
BY DEF Answered

\* unordered_map::insert leaves a map of connections a map of connections.
LEMMA InsertType ==
  ASSUME NEW map \in [User -> Conn \cup {NoConn}], NEW u, NEW c \in Conn
  PROVE  InsertEntry(map, u, c) \in [User -> Conn \cup {NoConn}]
BY DEF InsertEntry

\* So does unordered_map::erase.
LEMMA EraseType ==
  ASSUME NEW map \in [User -> Conn \cup {NoConn}], NEW u
  PROVE  EraseEntry(map, u) \in [User -> Conn \cup {NoConn}]
BY DEF EraseEntry

\* A command appended to a subscription socket leaves every pipe a sequence of
\* commands.
LEMMA AppendType ==
  ASSUME TypeOK, NEW c \in Conn, NEW op \in {"SUBSCRIBE", "UNSUBSCRIBE"}, NEW u \in User,
         AppendCommand(c, op, u)
  PROVE  pipe' \in [Server -> Seq(Command)]
<1> DEFINE s == ServerOf[c]  r == [op |-> op, user |-> u]
<1>1. s \in Server /\ r \in Command
  BY ClusterAssumption DEF ClusterAssumption, Command
<1>2. pipe[s] \in Seq(Command) /\ pipe \in [Server -> Seq(Command)]
  BY <1>1 DEF TypeOK
<1>3. Append(pipe[s], r) \in Seq(Command)
  BY <1>1, <1>2
<1>4. pipe' = [pipe EXCEPT ![s] = Append(@, r)] \/ pipe' = pipe
  BY DEF AppendCommand
<1> QED
  BY <1>1, <1>2, <1>3, <1>4

\* An INSERT into OfflineMessage, whether it fails or not, leaves sets of messages.
LEMMA StoreType ==
  ASSUME TypeOK, NEW u \in User, NEW m \in Msg, StoreOffline(u, m)
  PROVE  offlineMsg' \in [User -> SUBSET Msg]
<1>1. offlineMsg[u] \cup {m} \in SUBSET Msg
  BY DEF TypeOK
<1>2. \/ offlineMsg' = [offlineMsg EXCEPT ![u] = offlineMsg[u] \cup {m}]
      \/ offlineMsg' = offlineMsg
  BY DEF StoreOffline
<1> QED
  BY <1>1, <1>2 DEF TypeOK

\* clientCloseException erases one entry of its connection, if there is one:
\* that of its client's account or of one left behind.  Those that stay are of
\* accounts left behind.
LEMMA CloseEraseEffect ==
  ASSUME TypeOK, NoDanglingEntry, NEW c \in Conn, CloseErase(c)
  PROVE  /\ \A t \in Server, v \in User :
              /\ userConnMap'[t][v] \in {userConnMap[t][v], NoConn}
              /\ userConnMap'[t][v] = c => v \in stray'
              /\ userConnMap[t][v] = c /\ v \notin stray' => uid'[c] = v
              /\ userConnMap[t][v] # c => userConnMap'[t][v] = userConnMap[t][v]
         /\ uid'[c] \in {session[c], uid[c]} \cup stray
         /\ \A d \in Conn \ {c} : uid'[d] = uid[d]
         /\ stray \subseteq stray' /\ raced \subseteq raced'
         /\ stray' \subseteq User /\ raced' \subseteq User
         /\ stray' \ stray \subseteq raced'
<1> PICK s \in Server : s = ServerOf[c]
  BY ClusterAssumption DEF ClusterAssumption
<1>1. c # NoConn
  BY ClusterAssumption DEF ClusterAssumption
<1>2. \A t \in Server, v \in User :
        userConnMap[t][v] = c => t = s /\ v \in EnteredWith(c) /\ v \in {session[c]} \cup stray
  BY <1>1 DEF NoDanglingEntry, EnteredWith
<1>3. EnteredWith(c) \subseteq User
  BY DEF EnteredWith
<1>4. ASSUME NEW u \in EnteredWith(c),
             userConnMap' = [userConnMap EXCEPT ![s] = EraseEntry(@, u)],
             uid' = [uid EXCEPT ![c] = u],
             raced' = raced \cup (EnteredWith(c) \ {u}),
             stray' = stray \cup (EnteredWith(c) \ {u})
      PROVE  /\ \A t \in Server, v \in User :
                  /\ userConnMap'[t][v] \in {userConnMap[t][v], NoConn}
                  /\ userConnMap'[t][v] = c => v \in stray'
                  /\ userConnMap[t][v] = c /\ v \notin stray' => uid'[c] = v
                  /\ userConnMap[t][v] # c => userConnMap'[t][v] = userConnMap[t][v]
             /\ uid'[c] \in {session[c], uid[c]} \cup stray
             /\ \A d \in Conn \ {c} : uid'[d] = uid[d]
             /\ stray \subseteq stray' /\ raced \subseteq raced'
             /\ stray' \subseteq User /\ raced' \subseteq User
             /\ stray' \ stray \subseteq raced'
  <2>1. \A t \in Server \ {s} : userConnMap'[t] = userConnMap[t]
    BY <1>4 DEF TypeOK
  <2>2. userConnMap[s] \in [User -> Conn \cup {NoConn}]
       /\ userConnMap'[s] = EraseEntry(userConnMap[s], u)
    BY <1>4 DEF TypeOK
  <2>3. \A v \in User : userConnMap'[s][v] = IF v = u THEN NoConn ELSE userConnMap[s][v]
    BY <2>2 DEF EraseEntry
  <2>4. u \in User /\ userConnMap[s][u] = c
    BY <1>4 DEF EnteredWith
  <2>5. uid'[c] = u /\ \A d \in Conn \ {c} : uid'[d] = uid[d]
    BY <1>4 DEF TypeOK
  <2>6. u \in {session[c]} \cup stray
    BY <1>2, <2>4
  <2>7. \A t \in Server, v \in User :
          /\ userConnMap'[t][v] \in {userConnMap[t][v], NoConn}
          /\ userConnMap'[t][v] = c => v \in EnteredWith(c) \ {u}
          /\ userConnMap[t][v] = c => v = u \/ v \in EnteredWith(c) \ {u}
          /\ userConnMap[t][v] # c => userConnMap'[t][v] = userConnMap[t][v]
    BY <1>1, <1>2, <2>1, <2>3, <2>4
  <2> QED
    BY <1>3, <1>4, <2>5, <2>6, <2>7 DEF TypeOK
<1>5. CASE EnteredWith(c) = {} /\ UNCHANGED <<userConnMap, uid, raced, stray>>
  <2>1. \A t \in Server, v \in User : userConnMap[t][v] # c
    BY <1>2, <1>5
  <2> QED
    BY <1>5, <2>1 DEF TypeOK
<1> QED
  BY <1>4, <1>5 DEF CloseErase

\* What Tail leaves of a sequence was in it.
LEMMA TailPart ==
  ASSUME NEW S, NEW q \in Seq(S), q # <<>>
  PROVE  \A i \in DOMAIN Tail(q) : \E j \in DOMAIN q : Tail(q)[i] = q[j]
<1> TAKE i \in DOMAIN Tail(q)
<1>1. i + 1 \in DOMAIN q /\ Tail(q)[i] = q[i + 1]
  OBVIOUS
<1> QED
  BY <1>1

-----------------------------------------------------------------------------
\* Each step keeps every variable in its type.
LEMMA TypeStep ==
  ASSUME TypeOK, Control, AbsenceHolds, [Next]_vars
  PROVE  TypeOK'
<1>1. ASSUME NEW c \in Conn, Connect(c) PROVE TypeOK'
  <2> USE <1>1 DEF Connect
  <2>1. conn' \in [Conn -> {"free", "up", "down"}]
    BY DEF TypeOK
  <2> QED
    BY <2>1 DEF TypeOK
<1>2. ASSUME NEW c \in Conn, NEW u \in User, LoginQuery(c, u) PROVE TypeOK'
  <2> USE <1>2 DEF LoginQuery
  <2>1. pc' \in [Conn -> PC]
    <3>1. Goto(c, "login_update")
      OBVIOUS
    <3> QED
      BY <3>1, GotoType DEF PC, LoginPC, DeliverPC, LeavePC
  <2>2. session' \in [Conn -> User \cup {NoUser}]
    BY DEF TypeOK, Spend
  <2>3. budget' \in [Limited -> Nat]
    BY DEF TypeOK, Spend, Limited, Fault
  <2>4. stray' \in SUBSET User /\ raced' \in SUBSET User
    BY DEF LeaveBehind, TypeOK
  <2> QED
    BY <2>1, <2>2, <2>3, <2>4 DEF TypeOK, Spend
<1>3. ASSUME NEW c \in Conn, LoginUpdate(c) PROVE TypeOK'
  <2> USE <1>3 DEF LoginUpdate
  <2>1. pc' \in [Conn -> PC]
    <3>1. Goto(c, "login_insert")
      OBVIOUS
    <3> QED
      BY <3>1, GotoType DEF PC, LoginPC, DeliverPC, LeavePC
  <2>2. userState' \in [User -> {"offline", "online"}]
    BY DEF TypeOK, UpdateState, Control, LoginPC, DeliverPC, LeavePC
  <2>3. raced' \in SUBSET User
    BY DEF TypeOK, UpdateState, Control, LoginPC, DeliverPC, LeavePC
  <2> QED
    BY <2>1, <2>2, <2>3 DEF TypeOK, UpdateState
<1>4. ASSUME NEW c \in Conn, LoginUpdateFails(c) PROVE TypeOK'
  <2> USE <1>4 DEF LoginUpdateFails
  <2>1. pc' \in [Conn -> PC]
    <3>1. Goto(c, "idle")
      OBVIOUS
    <3> QED
      BY <3>1, GotoType DEF PC, LoginPC, DeliverPC, LeavePC
  <2>2. session' \in [Conn -> User \cup {NoUser}]
    BY DEF TypeOK, Spend
  <2>3. budget' \in [Limited -> Nat]
    BY DEF TypeOK, Spend, Limited, Fault
  <2> QED
    BY <2>1, <2>2, <2>3 DEF TypeOK, Spend
<1>5. ASSUME NEW c \in Conn, LoginInsert(c) PROVE TypeOK'
  <2> USE <1>5 DEF LoginInsert
  <2>1. pc' \in [Conn -> PC]
    <3>1. Goto(c, "login_subscribe")
      OBVIOUS
    <3> QED
      BY <3>1, GotoType DEF PC, LoginPC, DeliverPC, LeavePC
  <2>2. userConnMap' \in [Server -> [User -> Conn \cup {NoConn}]]
    BY ClusterAssumption, InsertType DEF TypeOK, ClusterAssumption
  <2> QED
    BY <2>1, <2>2 DEF TypeOK
<1>6. ASSUME NEW c \in Conn, LoginSubscribe(c) PROVE TypeOK'
  <2> USE <1>6 DEF LoginSubscribe
  <2>1. pc' \in [Conn -> PC]
    <3>1. Goto(c, "login_read")
      OBVIOUS
    <3> QED
      BY <3>1, GotoType DEF PC, LoginPC, DeliverPC, LeavePC
  <2>2. pipe' \in [Server -> Seq(Command)]
    <3>1. session[c] \in User
      BY DEF Control, LoginPC
    <3> QED
      BY <3>1, AppendType
  <2>3. budget' \in [Limited -> Nat]
    BY DEF TypeOK, AppendCommand, Spend, Limited, Fault
  <2>4. raced' \in SUBSET User
    BY DEF TypeOK, AppendCommand, Spend, Control, LoginPC, DeliverPC, LeavePC
  <2> QED
    BY <2>1, <2>2, <2>3, <2>4 DEF TypeOK, AppendCommand, Spend
<1>7. ASSUME NEW c \in Conn, LoginRead(c) PROVE TypeOK'
  <2> USE <1>7 DEF LoginRead
  <2>1. pc' \in [Conn -> PC]
    <3>1. Goto(c, "login_ack") \/ Goto(c, "login_remove")
      OBVIOUS
    <3> QED
      BY <3>1, GotoType DEF PC, LoginPC, DeliverPC, LeavePC
  <2>2. vec' \in [Conn -> SUBSET Msg]
    <3>1. session[c] \in User
      BY DEF Control, LoginPC
    <3>2. offlineMsg[session[c]] \in SUBSET Msg
      BY <3>1 DEF TypeOK
    <3>3. \E rows \in SUBSET offlineMsg[session[c]] : vec' = [vec EXCEPT ![c] = rows]
      OBVIOUS
    <3> QED
      BY <3>2, <3>3 DEF TypeOK
  <2>3. budget' \in [Limited -> Nat]
    BY DEF TypeOK, Spend, Limited, Fault
  <2> QED
    BY <2>1, <2>2, <2>3 DEF TypeOK, Spend
<1>8. ASSUME NEW c \in Conn, LoginRemove(c) PROVE TypeOK'
  <2> USE <1>8 DEF LoginRemove
  <2>1. pc' \in [Conn -> PC]
    <3>1. Goto(c, "login_ack")
      OBVIOUS
    <3> QED
      BY <3>1, GotoType DEF PC, LoginPC, DeliverPC, LeavePC
  <2>2. offlineMsg' \in [User -> SUBSET Msg]
    BY DEF TypeOK, Spend, Control, LoginPC, DeliverPC, LeavePC
  <2>3. budget' \in [Limited -> Nat]
    BY DEF TypeOK, Spend, Limited, Fault
  <2> QED
    BY <2>1, <2>2, <2>3 DEF TypeOK, Spend
<1>9. ASSUME NEW c \in Conn, LoginAck(c) PROVE TypeOK'
  <2> USE <1>9 DEF LoginAck
  <2>1. pc' \in [Conn -> PC]
    <3>1. Goto(c, "idle")
      OBVIOUS
    <3> QED
      BY <3>1, GotoType DEF PC, LoginPC, DeliverPC, LeavePC
  <2>2. vec' \in [Conn -> SUBSET Msg]
    BY DEF TypeOK, Control, LoginPC, DeliverPC, LeavePC
  <2>3. sent' \in SUBSET ((User \cup {NoUser}) \X User \X Msg)
    <3>1. session[c] \in User /\ vec[c] \in SUBSET Msg
      BY DEF TypeOK, Control, LoginPC
    <3>2. \A m \in vec[c] : <<session[c], session[c], m>> \in (User \cup {NoUser}) \X User \X Msg
      BY <3>1
    <3> QED
      BY <3>2, AnsweredRows DEF TypeOK
  <2> QED
    BY <2>1, <2>2, <2>3 DEF TypeOK
<1>10. ASSUME NEW c \in Conn, NEW m \in Msg, NEW R \in (SUBSET User) \ {{}}, Chat(c, m, R)
       PROVE  TypeOK'
  <2> USE <1>10 DEF Chat
  <2>1. pc' \in [Conn -> PC]
    <3>1. Goto(c, "deliver")
      OBVIOUS
    <3> QED
      BY <3>1, GotoType DEF PC, LoginPC, DeliverPC, LeavePC
  <2>2. addressed' \in [Msg -> SUBSET User]
    BY DEF TypeOK
  <2>3. todo' \in [Conn -> SUBSET User]
    BY DEF TypeOK
  <2>4. msg' \in [Conn -> Msg \cup {NoMsg}]
    BY DEF TypeOK
  <2> QED
    BY <2>1, <2>2, <2>3, <2>4 DEF TypeOK
<1>11. ASSUME NEW c \in Conn, DeliverHere(c) PROVE TypeOK'
  <2> USE <1>11 DEF DeliverHere
  <2>1. pc' \in [Conn -> PC]
    <3>1. Goto(c, "idle") \/ Goto(c, "deliver")
      BY DEF NextRecipient
    <3> QED
      BY <3>1, GotoType DEF PC, LoginPC, DeliverPC, LeavePC
  <2>2. todo' \in [Conn -> SUBSET User]
    BY DEF TypeOK, NextRecipient, OwnerAfter, Send
  <2>3. uid' \in [Conn -> User \cup {NoUser}]
    BY DEF TypeOK, NextRecipient, OwnerAfter, Send
  <2>4. msg' \in [Conn -> Msg \cup {NoMsg}]
    BY DEF TypeOK, NextRecipient, OwnerAfter, Send
  <2>5. mutex' \in [Server -> Conn \cup {NoConn, Observer}]
    <3>1. PICK u \in todo[c] : mutex' = [mutex EXCEPT ![ServerOf[c]] = OwnerAfter(c, u)]
      BY DEF NextRecipient
    <3> QED
      BY <3>1 DEF TypeOK, OwnerAfter
  <2>6. sent' \in SUBSET ((User \cup {NoUser}) \X User \X Msg)
    <3>1. PICK u \in todo[c] : userConnMap[ServerOf[c]][u] # NoConn
                             /\ Send(userConnMap[ServerOf[c]][u], u, msg[c])
      OBVIOUS
    <3>2. userConnMap[ServerOf[c]][u] \in Conn /\ msg[c] \in Msg
      BY <3>1, ClusterAssumption DEF TypeOK, Control, DeliverPC, ClusterAssumption
    <3> QED
      BY <3>1, <3>2 DEF TypeOK, Send
  <2> QED
    BY <2>1, <2>2, <2>3, <2>4, <2>5, <2>6 DEF TypeOK, NextRecipient, OwnerAfter, Send
<1>12. ASSUME NEW c \in Conn, DeliverElsewhere(c) PROVE TypeOK'
  <2> USE <1>12 DEF DeliverElsewhere
  <2>1. pc' \in [Conn -> PC]
    <3>1. Goto(c, "lookup")
      OBVIOUS
    <3> QED
      BY <3>1, GotoType DEF PC, LoginPC, DeliverPC, LeavePC
  <2>2. uid' \in [Conn -> User \cup {NoUser}]
    BY DEF TypeOK
  <2>3. mutex' \in [Server -> Conn \cup {NoConn, Observer}]
    BY ClusterAssumption DEF TypeOK, ClusterAssumption
  <2> QED
    BY <2>1, <2>2, <2>3 DEF TypeOK
<1>13. ASSUME NEW c \in Conn, Lookup(c) PROVE TypeOK'
  <2> USE <1>13 DEF Lookup
  <2>1. pc' \in [Conn -> PC]
    <3>1. Goto(c, "publish") \/ Goto(c, "store")
      OBVIOUS
    <3> QED
      BY <3>1, GotoType DEF PC, LoginPC, DeliverPC, LeavePC
  <2>2. budget' \in [Limited -> Nat]
    BY DEF TypeOK, Spend, Limited, Fault
  <2> QED
    BY <2>1, <2>2 DEF TypeOK, Spend
<1>14. ASSUME NEW c \in Conn, Publish(c) PROVE TypeOK'
  <2> USE <1>14 DEF Publish
  <2>1. pc' \in [Conn -> PC]
    <3>1. Goto(c, "idle") \/ Goto(c, "deliver")
      BY DEF NextRecipient
    <3> QED
      BY <3>1, GotoType DEF PC, LoginPC, DeliverPC, LeavePC
  <2>2. todo' \in [Conn -> SUBSET User]
    BY DEF TypeOK, NextRecipient, OwnerAfter
  <2>3. uid' \in [Conn -> User \cup {NoUser}]
    BY DEF TypeOK, NextRecipient, OwnerAfter
  <2>4. msg' \in [Conn -> Msg \cup {NoMsg}]
    BY DEF TypeOK, NextRecipient, OwnerAfter
  <2>5. mutex' \in [Server -> Conn \cup {NoConn, Observer}]
    BY ClusterAssumption DEF TypeOK, NextRecipient, OwnerAfter, ClusterAssumption
  <2>6. inbound' \in [Server -> Seq(User \X Msg)]
    <3>1. <<uid[c], msg[c]>> \in User \X Msg
      BY DEF TypeOK, Control, DeliverPC
    <3>2. \A s \in Server : Append(inbound[s], <<uid[c], msg[c]>>) \in Seq(User \X Msg)
      BY <3>1 DEF TypeOK
    <3> QED
      BY <3>2 DEF TypeOK, Published
  <2>7. budget' \in [Limited -> Nat]
    BY DEF TypeOK, Spend, Limited, Fault
  <2> QED
    BY <2>1, <2>2, <2>3, <2>4, <2>5, <2>6, <2>7 DEF TypeOK, NextRecipient, OwnerAfter
<1>15. ASSUME NEW c \in Conn, Store(c) PROVE TypeOK'
  <2> USE <1>15 DEF Store
  <2>1. pc' \in [Conn -> PC]
    <3>1. Goto(c, "idle") \/ Goto(c, "deliver")
      BY DEF NextRecipient
    <3> QED
      BY <3>1, GotoType DEF PC, LoginPC, DeliverPC, LeavePC
  <2>2. todo' \in [Conn -> SUBSET User]
    BY DEF TypeOK, NextRecipient, OwnerAfter, StoreOffline, Spend
  <2>3. uid' \in [Conn -> User \cup {NoUser}]
    BY DEF TypeOK, NextRecipient, OwnerAfter, StoreOffline, Spend
  <2>4. msg' \in [Conn -> Msg \cup {NoMsg}]
    BY DEF TypeOK, NextRecipient, OwnerAfter, StoreOffline, Spend
  <2>5. mutex' \in [Server -> Conn \cup {NoConn, Observer}]
    BY ClusterAssumption DEF TypeOK, NextRecipient, OwnerAfter, StoreOffline, Spend,
       ClusterAssumption
  <2>6. offlineMsg' \in [User -> SUBSET Msg]
    <3>1. uid[c] \in User /\ msg[c] \in Msg
      BY DEF TypeOK, Control, DeliverPC
    <3> QED
      BY <3>1, StoreType
  <2>7. budget' \in [Limited -> Nat]
    BY DEF TypeOK, NextRecipient, OwnerAfter, StoreOffline, Spend, Limited, Fault
  <2> QED
    BY <2>1, <2>2, <2>3, <2>4, <2>5, <2>6, <2>7 DEF TypeOK, NextRecipient, OwnerAfter,
       StoreOffline, Spend
<1>16. ASSUME NEW c \in Conn, Loginout(c) PROVE TypeOK'
  <2> USE <1>16 DEF Loginout
  <2>1. pc' \in [Conn -> PC]
    <3>1. Goto(c, "unsubscribe")
      OBVIOUS
    <3> QED
      BY <3>1, GotoType DEF PC, LoginPC, DeliverPC, LeavePC
  <2>2. uid' \in [Conn -> User \cup {NoUser}]
    <3>1. PICK v \in User \cup {NoUser} : uid' = [uid EXCEPT ![c] = v]
      BY DEF TypeOK
    <3> QED
      BY <3>1 DEF TypeOK
  <2>3. userConnMap' \in [Server -> [User -> Conn \cup {NoConn}]]
    <3>1. /\ userConnMap' = [userConnMap EXCEPT ![ServerOf[c]] = EraseEntry(@, session[c])]
          /\ userConnMap[ServerOf[c]] \in [User -> Conn \cup {NoConn}]
      <4>1. ServerOf[c] \in Server
        BY ClusterAssumption DEF ClusterAssumption
      <4> QED
        BY <4>1 DEF TypeOK
    <3>2. EraseEntry(userConnMap[ServerOf[c]], session[c]) \in [User -> Conn \cup {NoConn}]
      BY <3>1, EraseType
    <3> QED
      BY <3>1, <3>2 DEF TypeOK
  <2> QED
    BY <2>1, <2>2, <2>3 DEF TypeOK
<1>17. ASSUME NEW c \in Conn, Close(c) PROVE TypeOK'
  <2> USE <1>17 DEF Close
  <2>1. pc' \in [Conn -> PC]
    <3>1. Goto(c, "close")
      OBVIOUS
    <3> QED
      BY <3>1, GotoType DEF PC, LoginPC, DeliverPC, LeavePC
  <2>2. conn' \in [Conn -> {"free", "up", "down"}]
    BY DEF TypeOK
  <2> QED
    BY <2>1, <2>2 DEF TypeOK
<1>18. ASSUME NEW c \in Conn, CloseErase(c) PROVE TypeOK'
  <2> USE <1>18 DEF CloseErase
  <2>1. pc' \in [Conn -> PC]
    <3>1. Goto(c, "unsubscribe")
      OBVIOUS
    <3> QED
      BY <3>1, GotoType DEF PC, LoginPC, DeliverPC, LeavePC
  <2>2. uid' \in [Conn -> User \cup {NoUser}]
    BY DEF TypeOK, EnteredWith
  <2>3. userConnMap' \in [Server -> [User -> Conn \cup {NoConn}]]
    <3> DEFINE s == ServerOf[c]
    <3>1. userConnMap[s] \in [User -> Conn \cup {NoConn}]
      BY ClusterAssumption DEF ClusterAssumption, TypeOK
    <3>2. PICK e \in [User -> Conn \cup {NoConn}] :
            userConnMap' = userConnMap \/ userConnMap' = [userConnMap EXCEPT ![s] = e]
      BY <3>1, EraseType
    <3> QED
      BY <3>2 DEF TypeOK
  <2>4. stray' \in SUBSET User /\ raced' \in SUBSET User
    BY DEF EnteredWith, TypeOK
  <2> QED
    BY <2>1, <2>2, <2>3, <2>4 DEF TypeOK
<1>19. ASSUME NEW c \in Conn, Unsubscribe(c) PROVE TypeOK'
  <2> USE <1>19 DEF Unsubscribe
  <2>1. pc' \in [Conn -> PC]
    <3>1. Goto(c, "set_offline") \/ Goto(c, "idle")
      BY DEF Left
    <3> QED
      BY <3>1, GotoType DEF PC, LoginPC, DeliverPC, LeavePC
  <2>2. session' \in [Conn -> User \cup {NoUser}]
    BY DEF TypeOK, AppendCommand, Channel, Left, Spend
  <2>3. uid' \in [Conn -> User \cup {NoUser}]
    BY DEF TypeOK, AppendCommand, Channel, Left, Spend
  <2>4. conn' \in [Conn -> {"free", "up", "down"}]
    BY DEF TypeOK, AppendCommand, Channel, Left, Spend
  <2>5. pipe' \in [Server -> Seq(Command)]
    <3>1. Channel(c) \in User \cup {NoUser}
      BY DEF Channel, TypeOK
    <3>2. UNCHANGED pipe \/ (Channel(c) # NoUser /\ AppendCommand(c, "UNSUBSCRIBE", Channel(c)))
      OBVIOUS
    <3> QED
      BY <3>1, <3>2, AppendType DEF TypeOK
  <2>6. budget' \in [Limited -> Nat]
    BY DEF TypeOK, AppendCommand, Channel, Left, Spend, Limited, Fault
  <2>7. raced' \in SUBSET User
    BY DEF TypeOK, AppendCommand, Channel, Left, Spend, Control, LoginPC, DeliverPC,
       LeavePC
  <2> QED
    BY <2>1, <2>2, <2>3, <2>4, <2>5, <2>6, <2>7 DEF TypeOK, AppendCommand, Channel,
       Left, Spend
<1>20. ASSUME NEW c \in Conn, SetOffline(c) PROVE TypeOK'
  <2> USE <1>20 DEF SetOffline
  <2>1. pc' \in [Conn -> PC]
    <3>1. Goto(c, "idle")
      BY DEF Left
    <3> QED
      BY <3>1, GotoType DEF PC, LoginPC, DeliverPC, LeavePC
  <2>2. session' \in [Conn -> User \cup {NoUser}]
    BY DEF TypeOK, UpdateState, Left, Spend
  <2>3. uid' \in [Conn -> User \cup {NoUser}]
    BY DEF TypeOK, UpdateState, Left, Spend
  <2>4. conn' \in [Conn -> {"free", "up", "down"}]
    BY DEF TypeOK, UpdateState, Left, Spend
  <2>5. userState' \in [User -> {"offline", "online"}]
    BY DEF TypeOK, UpdateState, Left, Spend, Control, LoginPC, DeliverPC, LeavePC
  <2>6. budget' \in [Limited -> Nat]
    BY DEF TypeOK, UpdateState, Left, Spend, Limited, Fault
  <2> QED
    BY <2>1, <2>2, <2>3, <2>4, <2>5, <2>6 DEF TypeOK, UpdateState, Left, Spend
<1>21. ASSUME NEW s \in Server, Redis(s) PROVE TypeOK'
  <2> USE <1>21 DEF Redis
  <2>1. pipe' \in [Server -> Seq(Command)]
    BY ClusterAssumption DEF TypeOK, Command, ClusterAssumption
  <2>2. subs' \in [User -> SUBSET Server]
    <3>1. PICK u : subs' = [subs EXCEPT ![u] = @ \cup {s}] \/ subs' = [subs EXCEPT ![u] = @ \ {s}]
      OBVIOUS
    <3> QED
      BY <3>1 DEF TypeOK
  <2> QED
    BY <2>1, <2>2 DEF TypeOK
<1>22. ASSUME NEW s \in Server, Observe(s) PROVE TypeOK'
  <2> USE <1>22 DEF Observe
  <2>1. mutex' \in [Server -> Conn \cup {NoConn, Observer}]
    <3>1. UNCHANGED mutex \/ mutex' = [mutex EXCEPT ![s] = Observer]
      OBVIOUS
    <3> QED
      BY <3>1 DEF TypeOK
  <2>2. inbound' \in [Server -> Seq(User \X Msg)]
    <3>1. inbound[s] \in Seq(User \X Msg) /\ inbound[s] # <<>>
      BY DEF TypeOK
    <3>2. Tail(inbound[s]) \in Seq(User \X Msg)
      BY <3>1
    <3>3. inbound' = inbound \/ inbound' = [inbound EXCEPT ![s] = Tail(@)]
      OBVIOUS
    <3> QED
      BY <3>2, <3>3 DEF TypeOK
  <2>3. sent' \in SUBSET ((User \cup {NoUser}) \X User \X Msg)
    BY ClusterAssumption DEF TypeOK, Send, Control, LoginPC, DeliverPC, LeavePC,
       ClusterAssumption
  <2> QED
    BY <2>1, <2>2, <2>3 DEF TypeOK, Send
<1>23. ASSUME NEW s \in Server, ObserveStore(s) PROVE TypeOK'
  <2>1. mutex' \in [Server -> Conn \cup {NoConn, Observer}]
    BY <1>23, ClusterAssumption DEF TypeOK, ObserveStore, ClusterAssumption
  <2>2. inbound' \in [Server -> Seq(User \X Msg)]
    BY <1>23 DEF TypeOK, ObserveStore, AbsenceHolds
  <2>3. offlineMsg' \in [User -> SUBSET Msg]
    <3>1. inbound[s] \in Seq(User \X Msg) /\ inbound[s] # <<>>
      BY <1>23 DEF TypeOK, ObserveStore, AbsenceHolds
    <3>2. Head(inbound[s])[1] \in User /\ Head(inbound[s])[2] \in Msg
      BY <3>1
    <3> QED
      BY <1>23, <3>2, StoreType DEF ObserveStore
  <2>4. budget' \in [Limited -> Nat]
    <3>1. budget' = budget \/ Spend("db")
      BY <1>23 DEF ObserveStore, StoreOffline
    <3> QED
      BY <3>1 DEF TypeOK, Spend, Limited, Fault
  <2>5. UNCHANGED <<userState, pipe, subs, deaf, userConnMap, stopping, ended, chat,
                    history, conn, pc, session, vec>>
    BY <1>23 DEF ObserveStore
  <2> QED
    BY <2>1, <2>2, <2>3, <2>4, <2>5 DEF TypeOK, chat, history
<1>24. ASSUME NEW s \in Server, Crash(s) PROVE TypeOK'
  <2> USE <1>24 DEF Crash
  <2>1. userConnMap' \in [Server -> [User -> Conn \cup {NoConn}]]
    BY ClusterAssumption DEF TypeOK, Wipe, OnServer, Spend, ClusterAssumption
  <2>2. mutex' \in [Server -> Conn \cup {NoConn, Observer}]
    BY ClusterAssumption DEF TypeOK, Wipe, OnServer, Spend, ClusterAssumption
  <2>3. pipe' \in [Server -> Seq(Command)]
    <3>1. <<>> \in Seq(Command)
      OBVIOUS
    <3> QED
      BY <3>1 DEF TypeOK, Wipe
  <2>4. subs' \in [User -> SUBSET Server]
    BY DEF TypeOK, Wipe, OnServer, Spend, Command
  <2>5. inbound' \in [Server -> Seq(User \X Msg)]
    BY ClusterAssumption DEF TypeOK, Wipe, OnServer, Spend, ClusterAssumption
  <2>6. stopping' \in SUBSET Server
    BY DEF TypeOK, Wipe, OnServer, Spend
  <2>7. conn' \in [Conn -> {"free", "up", "down"}]
    BY DEF TypeOK, Wipe, OnServer, Spend
  <2>8. pc' \in [Conn -> PC]
    BY DEF TypeOK, Wipe, OnServer, Spend, PC, LoginPC, DeliverPC, LeavePC, Goto
  <2>9. session' \in [Conn -> User \cup {NoUser}]
    BY DEF TypeOK, Wipe, OnServer, Spend
  <2>10. uid' \in [Conn -> User \cup {NoUser}]
    BY DEF TypeOK, Wipe, OnServer, Spend
  <2>11. todo' \in [Conn -> SUBSET User]
    BY DEF TypeOK, Wipe, OnServer, Spend
  <2>12. msg' \in [Conn -> Msg \cup {NoMsg}]
    BY DEF TypeOK, Wipe, OnServer, Spend
  <2>13. vec' \in [Conn -> SUBSET Msg]
    BY DEF TypeOK, Wipe, OnServer, Spend, Control, LoginPC, DeliverPC, LeavePC
  <2>14. budget' \in [Limited -> Nat]
    BY DEF TypeOK, Wipe, OnServer, Spend, Limited, Fault
  <2> QED
    BY <2>1, <2>2, <2>3, <2>4, <2>5, <2>6, <2>7, <2>8, <2>9, <2>10, <2>11, <2>12, <2>13,
       <2>14 DEF TypeOK, Wipe, OnServer, Spend
<1>25. ASSUME NEW s \in Server, Sigint(s) PROVE TypeOK'
  <2> USE <1>25 DEF Sigint
  <2>1. stopping' \in SUBSET Server
    BY DEF TypeOK, Spend
  <2>2. userState' \in [User -> {"offline", "online"}]
    BY DEF TypeOK, Spend, Control, LoginPC, DeliverPC, LeavePC
  <2>3. raced' \in SUBSET User
    BY DEF TypeOK, Spend, Control, LoginPC, DeliverPC, LeavePC
  <2>4. budget' \in [Limited -> Nat]
    BY DEF TypeOK, Spend, Limited, Fault
  <2> QED
    BY <2>1, <2>2, <2>3, <2>4 DEF TypeOK, Spend
<1>26. ASSUME NEW s \in Server, Exit(s) PROVE TypeOK'
  <2> USE <1>26 DEF Exit
  <2>1. userConnMap' \in [Server -> [User -> Conn \cup {NoConn}]]
    BY ClusterAssumption DEF TypeOK, Wipe, OnServer, ClusterAssumption
  <2>2. mutex' \in [Server -> Conn \cup {NoConn, Observer}]
    BY ClusterAssumption DEF TypeOK, Wipe, OnServer, ClusterAssumption
  <2>3. pipe' \in [Server -> Seq(Command)]
    <3>1. <<>> \in Seq(Command)
      OBVIOUS
    <3> QED
      BY <3>1 DEF TypeOK, Wipe
  <2>4. subs' \in [User -> SUBSET Server]
    BY DEF TypeOK, Wipe, OnServer, Command
  <2>5. inbound' \in [Server -> Seq(User \X Msg)]
    BY ClusterAssumption DEF TypeOK, Wipe, OnServer, ClusterAssumption
  <2>6. stopping' \in SUBSET Server
    BY DEF TypeOK, Wipe, OnServer
  <2>7. conn' \in [Conn -> {"free", "up", "down"}]
    BY DEF TypeOK, Wipe, OnServer
  <2>8. pc' \in [Conn -> PC]
    BY DEF TypeOK, Wipe, OnServer, PC, LoginPC, DeliverPC, LeavePC, Goto
  <2>9. session' \in [Conn -> User \cup {NoUser}]
    BY DEF TypeOK, Wipe, OnServer
  <2>10. uid' \in [Conn -> User \cup {NoUser}]
    BY DEF TypeOK, Wipe, OnServer
  <2>11. todo' \in [Conn -> SUBSET User]
    BY DEF TypeOK, Wipe, OnServer
  <2>12. msg' \in [Conn -> Msg \cup {NoMsg}]
    BY DEF TypeOK, Wipe, OnServer
  <2>13. vec' \in [Conn -> SUBSET Msg]
    BY DEF TypeOK, Wipe, OnServer, Control, LoginPC, DeliverPC, LeavePC
  <2> QED
    BY <2>1, <2>2, <2>3, <2>4, <2>5, <2>6, <2>7, <2>8, <2>9, <2>10, <2>11, <2>12, <2>13
       DEF TypeOK, Wipe, OnServer
<1>27. ASSUME NEW s \in Server, LoseRedis(s) PROVE TypeOK'
  <2>1. pipe' \in [Server -> Seq(Command)]
    BY <1>27 DEF LoseRedis, TypeOK
  <2>2. subs' \in [User -> SUBSET Server]
    BY <1>27 DEF LoseRedis, TypeOK
  <2>3. inbound' \in [Server -> Seq(User \X Msg)]
    <3>1. inbound[s] \in Seq(User \X Msg)
      BY DEF TypeOK
    <3>2. PICK k \in 0 .. Len(inbound[s]) : inbound' = [inbound EXCEPT ![s] = SubSeq(inbound[s], 1, k)]
      BY <1>27 DEF LoseRedis
    <3>3. SubSeq(inbound[s], 1, k) \in Seq(User \X Msg)
      BY <3>1, <3>2
    <3> QED
      BY <3>2, <3>3 DEF TypeOK
  <2>4. deaf' \in SUBSET Server
    BY <1>27 DEF LoseRedis, TypeOK
  <2>5. budget' \in [Limited -> Nat]
    BY <1>27 DEF LoseRedis, TypeOK, Spend, Limited, Fault
  <2>6. UNCHANGED <<database, server, chat, history, conn, pc, session, vec>>
    BY <1>27 DEF LoseRedis
  <2> QED
    BY <2>1, <2>2, <2>3, <2>4, <2>5, <2>6 DEF TypeOK
<1>28. CASE UNCHANGED vars
  BY <1>28 DEF vars, TypeOK
<1> QED
  BY <1>1, <1>2, <1>3, <1>4, <1>5, <1>6, <1>7, <1>8, <1>9, <1>10, <1>11, <1>12, <1>13,
     <1>14, <1>15, <1>16, <1>17, <1>18, <1>19, <1>20, <1>21, <1>22, <1>23, <1>24, <1>25,
     <1>26, <1>27, <1>28, RecipientsType DEF Next, ClientStep, HandlerStep, ObserverStep

\* Each step leaves every handler at a program point with what Control says
\* of it.
LEMMA ControlStep ==
  ASSUME TypeOK, Control, NoDanglingEntry, [Next]_vars
  PROVE  Control'
<1>1. ASSUME NEW c \in Conn, Connect(c) PROVE Control'
  BY <1>1, ClusterAssumption DEF Connect, TypeOK, Control, LoginPC, DeliverPC, LeavePC,
     Goto, ClusterAssumption
<1>2. ASSUME NEW c \in Conn, NEW u \in User, LoginQuery(c, u) PROVE Control'
  BY <1>2, ClusterAssumption DEF LoginQuery, LeaveBehind, TypeOK, Control, LoginPC, DeliverPC,
     LeavePC, Goto, ClusterAssumption
<1>3. ASSUME NEW c \in Conn, LoginUpdate(c) PROVE Control'
  BY <1>3, ClusterAssumption DEF LoginUpdate, UpdateState, TypeOK, Control, LoginPC,
     DeliverPC, LeavePC, Goto, ClusterAssumption
<1>4. ASSUME NEW c \in Conn, LoginUpdateFails(c) PROVE Control'
  BY <1>4, ClusterAssumption DEF LoginUpdateFails, Spend, TypeOK, Control, LoginPC,
     DeliverPC, LeavePC, Goto, ClusterAssumption
<1>5. ASSUME NEW c \in Conn, LoginInsert(c) PROVE Control'
  BY <1>5, ClusterAssumption DEF LoginInsert, InsertEntry, TypeOK, Control, LoginPC,
     DeliverPC, LeavePC, Goto, ClusterAssumption
<1>6. ASSUME NEW c \in Conn, LoginSubscribe(c) PROVE Control'
  BY <1>6, ClusterAssumption DEF LoginSubscribe, AppendCommand, Spend, TypeOK, Control,
     LoginPC, DeliverPC, LeavePC, Goto, ClusterAssumption
<1>7. ASSUME NEW c \in Conn, LoginRead(c) PROVE Control'
  BY <1>7, ClusterAssumption DEF LoginRead, Spend, TypeOK, Control, LoginPC, DeliverPC,
     LeavePC, Goto, ClusterAssumption
<1>8. ASSUME NEW c \in Conn, LoginRemove(c) PROVE Control'
  BY <1>8, ClusterAssumption DEF LoginRemove, Spend, TypeOK, Control, LoginPC,
     DeliverPC, LeavePC, Goto, ClusterAssumption
<1>9. ASSUME NEW c \in Conn, LoginAck(c) PROVE Control'
  BY <1>9, ClusterAssumption DEF LoginAck, TypeOK, Control, LoginPC, DeliverPC, LeavePC,
     Goto, ClusterAssumption
<1>10. ASSUME NEW c \in Conn, NEW m \in Msg, NEW R \in (SUBSET User) \ {{}}, Chat(c, m, R)
       PROVE  Control'
  <2>1. /\ conn[c] = "up" /\ pc[c] = "idle" /\ session[c] \in User
        /\ pc'[c] = "deliver" /\ todo'[c] = R /\ msg'[c] = m
        /\ UNCHANGED <<conn, session, uid, vec, stray>>
    BY <1>10 DEF Chat, TypeOK, Goto
  <2>2. \A e \in Conn \ {c} : pc'[e] = pc[e] /\ todo'[e] = todo[e] /\ msg'[e] = msg[e]
    BY <1>10 DEF Chat, TypeOK, Goto
  <2>3. R # {} /\ m # NoMsg
    BY ClusterAssumption DEF ClusterAssumption
  <2>4. \A e \in Conn : conn'[e] = conn[e] /\ session'[e] = session[e] /\ uid'[e] = uid[e]
                       /\ vec'[e] = vec[e] /\ stray' = stray
    BY <2>1
  <2>5. uid[c] = NoUser /\ vec[c] = {}
    BY <2>1 DEF Control, LeavePC
  <2>6. /\ pc'[c] \in DeliverPC /\ pc'[c] \notin LeavePC \cup {"lookup", "publish", "store"}
        /\ pc'[c] \notin {"close", "login_remove", "login_ack"}
        /\ todo'[c] # {} /\ msg'[c] \in Msg /\ conn'[c] = "up" /\ session'[c] \in User
        /\ uid'[c] = NoUser /\ vec'[c] = {}
    BY <2>1, <2>3, <2>4, <2>5 DEF DeliverPC, LeavePC
  <2> SUFFICES ASSUME NEW e \in Conn
               PROVE  Control!(e)'
    BY DEF Control
  <2> QED
    BY <2>2, <2>4, <2>6 DEF Control, LoginPC, DeliverPC, LeavePC
<1>11. ASSUME NEW c \in Conn, DeliverHere(c) PROVE Control'
  BY <1>11, ClusterAssumption DEF DeliverHere, NextRecipient, OwnerAfter, Send, TypeOK,
     Control, LoginPC, DeliverPC, LeavePC, Goto, ClusterAssumption
<1>12. ASSUME NEW c \in Conn, DeliverElsewhere(c) PROVE Control'
  BY <1>12, ClusterAssumption DEF DeliverElsewhere, TypeOK, Control, LoginPC, DeliverPC,
     LeavePC, Goto, ClusterAssumption
<1>13. ASSUME NEW c \in Conn, Lookup(c) PROVE Control'
  BY <1>13, ClusterAssumption DEF Lookup, Spend, TypeOK, Control, LoginPC, DeliverPC,
     LeavePC, Goto, ClusterAssumption
<1>14. ASSUME NEW c \in Conn, Publish(c) PROVE Control'
  BY <1>14, ClusterAssumption DEF Publish, Published, Spend, NextRecipient, OwnerAfter,
     TypeOK, Control,
     LoginPC, DeliverPC, LeavePC, Goto, ClusterAssumption
<1>15. ASSUME NEW c \in Conn, Store(c) PROVE Control'
  BY <1>15, ClusterAssumption DEF Store, NextRecipient, OwnerAfter, StoreOffline, Spend,
     TypeOK, Control, LoginPC, DeliverPC, LeavePC, Goto, ClusterAssumption
<1>16. ASSUME NEW c \in Conn, Loginout(c) PROVE Control'
  BY <1>16, ClusterAssumption DEF Loginout, EraseEntry, TypeOK, Control, LoginPC,
     DeliverPC, LeavePC, Goto, ClusterAssumption
<1>17. ASSUME NEW c \in Conn, Close(c) PROVE Control'
  BY <1>17, ClusterAssumption DEF Close, TypeOK, Control, LoginPC, DeliverPC, LeavePC,
     Goto, ClusterAssumption
<1>18. ASSUME NEW c \in Conn, CloseErase(c) PROVE Control'
  <2>1. uid'[c] \in {session[c], NoUser} \cup stray' /\ stray \subseteq stray'
    <3>1. uid[c] = NoUser
      BY <1>18 DEF CloseErase, Control, LeavePC
    <3> QED
      BY <1>18, <3>1, CloseEraseEffect
  <2>2. \A e \in Conn \ {c} : uid'[e] = uid[e] /\ pc'[e] = pc[e]
    BY <1>18 DEF CloseErase, TypeOK, Goto
  <2>3. pc[c] = "close" /\ pc'[c] = "unsubscribe" /\ UNCHANGED <<conn, session, todo, msg, vec>>
    BY <1>18 DEF CloseErase, TypeOK, Goto
  <2>4. c \in Conn => conn'[c] = conn[c] /\ todo'[c] = todo[c] /\ msg'[c] = msg[c] /\ vec'[c] = vec[c]
    BY <2>3
  <2> QED
    BY <2>1, <2>2, <2>3, <2>4 DEF Control, TypeOK, LoginPC, DeliverPC, LeavePC
<1>19. ASSUME NEW c \in Conn, Unsubscribe(c) PROVE Control'
  <2>1. pc[c] = "unsubscribe" /\ UNCHANGED <<todo, msg, vec, stray>>
    BY <1>19 DEF Unsubscribe
  <2>2. CASE uid[c] # NoUser /\ Goto(c, "set_offline") /\ UNCHANGED <<session, uid, conn>>
    <3>1. pc' = [pc EXCEPT ![c] = "set_offline"] /\ uid[c] \in User
      BY <2>2 DEF Goto, TypeOK
    <3> QED
      BY <2>1, <2>2, <3>1 DEF Control, TypeOK, LoginPC, DeliverPC, LeavePC
  <2>3. CASE uid[c] = NoUser /\ Left(c)
    <3>1. /\ pc' = [pc EXCEPT ![c] = "idle"] /\ uid' = [uid EXCEPT ![c] = NoUser]
          /\ session' = [session EXCEPT ![c] = NoUser]
          /\ conn' = [conn EXCEPT ![c] = IF @ = "down" THEN "free" ELSE @]
      BY <2>3 DEF Left, Goto
    <3> QED
      BY <2>1, <3>1 DEF Control, TypeOK, LoginPC, DeliverPC, LeavePC
  <2> QED
    BY <1>19, <2>2, <2>3 DEF Unsubscribe
<1>20. ASSUME NEW c \in Conn, SetOffline(c) PROVE Control'
  BY <1>20, ClusterAssumption DEF SetOffline, UpdateState, Left, Spend, TypeOK, Control,
     LoginPC, DeliverPC, LeavePC, Goto, ClusterAssumption
<1>21. ASSUME NEW s \in Server, Redis(s) PROVE Control'
  BY <1>21, ClusterAssumption DEF Redis, TypeOK, Control, LoginPC, DeliverPC, LeavePC,
     Goto, ClusterAssumption
<1>22. ASSUME NEW s \in Server, Observe(s) PROVE Control'
  BY <1>22, ClusterAssumption DEF Observe, Send, TypeOK, Control, LoginPC, DeliverPC,
     LeavePC, Goto, ClusterAssumption
<1>23. ASSUME NEW s \in Server, ObserveStore(s) PROVE Control'
  BY <1>23, ClusterAssumption DEF ObserveStore, StoreOffline, Spend, TypeOK, Control,
     LoginPC, DeliverPC, LeavePC, Goto, ClusterAssumption
<1>24. ASSUME NEW s \in Server, Crash(s) PROVE Control'
  BY <1>24, ClusterAssumption DEF Crash, Wipe, OnServer, Spend, TypeOK, Control,
     LoginPC, DeliverPC, LeavePC, Goto, ClusterAssumption
<1>25. ASSUME NEW s \in Server, Sigint(s) PROVE Control'
  BY <1>25, ClusterAssumption DEF Sigint, Spend, TypeOK, Control, LoginPC, DeliverPC,
     LeavePC, Goto, ClusterAssumption
<1>26. ASSUME NEW s \in Server, Exit(s) PROVE Control'
  BY <1>26, ClusterAssumption DEF Exit, Wipe, OnServer, TypeOK, Control, LoginPC,
     DeliverPC, LeavePC, Goto, ClusterAssumption
<1>27. ASSUME NEW s \in Server, LoseRedis(s) PROVE Control'
  BY <1>27 DEF LoseRedis, Control
<1>28. CASE UNCHANGED vars
  BY <1>28 DEF vars, TypeOK, Control, LoginPC, DeliverPC, LeavePC, Goto, ClusterAssumption
<1> QED
  BY <1>1, <1>2, <1>3, <1>4, <1>5, <1>6, <1>7, <1>8, <1>9, <1>10, <1>11, <1>12, <1>13,
     <1>14, <1>15, <1>16, <1>17, <1>18, <1>19, <1>20, <1>21, <1>22, <1>23, <1>24, <1>25,
     <1>26, <1>27, <1>28, RecipientsType DEF Next, ClientStep, HandlerStep, ObserverStep

\* Each step leaves the entries of _userConnMap naming live sessions.
LEMMA EntryStep ==
  ASSUME TypeOK, Control, NoDanglingEntry, [Next]_vars
  PROVE  NoDanglingEntry'
<1>1. ASSUME NEW c \in Conn, Connect(c) PROVE NoDanglingEntry'
  BY <1>1, ClusterAssumption DEF Connect, TypeOK, Control, NoDanglingEntry, LoginPC,
     DeliverPC, LeavePC, Goto, ClusterAssumption
<1>2. ASSUME NEW c \in Conn, NEW u \in User, LoginQuery(c, u) PROVE NoDanglingEntry'
  <2>1. /\ UNCHANGED <<userConnMap, conn>> /\ conn[c] = "up" /\ pc[c] = "idle"
        /\ \A d \in Conn \ {c} : session'[d] = session[d] /\ pc'[d] = pc[d]
    BY <1>2 DEF LoginQuery, Goto, TypeOK
  <2>2. stray \subseteq stray' /\ (session[c] # NoUser => session[c] \in stray')
    BY <1>2 DEF LoginQuery, LeaveBehind
  <2>3. \A t \in Server, v \in User : userConnMap[t][v] = c => v \in stray'
    <3> SUFFICES ASSUME NEW t \in Server, NEW v \in User, userConnMap[t][v] = c, v \notin stray
                 PROVE  v \in stray'
      BY <2>2
    <3>1. session[c] = v
      BY ClusterAssumption DEF NoDanglingEntry, ClusterAssumption
    <3> QED
      BY <3>1, <2>2, ClusterAssumption DEF ClusterAssumption
  <2>4. \A t \in Server, v \in User : userConnMap[t][v] \in Conn \cup {NoConn}
    BY DEF TypeOK
  <2> QED
    BY <2>1, <2>2, <2>3, <2>4 DEF NoDanglingEntry
<1>3. ASSUME NEW c \in Conn, LoginUpdate(c) PROVE NoDanglingEntry'
  BY <1>3, ClusterAssumption DEF LoginUpdate, UpdateState, TypeOK, Control,
     NoDanglingEntry, LoginPC, DeliverPC, LeavePC, Goto, ClusterAssumption
<1>4. ASSUME NEW c \in Conn, LoginUpdateFails(c) PROVE NoDanglingEntry'
  BY <1>4, ClusterAssumption DEF LoginUpdateFails, Spend, TypeOK, Control,
     NoDanglingEntry, LoginPC, DeliverPC, LeavePC, Goto, ClusterAssumption
<1>5. ASSUME NEW c \in Conn, LoginInsert(c) PROVE NoDanglingEntry'
  BY <1>5, ClusterAssumption DEF LoginInsert, InsertEntry, TypeOK, Control,
     NoDanglingEntry, LoginPC, DeliverPC, LeavePC, Goto, ClusterAssumption
<1>6. ASSUME NEW c \in Conn, LoginSubscribe(c) PROVE NoDanglingEntry'
  BY <1>6, ClusterAssumption DEF LoginSubscribe, AppendCommand, Spend, TypeOK, Control,
     NoDanglingEntry, LoginPC, DeliverPC, LeavePC, Goto, ClusterAssumption
<1>7. ASSUME NEW c \in Conn, LoginRead(c) PROVE NoDanglingEntry'
  BY <1>7, ClusterAssumption DEF LoginRead, Spend, TypeOK, Control, NoDanglingEntry,
     LoginPC, DeliverPC, LeavePC, Goto, ClusterAssumption
<1>8. ASSUME NEW c \in Conn, LoginRemove(c) PROVE NoDanglingEntry'
  BY <1>8, ClusterAssumption DEF LoginRemove, Spend, TypeOK, Control, NoDanglingEntry,
     LoginPC, DeliverPC, LeavePC, Goto, ClusterAssumption
<1>9. ASSUME NEW c \in Conn, LoginAck(c) PROVE NoDanglingEntry'
  BY <1>9, ClusterAssumption DEF LoginAck, TypeOK, Control, NoDanglingEntry, LoginPC,
     DeliverPC, LeavePC, Goto, ClusterAssumption
<1>10. ASSUME NEW c \in Conn, NEW m \in Msg, NEW R \in (SUBSET User) \ {{}}, Chat(c, m, R)
       PROVE  NoDanglingEntry'
  BY <1>10, ClusterAssumption DEF Chat, TypeOK, Control, NoDanglingEntry, LoginPC,
     DeliverPC, LeavePC, Goto, ClusterAssumption
<1>11. ASSUME NEW c \in Conn, DeliverHere(c) PROVE NoDanglingEntry'
  BY <1>11, ClusterAssumption DEF DeliverHere, NextRecipient, OwnerAfter, Send, TypeOK,
     Control, NoDanglingEntry, LoginPC, DeliverPC, LeavePC, Goto, ClusterAssumption
<1>12. ASSUME NEW c \in Conn, DeliverElsewhere(c) PROVE NoDanglingEntry'
  BY <1>12, ClusterAssumption DEF DeliverElsewhere, TypeOK, Control, NoDanglingEntry,
     LoginPC, DeliverPC, LeavePC, Goto, ClusterAssumption
<1>13. ASSUME NEW c \in Conn, Lookup(c) PROVE NoDanglingEntry'
  BY <1>13, ClusterAssumption DEF Lookup, Spend, TypeOK, Control, NoDanglingEntry,
     LoginPC, DeliverPC, LeavePC, Goto, ClusterAssumption
<1>14. ASSUME NEW c \in Conn, Publish(c) PROVE NoDanglingEntry'
  BY <1>14, ClusterAssumption DEF Publish, Published, Spend, NextRecipient, OwnerAfter,
     TypeOK, Control,
     NoDanglingEntry, LoginPC, DeliverPC, LeavePC, Goto, ClusterAssumption
<1>15. ASSUME NEW c \in Conn, Store(c) PROVE NoDanglingEntry'
  BY <1>15, ClusterAssumption DEF Store, NextRecipient, OwnerAfter, StoreOffline, Spend,
     TypeOK, Control, NoDanglingEntry, LoginPC, DeliverPC, LeavePC, Goto, ClusterAssumption
<1>16. ASSUME NEW c \in Conn, Loginout(c) PROVE NoDanglingEntry'
  BY <1>16, ClusterAssumption DEF Loginout, EraseEntry, TypeOK, Control,
     NoDanglingEntry, LoginPC, DeliverPC, LeavePC, Goto, ClusterAssumption
<1>17. ASSUME NEW c \in Conn, Close(c) PROVE NoDanglingEntry'
  BY <1>17, ClusterAssumption DEF Close, TypeOK, Control, NoDanglingEntry, LoginPC,
     DeliverPC, LeavePC, Goto, ClusterAssumption
<1>18. ASSUME NEW c \in Conn, CloseErase(c) PROVE NoDanglingEntry'
  <2>1. \A e \in Conn \ {c} : pc'[e] = pc[e]
    BY <1>18 DEF CloseErase, TypeOK, Goto
  <2>2. UNCHANGED <<conn, session>>
    BY <1>18 DEF CloseErase
  <2> QED
    BY <1>18, <2>1, <2>2, CloseEraseEffect DEF TypeOK, NoDanglingEntry
<1>19. ASSUME NEW c \in Conn, Unsubscribe(c) PROVE NoDanglingEntry'
  BY <1>19, ClusterAssumption DEF Unsubscribe, AppendCommand, Channel, Left, Spend,
     TypeOK, Control, NoDanglingEntry, LoginPC, DeliverPC, LeavePC, Goto, ClusterAssumption
<1>20. ASSUME NEW c \in Conn, SetOffline(c) PROVE NoDanglingEntry'
  BY <1>20, ClusterAssumption DEF SetOffline, UpdateState, Left, Spend, TypeOK, Control,
     NoDanglingEntry, LoginPC, DeliverPC, LeavePC, Goto, ClusterAssumption
<1>21. ASSUME NEW s \in Server, Redis(s) PROVE NoDanglingEntry'
  BY <1>21, ClusterAssumption DEF Redis, TypeOK, Control, NoDanglingEntry, LoginPC,
     DeliverPC, LeavePC, Goto, ClusterAssumption
<1>22. ASSUME NEW s \in Server, Observe(s) PROVE NoDanglingEntry'
  BY <1>22, ClusterAssumption DEF Observe, Send, TypeOK, Control, NoDanglingEntry,
     LoginPC, DeliverPC, LeavePC, Goto, ClusterAssumption
<1>23. ASSUME NEW s \in Server, ObserveStore(s) PROVE NoDanglingEntry'
  BY <1>23, ClusterAssumption DEF ObserveStore, StoreOffline, Spend, TypeOK, Control,
     NoDanglingEntry, LoginPC, DeliverPC, LeavePC, Goto, ClusterAssumption
<1>24. ASSUME NEW s \in Server, Crash(s) PROVE NoDanglingEntry'
  BY <1>24, ClusterAssumption DEF Crash, Wipe, OnServer, Spend, TypeOK, Control,
     NoDanglingEntry, LoginPC, DeliverPC, LeavePC, Goto, ClusterAssumption
<1>25. ASSUME NEW s \in Server, Sigint(s) PROVE NoDanglingEntry'
  BY <1>25, ClusterAssumption DEF Sigint, Spend, TypeOK, Control, NoDanglingEntry,
     LoginPC, DeliverPC, LeavePC, Goto, ClusterAssumption
<1>26. ASSUME NEW s \in Server, Exit(s) PROVE NoDanglingEntry'
  BY <1>26, ClusterAssumption DEF Exit, Wipe, OnServer, TypeOK, Control,
     NoDanglingEntry, LoginPC, DeliverPC, LeavePC, Goto, ClusterAssumption
<1>27. ASSUME NEW s \in Server, LoseRedis(s) PROVE NoDanglingEntry'
  BY <1>27 DEF LoseRedis, NoDanglingEntry
<1>28. CASE UNCHANGED vars
  BY <1>28 DEF vars, TypeOK, Control, NoDanglingEntry, LoginPC, DeliverPC, LeavePC,
     Goto, ClusterAssumption
<1> QED
  BY <1>1, <1>2, <1>3, <1>4, <1>5, <1>6, <1>7, <1>8, <1>9, <1>10, <1>11, <1>12, <1>13,
     <1>14, <1>15, <1>16, <1>17, <1>18, <1>19, <1>20, <1>21, <1>22, <1>23, <1>24, <1>25,
     <1>26, <1>27, <1>28, RecipientsType DEF Next, ClientStep, HandlerStep, ObserverStep

\* Each step leaves what was found absent under _mutex absent until it is
\* released.
LEMMA AbsenceStep ==
  ASSUME TypeOK, Control, NoDanglingEntry, AbsenceHolds, [Next]_vars
  PROVE  AbsenceHolds'
<1>1. ASSUME NEW c \in Conn, Connect(c) PROVE AbsenceHolds'
  BY <1>1, ClusterAssumption DEF Connect, TypeOK, Control, AbsenceHolds, LoginPC,
     DeliverPC, LeavePC, Goto, ClusterAssumption
<1>2. ASSUME NEW c \in Conn, NEW u \in User, LoginQuery(c, u) PROVE AbsenceHolds'
  BY <1>2, ClusterAssumption DEF LoginQuery, Spend, TypeOK, Control, AbsenceHolds,
     LoginPC, DeliverPC, LeavePC, Goto, ClusterAssumption
<1>3. ASSUME NEW c \in Conn, LoginUpdate(c) PROVE AbsenceHolds'
  BY <1>3, ClusterAssumption DEF LoginUpdate, UpdateState, TypeOK, Control,
     AbsenceHolds, LoginPC, DeliverPC, LeavePC, Goto, ClusterAssumption
<1>4. ASSUME NEW c \in Conn, LoginUpdateFails(c) PROVE AbsenceHolds'
  BY <1>4, ClusterAssumption DEF LoginUpdateFails, Spend, TypeOK, Control, AbsenceHolds,
     LoginPC, DeliverPC, LeavePC, Goto, ClusterAssumption
<1>5. ASSUME NEW c \in Conn, LoginInsert(c) PROVE AbsenceHolds'
  <2> DEFINE s == ServerOf[c]
  <2>1. s \in Server /\ mutex[s] = NoConn /\ UNCHANGED <<mutex, inbound, uid>>
    BY <1>5, ClusterAssumption DEF LoginInsert, LockFree, ClusterAssumption
  <2>2. \A t \in Server \ {s} : userConnMap'[t] = userConnMap[t]
    BY <1>5 DEF LoginInsert, TypeOK
  <2>3. \A e \in Conn : pc[e] \in {"lookup", "publish", "store"} => ServerOf[e] \in Server \ {s}
    BY <2>1, ClusterAssumption DEF AbsenceHolds, ClusterAssumption
  <2>4. \A e \in Conn : pc'[e] \in {"lookup", "publish", "store"} => pc'[e] = pc[e]
    BY <1>5 DEF LoginInsert, Goto, TypeOK
  <2> QED
    BY <2>1, <2>2, <2>3, <2>4, ClusterAssumption DEF AbsenceHolds, ClusterAssumption
<1>6. ASSUME NEW c \in Conn, LoginSubscribe(c) PROVE AbsenceHolds'
  BY <1>6, ClusterAssumption DEF LoginSubscribe, AppendCommand, Spend, TypeOK, Control,
     AbsenceHolds, LoginPC, DeliverPC, LeavePC, Goto, ClusterAssumption
<1>7. ASSUME NEW c \in Conn, LoginRead(c) PROVE AbsenceHolds'
  BY <1>7, ClusterAssumption DEF LoginRead, Spend, TypeOK, Control, AbsenceHolds,
     LoginPC, DeliverPC, LeavePC, Goto, ClusterAssumption
<1>8. ASSUME NEW c \in Conn, LoginRemove(c) PROVE AbsenceHolds'
  BY <1>8, ClusterAssumption DEF LoginRemove, Spend, TypeOK, Control, AbsenceHolds,
     LoginPC, DeliverPC, LeavePC, Goto, ClusterAssumption
<1>9. ASSUME NEW c \in Conn, LoginAck(c) PROVE AbsenceHolds'
  BY <1>9, ClusterAssumption DEF LoginAck, TypeOK, Control, AbsenceHolds, LoginPC,
     DeliverPC, LeavePC, Goto, ClusterAssumption
<1>10. ASSUME NEW c \in Conn, NEW m \in Msg, NEW R \in (SUBSET User) \ {{}}, Chat(c, m, R)
       PROVE  AbsenceHolds'
  <2>1. UNCHANGED <<userConnMap, mutex, inbound, uid>>
    BY <1>10 DEF Chat
  <2>2. \A e \in Conn : pc'[e] = pc[e] \/ pc'[e] = "deliver"
    BY <1>10 DEF Chat, Goto, TypeOK
  <2> QED
    BY <2>1, <2>2 DEF AbsenceHolds
<1>11. ASSUME NEW c \in Conn, DeliverHere(c) PROVE AbsenceHolds'
  <2> DEFINE s == ServerOf[c]
  <2>1. s \in Server /\ mutex[s] \in {NoConn, c} /\ UNCHANGED inbound
    BY <1>11, ClusterAssumption DEF DeliverHere, ClusterAssumption
  <2>2. PICK u \in todo[c] : NextRecipient(c, u)
    BY <1>11 DEF DeliverHere
  <2>3. /\ mutex' = [mutex EXCEPT ![s] = OwnerAfter(c, u)] /\ OwnerAfter(c, u) # Observer
        /\ UNCHANGED userConnMap
    BY <2>2, ClusterAssumption DEF NextRecipient, OwnerAfter, ClusterAssumption
  <2>4. \A e \in Conn \ {c} : pc[e] \in {"lookup", "publish", "store"} =>
                ServerOf[e] \in Server \ {s}
    BY <2>1, ClusterAssumption DEF AbsenceHolds, ClusterAssumption
  <2>5. /\ pc'[c] \notin {"lookup", "publish", "store"}
        /\ \A e \in Conn \ {c} : pc'[e] = pc[e] /\ uid'[e] = uid[e]
    BY <2>2 DEF NextRecipient, Goto, TypeOK
  <2>6. \A t \in Server : mutex'[t] = mutex[t] \/ (t = s /\ mutex'[t] # Observer)
    BY <2>3 DEF TypeOK
  <2> HIDE DEF s
  <2> QED
    BY <2>1, <2>3, <2>4, <2>5, <2>6 DEF AbsenceHolds
<1>12. ASSUME NEW c \in Conn, DeliverElsewhere(c) PROVE AbsenceHolds'
  <2> DEFINE s == ServerOf[c]
  <2>1. s \in Server /\ mutex[s] \in {NoConn, c} /\ UNCHANGED <<userConnMap, inbound>>
    BY <1>12, ClusterAssumption DEF DeliverElsewhere, ClusterAssumption
  <2>2. mutex' = [mutex EXCEPT ![s] = c] /\ pc' = [pc EXCEPT ![c] = "lookup"]
    BY <1>12 DEF DeliverElsewhere, Goto
  <2>3. PICK u \in todo[c] : userConnMap[s][u] = NoConn /\ uid' = [uid EXCEPT ![c] = u]
    BY <1>12 DEF DeliverElsewhere
  <2>4. \A e \in Conn \ {c} : pc[e] \in {"lookup", "publish", "store"} =>
                ServerOf[e] \in Server \ {s}
    BY <2>1, ClusterAssumption DEF AbsenceHolds, ClusterAssumption
  <2> QED
    BY <2>1, <2>2, <2>3, <2>4, ClusterAssumption DEF AbsenceHolds, TypeOK,
       ClusterAssumption
<1>13. ASSUME NEW c \in Conn, Lookup(c) PROVE AbsenceHolds'
  BY <1>13, ClusterAssumption DEF Lookup, Spend, TypeOK, Control, AbsenceHolds, LoginPC,
     DeliverPC, LeavePC, Goto, ClusterAssumption
<1>14. ASSUME NEW c \in Conn, Publish(c) PROVE AbsenceHolds'
  <2> DEFINE s == ServerOf[c]
  <2>1. s \in Server /\ mutex[s] = c /\ UNCHANGED userConnMap
    BY <1>14, ClusterAssumption DEF Publish, Published, Spend, NextRecipient, AbsenceHolds,
       ClusterAssumption
  <2>2. mutex' = [mutex EXCEPT ![s] = OwnerAfter(c, uid[c])] /\ OwnerAfter(c, uid[c]) # Observer
    BY <1>14, ClusterAssumption DEF Publish, Published, Spend, NextRecipient, OwnerAfter, ClusterAssumption
  <2>3. \A e \in Conn \ {c} : pc[e] \in {"lookup", "publish", "store"} =>
                ServerOf[e] \in Server \ {s}
    BY <2>1, ClusterAssumption DEF AbsenceHolds, ClusterAssumption
  <2>4. /\ pc'[c] \notin {"lookup", "publish", "store"}
        /\ \A e \in Conn \ {c} : pc'[e] = pc[e] /\ uid'[e] = uid[e]
    BY <1>14 DEF Publish, Published, Spend, NextRecipient, Goto, TypeOK
  <2>5. \A t \in Server : inbound[t] # <<>> =>
          inbound'[t] # <<>> /\ Head(inbound'[t]) = Head(inbound[t])
    <3> SUFFICES ASSUME NEW t \in Server, inbound[t] # <<>>
                 PROVE  inbound'[t] # <<>> /\ Head(inbound'[t]) = Head(inbound[t])
      OBVIOUS
    <3>1. inbound[t] \in Seq(User \X Msg)
      BY DEF TypeOK
    <3>2. inbound'[t] = inbound[t] \/ inbound'[t] = Append(inbound[t], <<uid[c], msg[c]>>)
      BY <1>14 DEF Publish, Published
    <3> QED
      BY <3>1, <3>2
  <2>6. ASSUME NEW e \in Conn, pc'[e] \in {"lookup", "publish", "store"}
        PROVE  mutex'[ServerOf[e]] = e /\ userConnMap'[ServerOf[e]][uid'[e]] = NoConn
    <3>1. e # c /\ pc[e] = pc'[e] /\ uid'[e] = uid[e]
      BY <2>4, <2>6
    <3>2. mutex[ServerOf[e]] = e /\ userConnMap[ServerOf[e]][uid[e]] = NoConn
      BY <2>6, <3>1 DEF AbsenceHolds
    <3>3. mutex'[ServerOf[e]] = mutex[ServerOf[e]]
      BY <2>2, <2>3, <2>6, <3>1 DEF TypeOK
    <3> QED
      BY <2>1, <3>1, <3>2, <3>3
  <2>7. ASSUME NEW t \in Server, mutex'[t] = Observer
        PROVE  inbound'[t] # <<>> /\ userConnMap'[t][Head(inbound'[t])[1]] = NoConn
    <3>1. mutex[t] = Observer
      BY <2>1, <2>2, <2>7 DEF TypeOK
    <3> QED
      BY <2>1, <2>5, <3>1 DEF AbsenceHolds
  <2> QED
    BY <2>6, <2>7 DEF AbsenceHolds
<1>15. ASSUME NEW c \in Conn, Store(c) PROVE AbsenceHolds'
  <2> DEFINE s == ServerOf[c]
  <2>1. s \in Server /\ mutex[s] = c /\ UNCHANGED <<userConnMap, inbound>>
    BY <1>15, ClusterAssumption DEF Store, NextRecipient, AbsenceHolds, ClusterAssumption
  <2>2. mutex' = [mutex EXCEPT ![s] = OwnerAfter(c, uid[c])] /\ OwnerAfter(c, uid[c]) # Observer
    BY <1>15, ClusterAssumption DEF Store, NextRecipient, OwnerAfter, ClusterAssumption
  <2>3. \A e \in Conn \ {c} : pc[e] \in {"lookup", "publish", "store"} =>
                ServerOf[e] \in Server \ {s}
    BY <2>1, ClusterAssumption DEF AbsenceHolds, ClusterAssumption
  <2>4. /\ pc'[c] \notin {"lookup", "publish", "store"}
        /\ \A e \in Conn \ {c} : pc'[e] = pc[e] /\ uid'[e] = uid[e]
    BY <1>15 DEF Store, NextRecipient, Goto, TypeOK
  <2>5. \A t \in Server : mutex'[t] = mutex[t] \/ (t = s /\ mutex'[t] # Observer)
    BY <2>2 DEF TypeOK
  <2> HIDE DEF s
  <2> QED
    BY <2>1, <2>3, <2>4, <2>5 DEF AbsenceHolds
<1>16. ASSUME NEW c \in Conn, Loginout(c) PROVE AbsenceHolds'
  <2> DEFINE s == ServerOf[c]
  <2>1. s \in Server /\ mutex[s] = NoConn /\ UNCHANGED <<mutex, inbound>>
    BY <1>16, ClusterAssumption DEF Loginout, LockFree, ClusterAssumption
  <2>2. \A t \in Server \ {s} : userConnMap'[t] = userConnMap[t]
    BY <1>16 DEF Loginout, TypeOK
  <2>3. \A e \in Conn : pc[e] \in {"lookup", "publish", "store"} => ServerOf[e] \in Server \ {s}
    BY <2>1, ClusterAssumption DEF AbsenceHolds, ClusterAssumption
  <2>4. \A e \in Conn : pc'[e] \in {"lookup", "publish", "store"} =>
          pc'[e] = pc[e] /\ uid'[e] = uid[e]
    BY <1>16 DEF Loginout, Goto, TypeOK
  <2>5. mutex[s] # Observer
    BY <2>1, ClusterAssumption DEF ClusterAssumption
  <2> HIDE DEF s
  <2> QED
    BY <2>1, <2>2, <2>3, <2>4, <2>5 DEF AbsenceHolds
<1>17. ASSUME NEW c \in Conn, Close(c) PROVE AbsenceHolds'
  BY <1>17, ClusterAssumption DEF Close, TypeOK, Control, AbsenceHolds, LoginPC,
     DeliverPC, LeavePC, Goto, ClusterAssumption
<1>18. ASSUME NEW c \in Conn, CloseErase(c) PROVE AbsenceHolds'
  <2>1. \A t \in Server, v \in User : userConnMap'[t][v] \in {userConnMap[t][v], NoConn}
    BY <1>18, CloseEraseEffect
  <2>2. \A e \in Conn : pc'[e] \in {"lookup", "publish", "store"} =>
          pc'[e] = pc[e] /\ uid'[e] = uid[e]
    BY <1>18 DEF CloseErase, TypeOK, Goto
  <2>3. \A e \in Conn : pc[e] \in {"lookup", "publish", "store"} => uid[e] \in User
    BY DEF Control, TypeOK
  <2>4. \A t \in Server : inbound[t] # <<>> => Head(inbound[t])[1] \in User
    BY DEF TypeOK
  <2>5. UNCHANGED <<mutex, inbound>> /\ \A e \in Conn : ServerOf[e] \in Server
    BY <1>18, ClusterAssumption DEF CloseErase, ClusterAssumption
  <2> QED
    BY <2>1, <2>2, <2>3, <2>4, <2>5 DEF AbsenceHolds
<1>19. ASSUME NEW c \in Conn, Unsubscribe(c) PROVE AbsenceHolds'
  BY <1>19, ClusterAssumption DEF Unsubscribe, AppendCommand, Channel, Left, Spend,
     TypeOK, Control, AbsenceHolds, LoginPC, DeliverPC, LeavePC, Goto, ClusterAssumption
<1>20. ASSUME NEW c \in Conn, SetOffline(c) PROVE AbsenceHolds'
  BY <1>20, ClusterAssumption DEF SetOffline, UpdateState, Left, Spend, TypeOK, Control,
     AbsenceHolds, LoginPC, DeliverPC, LeavePC, Goto, ClusterAssumption
<1>21. ASSUME NEW s \in Server, Redis(s) PROVE AbsenceHolds'
  BY <1>21, ClusterAssumption DEF Redis, TypeOK, Control, AbsenceHolds, LoginPC,
     DeliverPC, LeavePC, Goto, ClusterAssumption
<1>22. ASSUME NEW s \in Server, Observe(s) PROVE AbsenceHolds'
  <2>1. mutex[s] = NoConn /\ inbound[s] # <<>> /\ UNCHANGED <<userConnMap, pc, uid>>
    BY <1>22 DEF Observe, LockFree
  <2>2. \A e \in Conn : pc[e] \in {"lookup", "publish", "store"} => ServerOf[e] \in Server \ {s}
    BY <2>1, ClusterAssumption DEF AbsenceHolds, ClusterAssumption
  <2>3. \A t \in Server \ {s} : mutex'[t] = mutex[t] /\ inbound'[t] = inbound[t]
    BY <1>22 DEF Observe, TypeOK
  <2>4. mutex'[s] = Observer =>
                inbound'[s] = inbound[s] /\ userConnMap[s][Head(inbound[s])[1]] = NoConn
    BY <1>22, <2>1, ClusterAssumption DEF Observe, TypeOK, ClusterAssumption
  <2> QED
    BY <2>1, <2>2, <2>3, <2>4 DEF AbsenceHolds
<1>23. ASSUME NEW s \in Server, ObserveStore(s) PROVE AbsenceHolds'
  BY <1>23, ClusterAssumption DEF ObserveStore, StoreOffline, Spend, TypeOK, Control,
     AbsenceHolds, LoginPC, DeliverPC, LeavePC, Goto, ClusterAssumption
<1>24. ASSUME NEW s \in Server, Crash(s) PROVE AbsenceHolds'
  BY <1>24, ClusterAssumption DEF Crash, Wipe, OnServer, Spend, TypeOK, Control,
     AbsenceHolds, LoginPC, DeliverPC, LeavePC, Goto, ClusterAssumption
<1>25. ASSUME NEW s \in Server, Sigint(s) PROVE AbsenceHolds'
  BY <1>25, ClusterAssumption DEF Sigint, Spend, TypeOK, Control, AbsenceHolds, LoginPC,
     DeliverPC, LeavePC, Goto, ClusterAssumption
<1>26. ASSUME NEW s \in Server, Exit(s) PROVE AbsenceHolds'
  BY <1>26, ClusterAssumption DEF Exit, Wipe, OnServer, TypeOK, Control, AbsenceHolds,
     LoginPC, DeliverPC, LeavePC, Goto, ClusterAssumption
<1>27. ASSUME NEW s \in Server, LoseRedis(s) PROVE AbsenceHolds'
  <2>1. PICK k \in 0 .. Len(inbound[s]) : /\ mutex[s] = Observer => k > 0
                                         /\ inbound' = [inbound EXCEPT ![s] = SubSeq(inbound[s], 1, k)]
    BY <1>27 DEF LoseRedis
  <2>2. inbound[s] \in Seq(User \X Msg)
    BY DEF TypeOK
  <2>3. k > 0 => SubSeq(inbound[s], 1, k) # <<>> /\ Head(SubSeq(inbound[s], 1, k)) = Head(inbound[s])
    <3> DEFINE q == SubSeq(inbound[s], 1, k)
    <3> SUFFICES ASSUME k > 0 PROVE q # <<>> /\ Head(q) = Head(inbound[s])
      OBVIOUS
    <3>1. q \in Seq(User \X Msg) /\ Len(q) = k /\ q[1] = inbound[s][1]
      BY <2>1, <2>2
    <3>2. inbound[s] # <<>>
      BY <2>1, <2>2
    <3> HIDE DEF q
    <3> QED
      BY <2>1, <2>2, <3>1, <3>2
  <2>4. \A t \in Server : mutex[t] = Observer =>
          inbound'[t] # <<>> /\ Head(inbound'[t]) = Head(inbound[t])
    BY <2>1, <2>3 DEF TypeOK, AbsenceHolds
  <2>5. UNCHANGED <<mutex, userConnMap, pc, uid>>
    BY <1>27 DEF LoseRedis
  <2> QED
    BY <2>4, <2>5 DEF AbsenceHolds
<1>28. CASE UNCHANGED vars
  BY <1>28 DEF vars, TypeOK, Control, AbsenceHolds, LoginPC, DeliverPC, LeavePC, Goto,
     ClusterAssumption
<1> QED
  BY <1>1, <1>2, <1>3, <1>4, <1>5, <1>6, <1>7, <1>8, <1>9, <1>10, <1>11, <1>12, <1>13,
     <1>14, <1>15, <1>16, <1>17, <1>18, <1>19, <1>20, <1>21, <1>22, <1>23, <1>24, <1>25,
     <1>26, <1>27, <1>28, RecipientsType DEF Next, ClientStep, HandlerStep, ObserverStep

\* Each step leaves every message on its way where it is addressed to.
LEMMA ProvenanceStep ==
  ASSUME TypeOK, Control, NoDanglingEntry, AbsenceHolds, Provenance, [Next]_vars
  PROVE  Provenance'
<1>1. ASSUME NEW c \in Conn, Connect(c) PROVE Provenance'
  BY <1>1, ClusterAssumption DEF Connect, TypeOK, Control, Provenance, AbsenceHolds,
     LoginPC, DeliverPC, LeavePC, Goto, ClusterAssumption
<1>2. ASSUME NEW c \in Conn, NEW u \in User, LoginQuery(c, u) PROVE Provenance'
  <2>1. vec[c] = {}
    BY <1>2 DEF LoginQuery, Control, TypeOK
  <2>2. \A e \in Conn \ {c} : session'[e] = session[e] /\ pc'[e] = pc[e]
    BY <1>2 DEF LoginQuery, Goto, TypeOK
  <2>3. pc'[c] \notin DeliverPC /\ UNCHANGED <<vec, todo, msg, addressed, offlineMsg, inbound>>
    BY <1>2 DEF LoginQuery, Goto, TypeOK, DeliverPC
  <2> QED
    BY <2>1, <2>2, <2>3 DEF Provenance
<1>3. ASSUME NEW c \in Conn, LoginUpdate(c) PROVE Provenance'
  BY <1>3, ClusterAssumption DEF LoginUpdate, UpdateState, TypeOK, Control, Provenance,
     AbsenceHolds, LoginPC, DeliverPC, LeavePC, Goto, ClusterAssumption
<1>4. ASSUME NEW c \in Conn, LoginUpdateFails(c) PROVE Provenance'
  <2>1. vec[c] = {}
    BY <1>4 DEF LoginUpdateFails, Control, TypeOK
  <2>2. \A e \in Conn \ {c} : session'[e] = session[e] /\ pc'[e] = pc[e]
    BY <1>4 DEF LoginUpdateFails, Goto, TypeOK
  <2>3. pc'[c] \notin DeliverPC /\ UNCHANGED <<vec, todo, msg, addressed, offlineMsg, inbound>>
    BY <1>4 DEF LoginUpdateFails, Goto, TypeOK, DeliverPC
  <2> QED
    BY <2>1, <2>2, <2>3 DEF Provenance
<1>5. ASSUME NEW c \in Conn, LoginInsert(c) PROVE Provenance'
  BY <1>5, ClusterAssumption DEF LoginInsert, InsertEntry, TypeOK, Control, Provenance,
     AbsenceHolds, LoginPC, DeliverPC, LeavePC, Goto, ClusterAssumption
<1>6. ASSUME NEW c \in Conn, LoginSubscribe(c) PROVE Provenance'
  BY <1>6, ClusterAssumption DEF LoginSubscribe, AppendCommand, Spend, TypeOK, Control,
     Provenance, AbsenceHolds, LoginPC, DeliverPC, LeavePC, Goto, ClusterAssumption
<1>7. ASSUME NEW c \in Conn, LoginRead(c) PROVE Provenance'
  BY <1>7, ClusterAssumption DEF LoginRead, Spend, TypeOK, Control, Provenance,
     AbsenceHolds, LoginPC, DeliverPC, LeavePC, Goto, ClusterAssumption
<1>8. ASSUME NEW c \in Conn, LoginRemove(c) PROVE Provenance'
  <2>1. \A u \in User : offlineMsg'[u] \subseteq offlineMsg[u]
    BY <1>8 DEF LoginRemove, TypeOK
  <2>2. pc'[c] \notin DeliverPC /\ \A e \in Conn \ {c} : pc'[e] = pc[e]
    BY <1>8 DEF LoginRemove, Goto, TypeOK, DeliverPC
  <2>3. UNCHANGED <<session, vec, todo, msg, addressed, inbound>>
    BY <1>8 DEF LoginRemove
  <2> QED
    BY <2>1, <2>2, <2>3 DEF Provenance
<1>9. ASSUME NEW c \in Conn, LoginAck(c) PROVE Provenance'
  BY <1>9, ClusterAssumption DEF LoginAck, TypeOK, Control, Provenance, AbsenceHolds,
     LoginPC, DeliverPC, LeavePC, Goto, ClusterAssumption
<1>10. ASSUME NEW c \in Conn, NEW m \in Msg, NEW R \in (SUBSET User) \ {{}}, Chat(c, m, R)
       PROVE  Provenance'
  BY <1>10, ClusterAssumption DEF Chat, TypeOK, Control, Provenance, AbsenceHolds,
     LoginPC, DeliverPC, LeavePC, Goto, ClusterAssumption
<1>11. ASSUME NEW c \in Conn, DeliverHere(c) PROVE Provenance'
  BY <1>11, ClusterAssumption DEF DeliverHere, NextRecipient, OwnerAfter, Send, TypeOK,
     Control, Provenance, AbsenceHolds, LoginPC, DeliverPC, LeavePC, Goto,
     ClusterAssumption
<1>12. ASSUME NEW c \in Conn, DeliverElsewhere(c) PROVE Provenance'
  BY <1>12, ClusterAssumption DEF DeliverElsewhere, TypeOK, Control, Provenance,
     AbsenceHolds, LoginPC, DeliverPC, LeavePC, Goto, ClusterAssumption
<1>13. ASSUME NEW c \in Conn, Lookup(c) PROVE Provenance'
  BY <1>13, ClusterAssumption DEF Lookup, Spend, TypeOK, Control, Provenance,
     AbsenceHolds, LoginPC, DeliverPC, LeavePC, Goto, ClusterAssumption
<1>14. ASSUME NEW c \in Conn, Publish(c) PROVE Provenance'
  <2> DEFINE r == <<uid[c], msg[c]>>
  <2>1. uid[c] \in User /\ uid[c] \in addressed[msg[c]]
    BY <1>14 DEF Publish, Control, TypeOK, Provenance, DeliverPC
  <2>2. \A e \in Conn : /\ pc'[e] \in DeliverPC => pc[e] \in DeliverPC /\ msg'[e] = msg[e]
                        /\ todo'[e] \subseteq todo[e]
    BY <1>14 DEF Publish, NextRecipient, Goto, TypeOK, DeliverPC
  <2>3. UNCHANGED <<session, vec, addressed, offlineMsg>>
    BY <1>14 DEF Publish, NextRecipient
  <2>4. \A t \in Server : inbound'[t] = inbound[t] \/ inbound'[t] = Append(inbound[t], r)
    BY <1>14 DEF Publish, Published
  <2>5. ASSUME NEW t \in Server, NEW i \in DOMAIN inbound'[t]
        PROVE  inbound'[t][i] = r \/ (i \in DOMAIN inbound[t] /\ inbound'[t][i] = inbound[t][i])
    <3>1. inbound[t] \in Seq(User \X Msg)
      BY DEF TypeOK
    <3> HIDE DEF r
    <3>2. CASE inbound'[t] = Append(inbound[t], r)
      BY <2>5, <3>1, <3>2
    <3> QED
      BY <2>4, <2>5, <3>2
  <2>6. r[1] \in addressed[r[2]]
    BY <2>1
  <2> HIDE DEF r
  <2> QED
    BY <2>2, <2>3, <2>5, <2>6 DEF Provenance
<1>15. ASSUME NEW c \in Conn, Store(c) PROVE Provenance'
  <2>1. uid[c] \in User /\ uid[c] \in addressed[msg[c]]
    BY <1>15 DEF Store, Control, TypeOK, Provenance, DeliverPC
  <2>2. \A u \in User : offlineMsg'[u] \subseteq offlineMsg[u] \cup {m \in {msg[c]} : u = uid[c]}
    BY <1>15 DEF Store, StoreOffline, TypeOK
  <2>3. \A e \in Conn : /\ pc'[e] \in DeliverPC => pc[e] \in DeliverPC /\ msg'[e] = msg[e]
                        /\ todo'[e] \subseteq todo[e]
    BY <1>15 DEF Store, NextRecipient, Goto, TypeOK, DeliverPC
  <2>4. UNCHANGED <<session, vec, addressed, inbound>>
    BY <1>15 DEF Store, NextRecipient
  <2> QED
    BY <2>1, <2>2, <2>3, <2>4 DEF Provenance
<1>16. ASSUME NEW c \in Conn, Loginout(c) PROVE Provenance'
  BY <1>16, ClusterAssumption DEF Loginout, EraseEntry, TypeOK, Control, Provenance,
     AbsenceHolds, LoginPC, DeliverPC, LeavePC, Goto, ClusterAssumption
<1>17. ASSUME NEW c \in Conn, Close(c) PROVE Provenance'
  BY <1>17, ClusterAssumption DEF Close, TypeOK, Control, Provenance, AbsenceHolds,
     LoginPC, DeliverPC, LeavePC, Goto, ClusterAssumption
<1>18. ASSUME NEW c \in Conn, CloseErase(c) PROVE Provenance'
  BY <1>18, ClusterAssumption DEF CloseErase, EraseEntry, TypeOK, Control, Provenance,
     AbsenceHolds, LoginPC, DeliverPC, LeavePC, Goto, ClusterAssumption
<1>19. ASSUME NEW c \in Conn, Unsubscribe(c) PROVE Provenance'
  <2>1. vec[c] = {}
    BY <1>19 DEF Unsubscribe, Control, TypeOK
  <2>2. \A e \in Conn \ {c} : session'[e] = session[e] /\ pc'[e] = pc[e]
    BY <1>19 DEF Unsubscribe, Left, Goto, TypeOK
  <2>3. pc'[c] \notin DeliverPC /\ UNCHANGED <<vec, todo, msg, addressed, offlineMsg, inbound>>
    BY <1>19 DEF Unsubscribe, Left, Goto, TypeOK, DeliverPC
  <2> QED
    BY <2>1, <2>2, <2>3 DEF Provenance
<1>20. ASSUME NEW c \in Conn, SetOffline(c) PROVE Provenance'
  <2>1. vec[c] = {}
    BY <1>20 DEF SetOffline, Control, TypeOK
  <2>2. \A e \in Conn \ {c} : session'[e] = session[e] /\ pc'[e] = pc[e]
    BY <1>20 DEF SetOffline, Left, Goto, TypeOK
  <2>3. pc'[c] \notin DeliverPC /\ UNCHANGED <<vec, todo, msg, addressed, offlineMsg, inbound>>
    BY <1>20 DEF SetOffline, Left, Goto, TypeOK, DeliverPC
  <2> QED
    BY <2>1, <2>2, <2>3 DEF Provenance
<1>21. ASSUME NEW s \in Server, Redis(s) PROVE Provenance'
  BY <1>21, ClusterAssumption DEF Redis, TypeOK, Control, Provenance, AbsenceHolds,
     LoginPC, DeliverPC, LeavePC, Goto, ClusterAssumption
<1>22. ASSUME NEW s \in Server, Observe(s) PROVE Provenance'
  <2>1. inbound[s] \in Seq(User \X Msg) /\ inbound[s] # <<>>
    BY <1>22 DEF Observe, TypeOK
  <2>2. PICK q : /\ inbound' = inbound \/ inbound' = [inbound EXCEPT ![s] = q]
                 /\ \A i \in DOMAIN q : \E j \in DOMAIN inbound[s] : q[i] = inbound[s][j]
    <3>1. \A i \in DOMAIN Tail(inbound[s]) :
            \E j \in DOMAIN inbound[s] : Tail(inbound[s])[i] = inbound[s][j]
      BY <2>1, TailPart
    <3>2. inbound' = inbound \/ inbound' = [inbound EXCEPT ![s] = Tail(inbound[s])]
      BY <1>22 DEF Observe
    <3> QED
      BY <3>1, <3>2, Zenon
  <2>3. \A t \in Server : \A i \in DOMAIN inbound'[t] : \E j \in DOMAIN inbound[t] :
          inbound'[t][i] = inbound[t][j]
    BY <2>2 DEF TypeOK
  <2>4. UNCHANGED <<session, pc, vec, todo, msg, addressed, offlineMsg>>
    BY <1>22 DEF Observe
  <2> QED
    BY <2>3, <2>4 DEF Provenance
<1>23. ASSUME NEW s \in Server, ObserveStore(s) PROVE Provenance'
  <2> DEFINE p == Head(inbound[s])
  <2>1. inbound[s] \in Seq(User \X Msg) /\ inbound[s] # <<>>
    BY <1>23 DEF ObserveStore, TypeOK, AbsenceHolds
  <2>2. p[1] \in User /\ p[1] \in addressed[p[2]]
    BY <2>1 DEF Provenance
  <2>3. \A u \in User : offlineMsg'[u] \subseteq offlineMsg[u] \cup {m \in {p[2]} : u = p[1]}
    BY <1>23 DEF ObserveStore, StoreOffline, TypeOK
  <2>4. \A t \in Server : \A i \in DOMAIN inbound'[t] : \E j \in DOMAIN inbound[t] :
          inbound'[t][i] = inbound[t][j]
    <3>1. \A i \in DOMAIN Tail(inbound[s]) : \E j \in DOMAIN inbound[s] :
            Tail(inbound[s])[i] = inbound[s][j]
      BY <2>1, TailPart
    <3>2. inbound' = [inbound EXCEPT ![s] = Tail(inbound[s])]
      BY <1>23 DEF ObserveStore
    <3> QED
      BY <3>1, <3>2 DEF TypeOK
  <2>5. UNCHANGED <<session, pc, vec, todo, msg, addressed>>
    BY <1>23 DEF ObserveStore
  <2> HIDE DEF p
  <2> QED
    BY <2>2, <2>3, <2>4, <2>5 DEF Provenance
<1>24. ASSUME NEW s \in Server, Crash(s) PROVE Provenance'
  BY <1>24, ClusterAssumption DEF Crash, Wipe, OnServer, Spend, TypeOK, Control,
     Provenance, AbsenceHolds, LoginPC, DeliverPC, LeavePC, Goto, ClusterAssumption
<1>25. ASSUME NEW s \in Server, Sigint(s) PROVE Provenance'
  BY <1>25, ClusterAssumption DEF Sigint, Spend, TypeOK, Control, Provenance,
     AbsenceHolds, LoginPC, DeliverPC, LeavePC, Goto, ClusterAssumption
<1>26. ASSUME NEW s \in Server, Exit(s) PROVE Provenance'
  BY <1>26, ClusterAssumption DEF Exit, Wipe, OnServer, TypeOK, Control, Provenance,
     AbsenceHolds, LoginPC, DeliverPC, LeavePC, Goto, ClusterAssumption
<1>27. ASSUME NEW s \in Server, LoseRedis(s) PROVE Provenance'
  <2>1. inbound[s] \in Seq(User \X Msg)
    BY DEF TypeOK
  <2>2. PICK k \in 0 .. Len(inbound[s]) : inbound' = [inbound EXCEPT ![s] = SubSeq(inbound[s], 1, k)]
    BY <1>27 DEF LoseRedis
  <2>3. \A i \in DOMAIN SubSeq(inbound[s], 1, k) :
          i \in DOMAIN inbound[s] /\ SubSeq(inbound[s], 1, k)[i] = inbound[s][i]
    BY <2>1, <2>2
  <2>4. \A t \in Server : \A i \in DOMAIN inbound'[t] :
          i \in DOMAIN inbound[t] /\ inbound'[t][i] = inbound[t][i]
    BY <2>2, <2>3 DEF TypeOK
  <2>5. UNCHANGED <<session, pc, vec, todo, msg, addressed, offlineMsg>>
    BY <1>27 DEF LoseRedis
  <2> QED
    BY <2>4, <2>5 DEF Provenance
<1>28. CASE UNCHANGED vars
  BY <1>28 DEF vars, TypeOK, Control, Provenance, AbsenceHolds, LoginPC, DeliverPC,
     LeavePC, Goto, ClusterAssumption
<1> QED
  BY <1>1, <1>2, <1>3, <1>4, <1>5, <1>6, <1>7, <1>8, <1>9, <1>10, <1>11, <1>12, <1>13,
     <1>14, <1>15, <1>16, <1>17, <1>18, <1>19, <1>20, <1>21, <1>22, <1>23, <1>24, <1>25,
     <1>26, <1>27, <1>28, RecipientsType DEF Next, ClientStep, HandlerStep, ObserverStep

\* Each step sends clients only what is addressed to their account.
LEMMA SentStep ==
  ASSUME TypeOK, Control, NoDanglingEntry, AbsenceHolds, Provenance, NoMisdelivery, [Next]_vars
  PROVE  NoMisdelivery'
<1>1. ASSUME NEW c \in Conn, Connect(c) PROVE NoMisdelivery'
  BY <1>1 DEF Connect, NoMisdelivery
<1>2. ASSUME NEW c \in Conn, NEW u \in User, LoginQuery(c, u) PROVE NoMisdelivery'
  BY <1>2 DEF LoginQuery, LeaveBehind, NoMisdelivery
<1>3. ASSUME NEW c \in Conn, LoginUpdate(c) PROVE NoMisdelivery'
  BY <1>3 DEF LoginUpdate, NoMisdelivery
<1>4. ASSUME NEW c \in Conn, LoginUpdateFails(c) PROVE NoMisdelivery'
  BY <1>4 DEF LoginUpdateFails, NoMisdelivery
<1>5. ASSUME NEW c \in Conn, LoginInsert(c) PROVE NoMisdelivery'
  BY <1>5 DEF LoginInsert, NoMisdelivery
<1>6. ASSUME NEW c \in Conn, LoginSubscribe(c) PROVE NoMisdelivery'
  BY <1>6 DEF LoginSubscribe, AppendCommand, NoMisdelivery
<1>7. ASSUME NEW c \in Conn, LoginRead(c) PROVE NoMisdelivery'
  BY <1>7 DEF LoginRead, NoMisdelivery
<1>8. ASSUME NEW c \in Conn, LoginRemove(c) PROVE NoMisdelivery'
  BY <1>8 DEF LoginRemove, NoMisdelivery
<1>9. ASSUME NEW c \in Conn, LoginAck(c) PROVE NoMisdelivery'
  <2>1. sent' = Answered(session[c], vec[c]) /\ UNCHANGED <<addressed, stray>>
    BY <1>9 DEF LoginAck
  <2>2. \A m \in vec[c] : session[c] \in addressed[m]
    BY DEF Provenance
  <2>3. \A p \in sent' : p \in sent \/ \E m \in vec[c] : p = <<session[c], session[c], m>>
    BY <2>1, AnsweredRows
  <2> QED
    BY <2>1, <2>2, <2>3 DEF NoMisdelivery
<1>10. ASSUME NEW c \in Conn, NEW m \in Msg, NEW R \in (SUBSET User) \ {{}}, Chat(c, m, R)
       PROVE  NoMisdelivery'
  <2>1. UNCHANGED <<sent, stray>> /\ addressed[m] = {}
        /\ \A k \in Msg \ {m} : addressed'[k] = addressed[k]
    BY <1>10 DEF Chat, TypeOK
  <2>2. \A p \in sent : p[3] \in Msg
    BY DEF TypeOK
  <2> QED
    BY <2>1, <2>2 DEF NoMisdelivery
<1>11. ASSUME NEW c \in Conn, DeliverHere(c) PROVE NoMisdelivery'
  <2> DEFINE s == ServerOf[c]
  <2>1. PICK u \in todo[c] : userConnMap[s][u] # NoConn /\ Send(userConnMap[s][u], u, msg[c])
    BY <1>11 DEF DeliverHere
  <2>2. s \in Server /\ u \in User /\ pc[c] = "deliver" /\ UNCHANGED <<addressed, stray>>
    <3>1. s \in Server /\ u \in User
      BY ClusterAssumption DEF TypeOK, ClusterAssumption
    <3> QED
      BY <1>11, <3>1 DEF DeliverHere, NextRecipient
  <2>3. session[userConnMap[s][u]] = u \/ u \in stray
    BY <2>1, <2>2 DEF NoDanglingEntry
  <2>4. msg[c] \in Msg /\ u \in addressed[msg[c]]
    BY <2>1, <2>2 DEF Control, Provenance, DeliverPC
  <2>5. \A p \in sent' : p \in sent \/ p = <<session[userConnMap[s][u]], u, msg[c]>>
    BY <2>1 DEF Send
  <2> HIDE DEF s
  <2> QED
    BY <2>2, <2>3, <2>4, <2>5 DEF NoMisdelivery
<1>12. ASSUME NEW c \in Conn, DeliverElsewhere(c) PROVE NoMisdelivery'
  BY <1>12 DEF DeliverElsewhere, NoMisdelivery
<1>13. ASSUME NEW c \in Conn, Lookup(c) PROVE NoMisdelivery'
  BY <1>13 DEF Lookup, NoMisdelivery
<1>14. ASSUME NEW c \in Conn, Publish(c) PROVE NoMisdelivery'
  BY <1>14 DEF Publish, Published, Spend, NextRecipient, NoMisdelivery
<1>15. ASSUME NEW c \in Conn, Store(c) PROVE NoMisdelivery'
  BY <1>15 DEF Store, NextRecipient, NoMisdelivery
<1>16. ASSUME NEW c \in Conn, Loginout(c) PROVE NoMisdelivery'
  BY <1>16 DEF Loginout, NoMisdelivery
<1>17. ASSUME NEW c \in Conn, Close(c) PROVE NoMisdelivery'
  BY <1>17 DEF Close, NoMisdelivery
<1>18. ASSUME NEW c \in Conn, CloseErase(c) PROVE NoMisdelivery'
  BY <1>18, CloseEraseEffect DEF CloseErase, NoMisdelivery
<1>19. ASSUME NEW c \in Conn, Unsubscribe(c) PROVE NoMisdelivery'
  BY <1>19 DEF Unsubscribe, AppendCommand, NoMisdelivery
<1>20. ASSUME NEW c \in Conn, SetOffline(c) PROVE NoMisdelivery'
  BY <1>20 DEF SetOffline, NoMisdelivery
<1>21. ASSUME NEW s \in Server, Redis(s) PROVE NoMisdelivery'
  BY <1>21 DEF Redis, NoMisdelivery
<1>22. ASSUME NEW s \in Server, Observe(s) PROVE NoMisdelivery'
  <2> DEFINE u == Head(inbound[s])[1]  m == Head(inbound[s])[2]
  <2>1. UNCHANGED <<addressed, stray>> /\ (UNCHANGED sent \/ (userConnMap[s][u] # NoConn /\ Send(userConnMap[s][u], u, m)))
    BY <1>22 DEF Observe
  <2>2. inbound[s] \in Seq(User \X Msg) /\ inbound[s] # <<>>
    BY <1>22 DEF Observe, TypeOK
  <2>3. 1 \in DOMAIN inbound[s] /\ Head(inbound[s]) = inbound[s][1]
    BY <2>2
  <2>4. u \in User /\ m \in Msg
    BY <2>2, <2>3
  <2>5. u \in addressed[m]
    BY <2>3 DEF Provenance
  <2>6. userConnMap[s][u] # NoConn => session[userConnMap[s][u]] = u \/ u \in stray
    BY <2>4 DEF NoDanglingEntry
  <2> HIDE DEF u, m
  <2>7. \A p \in sent' : p \in sent \/ (p = <<session[userConnMap[s][u]], u, m>> /\ userConnMap[s][u] # NoConn)
    BY <2>1 DEF Send
  <2> QED
    BY <2>1, <2>5, <2>6, <2>7 DEF NoMisdelivery
<1>23. ASSUME NEW s \in Server, ObserveStore(s) PROVE NoMisdelivery'
  BY <1>23 DEF ObserveStore, NoMisdelivery
<1>24. ASSUME NEW s \in Server, Crash(s) PROVE NoMisdelivery'
  BY <1>24 DEF Crash, Wipe, NoMisdelivery
<1>25. ASSUME NEW s \in Server, Sigint(s) PROVE NoMisdelivery'
  BY <1>25 DEF Sigint, NoMisdelivery
<1>26. ASSUME NEW s \in Server, Exit(s) PROVE NoMisdelivery'
  BY <1>26 DEF Exit, Wipe, NoMisdelivery
<1>27. ASSUME NEW s \in Server, LoseRedis(s) PROVE NoMisdelivery'
  BY <1>27 DEF LoseRedis, NoMisdelivery
<1>28. CASE UNCHANGED vars
  BY <1>28 DEF vars, TypeOK, Control, NoDanglingEntry, Provenance, NoMisdelivery,
     LoginPC, DeliverPC, LeavePC, Goto, ClusterAssumption
<1> QED
  BY <1>1, <1>2, <1>3, <1>4, <1>5, <1>6, <1>7, <1>8, <1>9, <1>10, <1>11, <1>12, <1>13,
     <1>14, <1>15, <1>16, <1>17, <1>18, <1>19, <1>20, <1>21, <1>22, <1>23, <1>24, <1>25,
     <1>26, <1>27, <1>28, RecipientsType DEF Next, ClientStep, HandlerStep, ObserverStep

-----------------------------------------------------------------------------
\* What the end of an iteration of the delivery loop leaves of the handler's work.
LEMMA NextEffect ==
  ASSUME TypeOK, NEW c \in Conn, NEW u, NextRecipient(c, u)
  PROVE  /\ todo'[c] = todo[c] \ {u} /\ msg'[c] \in {msg[c], NoMsg}
         /\ msg'[c] # msg[c] => todo'[c] = {}
         /\ \A d \in Conn \ {c} : todo'[d] = todo[d] /\ msg'[d] = msg[d]
BY DEF NextRecipient, TypeOK

\* Copies survives a step that gives no handler a message or a recipient and
\* leaves of what is before each observer one end.
LEMMA FewerCopies ==
  ASSUME TypeOK, Copies,
         \A c \in Conn : msg'[c] \in {msg[c], NoMsg} /\ todo'[c] \subseteq todo[c]
                       /\ (msg'[c] # msg[c] => todo'[c] = {}),
         \A s \in Server : \E k \in Nat : \A i \in DOMAIN inbound'[s] :
           i \in Nat /\ i + k \in DOMAIN inbound[s] /\ inbound'[s][i] = inbound[s][i + k]
  PROVE  Copies'
<1>1. \A c \in Conn : Handled(c)' \subseteq Handled(c)
  BY DEF Handled
<1>2. \A c, d \in Conn : msg'[c] = msg'[d] /\ msg'[c] # NoMsg => c = d
  BY DEF Copies
<1>3. ASSUME NEW s \in Server, NEW i \in DOMAIN inbound'[s]
      PROVE  /\ \A j \in DOMAIN inbound'[s] : inbound'[s][i] = inbound'[s][j] => i = j
             /\ \A c \in Conn : inbound'[s][i] \notin Handled(c)'
  <2>1. PICK k \in Nat : \A j \in DOMAIN inbound'[s] :
          j \in Nat /\ j + k \in DOMAIN inbound[s] /\ inbound'[s][j] = inbound[s][j + k]
    OBVIOUS
  <2>2. \A j \in DOMAIN inbound'[s] : inbound'[s][i] = inbound'[s][j] => i + k = j + k
    BY <2>1 DEF Copies
  <2>3. \A c \in Conn : inbound'[s][i] \notin Handled(c)
    BY <2>1 DEF Copies
  <2> QED
    BY <1>1, <2>1, <2>2, <2>3
<1> QED
  BY <1>2, <1>3 DEF Copies

\* Copies survives what leaves the handlers' messages and the observers' alone.
LEMMA SameCopies ==
  ASSUME Copies, UNCHANGED <<todo, msg, inbound>>
  PROVE  Copies'
BY DEF Copies, Handled

\* Each step handles a message once.
LEMMA CopiesStep ==
  ASSUME TypeOK, Control, AbsenceHolds, Provenance, Copies, [Next]_vars
  PROVE  Copies'
<1>1. \A s \in Server : inbound[s] \in Seq(User \X Msg)
  BY DEF TypeOK
<1>2. \A s \in Server : \A i \in DOMAIN inbound[s] : i \in Nat /\ i + 0 = i
  BY <1>1
<1>3. ASSUME NEW c \in Conn, DeliverHere(c) \/ Store(c) PROVE Copies'
  <2>1. PICK u : NextRecipient(c, u)
    BY <1>3 DEF DeliverHere, Store
  <2>2. UNCHANGED inbound
    BY <1>3 DEF DeliverHere, Store
  <2>3. \A d \in Conn : msg'[d] \in {msg[d], NoMsg} /\ todo'[d] \subseteq todo[d]
                       /\ (msg'[d] # msg[d] => todo'[d] = {})
    BY <2>1, NextEffect
  <2> QED
    BY <1>2, <2>2, <2>3, FewerCopies
<1>4. ASSUME NEW c \in Conn, Publish(c) PROVE Copies'
  <2>1. PICK u : u = uid[c] /\ NextRecipient(c, u)
    BY <1>4 DEF Publish
  <2>2. u \in todo[c] /\ u \in User /\ msg[c] \in Msg
    BY <1>4, <2>1 DEF Publish, Control, DeliverPC, TypeOK
  <2>3. PICK p : p = <<u, msg[c]>> /\ p \in Handled(c)
    <3>1. <<u, msg[c]>> \in todo[c] \X {msg[c]}
      BY <2>2
    <3> QED
      BY <3>1 DEF Handled
  <2>4. /\ todo'[c] = todo[c] \ {u} /\ msg'[c] \in {msg[c], NoMsg}
        /\ msg'[c] # msg[c] => todo'[c] = {}
        /\ \A d \in Conn \ {c} : todo'[d] = todo[d] /\ msg'[d] = msg[d]
    BY <2>1, NextEffect
  <2>5. \A d \in Conn : Handled(d)' \subseteq Handled(d)
    BY <2>4 DEF Handled
  <2>6. \A d \in Conn : p \notin Handled(d)'
    <3> SUFFICES ASSUME NEW d \in Conn, p \in Handled(d)' PROVE FALSE
      OBVIOUS
    <3>1. u \in todo'[d] /\ msg'[d] = msg[c]
      BY <2>3 DEF Handled
    <3>2. d # c
      BY <2>4, <3>1
    <3>3. msg[d] = msg[c] /\ msg[c] # NoMsg
      BY <2>2, <2>4, <3>1, <3>2, ClusterAssumption DEF ClusterAssumption
    <3> QED
      BY <3>2, <3>3 DEF Copies
  <2>7. \A a, b \in Conn : msg'[a] = msg'[b] /\ msg'[a] # NoMsg => a = b
    BY <2>4 DEF Copies
  <2>8. ASSUME NEW s \in Server
        PROVE  inbound'[s] = inbound[s] \/ inbound'[s] = Append(inbound[s], p)
    <3>1. CASE inbound' = Published(u, msg[c])
      BY <2>3, <3>1 DEF Published
    <3> QED
      BY <1>4, <2>1, <3>1 DEF Publish
  <2>9. ASSUME NEW s \in Server, NEW i \in DOMAIN inbound'[s]
        PROVE  /\ \A j \in DOMAIN inbound'[s] : inbound'[s][i] = inbound'[s][j] => i = j
               /\ \A d \in Conn : inbound'[s][i] \notin Handled(d)'
    <3>1. CASE inbound'[s] = inbound[s]
      BY <2>5, <3>1 DEF Copies
    <3>2. CASE inbound'[s] = Append(inbound[s], p)
      <4>1. PICK n \in Nat : n = Len(inbound[s]) /\ DOMAIN inbound[s] = 1 .. n
        BY <1>1
      <4>2. /\ DOMAIN inbound'[s] = 1 .. n + 1 /\ inbound'[s][n + 1] = p
            /\ \A j \in 1 .. n : inbound'[s][j] = inbound[s][j]
        BY <1>1, <3>2, <4>1
      <4>3. \A j \in 1 .. n : inbound[s][j] # p
        BY <2>3, <4>1 DEF Copies
      <4>4. \A j \in 1 .. n, k \in 1 .. n : inbound[s][j] = inbound[s][k] => j = k
        BY <4>1 DEF Copies
      <4>5. \A j \in 1 .. n, d \in Conn : inbound[s][j] \notin Handled(d)'
        BY <2>5, <4>1 DEF Copies
      <4>6. i \in 1 .. n \/ i = n + 1
        BY <4>2
      <4>7. \A j \in DOMAIN inbound'[s] : j \in 1 .. n \/ j = n + 1
        BY <4>2
      <4> QED
        BY <2>6, <4>2, <4>3, <4>4, <4>5, <4>6, <4>7
    <3> QED
      BY <2>8, <3>1, <3>2
  <2> QED
    BY <2>7, <2>9 DEF Copies
<1>5. ASSUME NEW c \in Conn, NEW m \in Msg, NEW R \in (SUBSET User) \ {{}}, Chat(c, m, R)
      PROVE  Copies'
  <2>1. /\ addressed[m] = {} /\ UNCHANGED inbound
        /\ todo'[c] = R /\ msg'[c] = m
        /\ \A d \in Conn \ {c} : todo'[d] = todo[d] /\ msg'[d] = msg[d]
    BY <1>5 DEF Chat, TypeOK
  <2>2. \A d \in Conn : msg[d] # m
    <3> SUFFICES ASSUME NEW d \in Conn, msg[d] = m PROVE FALSE
      OBVIOUS
    <3>1. pc[d] \in DeliverPC /\ todo[d] # {}
      BY ClusterAssumption DEF Control, ClusterAssumption
    <3> QED
      BY <2>1, <3>1 DEF Provenance
  <2>3. \A s \in Server : \A i \in DOMAIN inbound[s] : inbound[s][i][2] # m
    BY <2>1 DEF Provenance
  <2>4. \A p \in Handled(c)' : p[2] = m
    BY <2>1 DEF Handled
  <2>5. \A d \in Conn \ {c} : Handled(d)' = Handled(d)
    BY <2>1 DEF Handled
  <2>6. \A a, b \in Conn : msg'[a] = msg'[b] /\ msg'[a] # NoMsg => a = b
    BY <2>1, <2>2 DEF Copies
  <2> QED
    BY <2>1, <2>3, <2>4, <2>5, <2>6 DEF Copies
<1>6. ASSUME NEW s \in Server, Observe(s) \/ ObserveStore(s) PROVE Copies'
  <2>1. UNCHANGED <<todo, msg>> /\ (inbound' = inbound \/ inbound' = [inbound EXCEPT ![s] = Tail(@)])
    BY <1>6 DEF Observe, ObserveStore
  <2>2. inbound[s] # <<>>
    BY <1>6 DEF Observe, ObserveStore, AbsenceHolds
  <2>3. \A i \in DOMAIN Tail(inbound[s]) :
          i \in Nat /\ i + 1 \in DOMAIN inbound[s] /\ Tail(inbound[s])[i] = inbound[s][i + 1]
    BY <1>1, <2>2
  <2>4. ASSUME NEW t \in Server
        PROVE  \E k \in Nat : \A i \in DOMAIN inbound'[t] :
                 i \in Nat /\ i + k \in DOMAIN inbound[t] /\ inbound'[t][i] = inbound[t][i + k]
    <3>1. inbound'[t] = inbound[t] \/ (t = s /\ inbound'[t] = Tail(inbound[s]))
      BY <2>1 DEF TypeOK
    <3> QED
      BY <1>2, <2>3, <3>1
  <2>5. \A d \in Conn : msg'[d] \in {msg[d], NoMsg} /\ todo'[d] \subseteq todo[d]
                       /\ (msg'[d] # msg[d] => todo'[d] = {})
    BY <2>1
  <2> QED
    BY <2>4, <2>5, FewerCopies
<1>7. ASSUME NEW s \in Server, LoseRedis(s) PROVE Copies'
  <2>1. PICK n \in 0 .. Len(inbound[s]) : inbound' = [inbound EXCEPT ![s] = SubSeq(inbound[s], 1, n)]
    BY <1>7 DEF LoseRedis
  <2>2. \A i \in DOMAIN SubSeq(inbound[s], 1, n) :
          i \in DOMAIN inbound[s] /\ SubSeq(inbound[s], 1, n)[i] = inbound[s][i]
    BY <1>1, <2>1
  <2>3. \A t \in Server : \A i \in DOMAIN inbound'[t] :
          i \in DOMAIN inbound[t] /\ inbound'[t][i] = inbound[t][i]
    BY <2>1, <2>2 DEF TypeOK
  <2>4. \A d \in Conn : msg'[d] \in {msg[d], NoMsg} /\ todo'[d] \subseteq todo[d]
                       /\ (msg'[d] # msg[d] => todo'[d] = {})
    BY <1>7 DEF LoseRedis
  <2>5. \A t \in Server : \A i \in DOMAIN inbound'[t] :
          i \in Nat /\ i + 0 \in DOMAIN inbound[t] /\ inbound'[t][i] = inbound[t][i + 0]
    BY <1>2, <2>3
  <2> QED
    BY <2>4, <2>5, FewerCopies
<1>8. ASSUME NEW s \in Server, Wipe(s) PROVE Copies'
  <2>1. \A t \in Server : inbound'[t] = inbound[t] \/ inbound'[t] = <<>>
    BY <1>8 DEF Wipe, TypeOK
  <2>2. \A d \in Conn : msg'[d] \in {msg[d], NoMsg} /\ todo'[d] \subseteq todo[d]
                       /\ (msg'[d] # msg[d] => todo'[d] = {})
    BY <1>8 DEF Wipe, OnServer
  <2>3. \A t \in Server : \A i \in DOMAIN inbound'[t] :
          i \in Nat /\ i + 0 \in DOMAIN inbound[t] /\ inbound'[t][i] = inbound[t][i + 0]
    BY <1>2, <2>1
  <2> QED
    BY <2>2, <2>3, FewerCopies
<1>9. ASSUME NEW c \in Conn,
             \/ Connect(c) \/ Loginout(c) \/ Close(c)
             \/ (\E u \in User : LoginQuery(c, u))
             \/ LoginUpdate(c) \/ LoginUpdateFails(c) \/ LoginInsert(c) \/ LoginSubscribe(c)
             \/ LoginRead(c) \/ LoginRemove(c) \/ LoginAck(c)
             \/ DeliverElsewhere(c) \/ Lookup(c)
             \/ CloseErase(c) \/ Unsubscribe(c) \/ SetOffline(c)
      PROVE  UNCHANGED <<todo, msg, inbound>>
  BY <1>9 DEF Connect, Loginout, Close, LoginQuery, LoginUpdate, LoginUpdateFails, LoginInsert,
     LoginSubscribe, LoginRead, LoginRemove, LoginAck, DeliverElsewhere, Lookup, CloseErase,
     Unsubscribe, SetOffline
<1>10. ASSUME NEW s \in Server, Redis(s) \/ Sigint(s) PROVE UNCHANGED <<todo, msg, inbound>>
  BY <1>10 DEF Redis, Sigint
<1>11. CASE UNCHANGED vars
  BY <1>11, SameCopies DEF vars
<1> QED
  BY <1>3, <1>4, <1>5, <1>6, <1>7, <1>8, <1>9, <1>10, <1>11, SameCopies, RecipientsType
     DEF Next, ClientStep, HandlerStep, ObserverStep, Crash, Exit

\* Each step counts among the damaged accounts those it leaves behind.
LEMMA StrayStep ==
  ASSUME TypeOK, NoDanglingEntry, StrayIsRaced, [Next]_vars
  PROVE  StrayIsRaced'
<1>1. ASSUME NEW c \in Conn, CloseErase(c) PROVE StrayIsRaced'
  BY <1>1, CloseEraseEffect DEF StrayIsRaced
<1>2. ASSUME NEW c \in Conn, NEW u \in User, LoginQuery(c, u) PROVE StrayIsRaced'
  BY <1>2 DEF LoginQuery, LeaveBehind, StrayIsRaced
<1>3. ASSUME NEW c \in Conn,
             \/ Connect(c) \/ Loginout(c) \/ Close(c)
             \/ (\E m \in Msg, R \in Recipients : Chat(c, m, R))
             \/ LoginUpdateFails(c) \/ LoginInsert(c) \/ LoginRead(c) \/ LoginRemove(c)
             \/ LoginAck(c) \/ DeliverHere(c) \/ DeliverElsewhere(c) \/ Lookup(c)
             \/ Publish(c) \/ Store(c) \/ SetOffline(c)
      PROVE  UNCHANGED <<raced, stray>>
  BY <1>3 DEF Connect, Loginout, Close, Chat, LoginUpdateFails, LoginInsert, LoginRead,
     LoginRemove, LoginAck, DeliverHere, DeliverElsewhere, Lookup, Publish, Store, SetOffline,
     NextRecipient
<1>4. ASSUME NEW c \in Conn, LoginUpdate(c) \/ LoginSubscribe(c) \/ Unsubscribe(c)
      PROVE  raced \subseteq raced' /\ UNCHANGED stray
  BY <1>4 DEF LoginUpdate, LoginSubscribe, Unsubscribe, AppendCommand
<1>5. ASSUME NEW s \in Server,
             \/ Redis(s) \/ Observe(s) \/ ObserveStore(s) \/ LoseRedis(s) \/ Crash(s)
             \/ Sigint(s) \/ Exit(s)
      PROVE  raced \subseteq raced' /\ UNCHANGED stray
  BY <1>5 DEF Redis, Observe, ObserveStore, LoseRedis, Crash, Sigint, Exit, Wipe
<1>6. CASE UNCHANGED vars
  BY <1>6 DEF vars, StrayIsRaced
<1> QED
  BY <1>1, <1>2, <1>3, <1>4, <1>5, <1>6
     DEF Next, ClientStep, HandlerStep, ObserverStep, StrayIsRaced

-----------------------------------------------------------------------------
\* The first half of SingleSession.
OneHolder == \A u \in User \ raced : \A c, d \in Holders(u) : c = d

\* Each step leaves the flag of an undamaged account up while it is used.
LEMMA FlagStep ==
  ASSUME TypeOK, Control, FlagIsLock, OneHolder, StrayIsRaced, [Next]_vars
  PROVE  FlagIsLock'
<1>1. ASSUME NEW c \in Conn, Connect(c) PROVE FlagIsLock'
  BY <1>1 DEF Connect, TypeOK, Control, FlagIsLock, Holders, LoginPC, DeliverPC,
     LeavePC, Goto
<1>2. ASSUME NEW c \in Conn, NEW u \in User, LoginQuery(c, u) PROVE FlagIsLock'
  <2>1. \A v \in User : Holders(v)' \subseteq Holders(v)
    BY <1>2 DEF LoginQuery, Holders, Goto, TypeOK
  <2>2. userState' = userState /\ raced \subseteq raced'
    BY <1>2 DEF LoginQuery, LeaveBehind
  <2> QED
    BY <2>1, <2>2 DEF FlagIsLock
<1>3. ASSUME NEW c \in Conn, LoginUpdate(c) PROVE FlagIsLock'
  BY <1>3 DEF LoginUpdate, UpdateState, TypeOK, Control, FlagIsLock, Holders, LoginPC,
     DeliverPC, LeavePC, Goto
<1>4. ASSUME NEW c \in Conn, LoginUpdateFails(c) PROVE FlagIsLock'
  <2>1. \A u \in User : Holders(u)' \subseteq Holders(u)
    <3> SUFFICES ASSUME NEW u \in User, NEW e \in Conn, session'[e] = u, pc'[e] # "login_update"
                 PROVE  session[e] = u /\ pc[e] # "login_update"
      BY DEF Holders
    <3>1. session'[c] = NoUser /\ NoUser # u
      BY <1>4, ClusterAssumption DEF LoginUpdateFails, TypeOK, ClusterAssumption
    <3> QED
      BY <1>4, <3>1 DEF LoginUpdateFails, Goto, TypeOK
  <2>2. UNCHANGED <<userState, raced>>
    BY <1>4 DEF LoginUpdateFails
  <2> QED
    BY <2>1, <2>2 DEF FlagIsLock
<1>5. ASSUME NEW c \in Conn, LoginInsert(c) PROVE FlagIsLock'
  BY <1>5 DEF LoginInsert, InsertEntry, TypeOK, Control, FlagIsLock, Holders, LoginPC,
     DeliverPC, LeavePC, Goto
<1>6. ASSUME NEW c \in Conn, LoginSubscribe(c) PROVE FlagIsLock'
  BY <1>6 DEF LoginSubscribe, AppendCommand, Spend, TypeOK, Control, FlagIsLock,
     Holders, LoginPC, DeliverPC, LeavePC, Goto
<1>7. ASSUME NEW c \in Conn, LoginRead(c) PROVE FlagIsLock'
  BY <1>7 DEF LoginRead, Spend, TypeOK, Control, FlagIsLock, Holders, LoginPC,
     DeliverPC, LeavePC, Goto
<1>8. ASSUME NEW c \in Conn, LoginRemove(c) PROVE FlagIsLock'
  BY <1>8 DEF LoginRemove, Spend, TypeOK, Control, FlagIsLock, Holders, LoginPC,
     DeliverPC, LeavePC, Goto
<1>9. ASSUME NEW c \in Conn, LoginAck(c) PROVE FlagIsLock'
  BY <1>9 DEF LoginAck, TypeOK, Control, FlagIsLock, Holders, LoginPC, DeliverPC,
     LeavePC, Goto
<1>10. ASSUME NEW c \in Conn, NEW m \in Msg, NEW R \in (SUBSET User) \ {{}}, Chat(c, m, R)
       PROVE  FlagIsLock'
  BY <1>10 DEF Chat, TypeOK, Control, FlagIsLock, Holders, LoginPC, DeliverPC, LeavePC,
     Goto
<1>11. ASSUME NEW c \in Conn, DeliverHere(c) PROVE FlagIsLock'
  BY <1>11 DEF DeliverHere, NextRecipient, OwnerAfter, Send, TypeOK, Control,
     FlagIsLock, Holders, LoginPC, DeliverPC, LeavePC, Goto
<1>12. ASSUME NEW c \in Conn, DeliverElsewhere(c) PROVE FlagIsLock'
  BY <1>12 DEF DeliverElsewhere, TypeOK, Control, FlagIsLock, Holders, LoginPC,
     DeliverPC, LeavePC, Goto
<1>13. ASSUME NEW c \in Conn, Lookup(c) PROVE FlagIsLock'
  BY <1>13 DEF Lookup, Spend, TypeOK, Control, FlagIsLock, Holders, LoginPC, DeliverPC,
     LeavePC, Goto
<1>14. ASSUME NEW c \in Conn, Publish(c) PROVE FlagIsLock'
  BY <1>14 DEF Publish, Published, Spend, NextRecipient, OwnerAfter, TypeOK, Control, FlagIsLock, Holders,
     LoginPC, DeliverPC, LeavePC, Goto
<1>15. ASSUME NEW c \in Conn, Store(c) PROVE FlagIsLock'
  BY <1>15 DEF Store, NextRecipient, OwnerAfter, StoreOffline, Spend, TypeOK, Control,
     FlagIsLock, Holders, LoginPC, DeliverPC, LeavePC, Goto
<1>16. ASSUME NEW c \in Conn, Loginout(c) PROVE FlagIsLock'
  BY <1>16 DEF Loginout, EraseEntry, TypeOK, Control, FlagIsLock, Holders, LoginPC,
     DeliverPC, LeavePC, Goto
<1>17. ASSUME NEW c \in Conn, Close(c) PROVE FlagIsLock'
  BY <1>17 DEF Close, TypeOK, Control, FlagIsLock, Holders, LoginPC, DeliverPC, LeavePC,
     Goto
<1>18. ASSUME NEW c \in Conn, CloseErase(c) PROVE FlagIsLock'
  <2>1. \A v \in User : Holders(v)' \subseteq Holders(v)
    BY <1>18 DEF CloseErase, Holders, Goto, TypeOK
  <2>2. userState' = userState /\ raced \subseteq raced'
    BY <1>18 DEF CloseErase
  <2> QED
    BY <2>1, <2>2 DEF FlagIsLock
<1>19. ASSUME NEW c \in Conn, Unsubscribe(c) PROVE FlagIsLock'
  <2>1. \A e \in Conn : \/ session'[e] = NoUser
                        \/ session'[e] = session[e] /\ (pc[e] = "login_update" => pc'[e] = pc[e])
    BY <1>19 DEF Unsubscribe, Left, Goto, TypeOK
  <2>2. userState' = userState /\ raced \subseteq raced'
    BY <1>19 DEF Unsubscribe, Left, AppendCommand
  <2>3. \A u \in User : Holders(u)' \subseteq Holders(u)
    BY <2>1, ClusterAssumption DEF Holders, ClusterAssumption
  <2> QED
    BY <2>2, <2>3 DEF FlagIsLock
<1>20. ASSUME NEW c \in Conn, SetOffline(c) PROVE FlagIsLock'
  <2>1. PICK u \in User : u = uid[c] /\ (u \in raced \/ c \in Holders(u))
    BY <1>20, ClusterAssumption DEF SetOffline, Control, Holders, LeavePC, StrayIsRaced,
       ClusterAssumption
  <2>2. \A v \in User : Holders(v)' \subseteq Holders(v) \ {c}
    BY <1>20, ClusterAssumption DEF SetOffline, Left, Holders, Goto, TypeOK,
       ClusterAssumption
  <2>3. \A v \in User \ {u} : userState'[v] = userState[v]
    BY <1>20, <2>1 DEF SetOffline, UpdateState, TypeOK
  <2>4. raced' = raced
    BY <1>20 DEF SetOffline
  <2>5. u \in User \ raced => Holders(u)' = {}
    <3> SUFFICES ASSUME u \in User \ raced, NEW e \in Holders(u)' PROVE FALSE
      OBVIOUS
    <3>1. e \in Holders(u) /\ e # c
      BY <2>2
    <3> QED
      BY <2>1, <3>1 DEF OneHolder
  <2> QED
    BY <2>2, <2>3, <2>4, <2>5 DEF FlagIsLock
<1>21. ASSUME NEW s \in Server, Redis(s) PROVE FlagIsLock'
  BY <1>21 DEF Redis, TypeOK, Control, FlagIsLock, Holders, LoginPC, DeliverPC, LeavePC,
     Goto
<1>22. ASSUME NEW s \in Server, Observe(s) PROVE FlagIsLock'
  BY <1>22 DEF Observe, Send, TypeOK, Control, FlagIsLock, Holders, LoginPC, DeliverPC,
     LeavePC, Goto
<1>23. ASSUME NEW s \in Server, ObserveStore(s) PROVE FlagIsLock'
  BY <1>23 DEF ObserveStore, StoreOffline, Spend, TypeOK, Control, FlagIsLock, Holders,
     LoginPC, DeliverPC, LeavePC, Goto
<1>24. ASSUME NEW s \in Server, Crash(s) PROVE FlagIsLock'
  <2>1. \A e \in Conn : \/ session'[e] = NoUser
                        \/ session'[e] = session[e] /\ (pc[e] = "login_update" => pc'[e] = pc[e])
    BY <1>24 DEF Crash, Wipe, OnServer, Goto, TypeOK
  <2>2. userState' = userState /\ raced \subseteq raced'
    BY <1>24 DEF Crash, Wipe, OnServer
  <2>3. \A u \in User : Holders(u)' \subseteq Holders(u)
    BY <2>1, ClusterAssumption DEF Holders, ClusterAssumption
  <2> QED
    BY <2>2, <2>3 DEF FlagIsLock
<1>25. ASSUME NEW s \in Server, Sigint(s) PROVE FlagIsLock'
  BY <1>25 DEF Sigint, Spend, TypeOK, Control, FlagIsLock, Holders, LoginPC, DeliverPC,
     LeavePC, Goto
<1>26. ASSUME NEW s \in Server, Exit(s) PROVE FlagIsLock'
  <2>1. \A e \in Conn : \/ session'[e] = NoUser
                        \/ session'[e] = session[e] /\ (pc[e] = "login_update" => pc'[e] = pc[e])
    BY <1>26 DEF Exit, Wipe, OnServer, Goto, TypeOK
  <2>2. userState' = userState /\ raced \subseteq raced'
    BY <1>26 DEF Exit, Wipe, OnServer
  <2>3. \A u \in User : Holders(u)' \subseteq Holders(u)
    BY <2>1, ClusterAssumption DEF Holders, ClusterAssumption
  <2> QED
    BY <2>2, <2>3 DEF FlagIsLock
<1>27. ASSUME NEW s \in Server, LoseRedis(s) PROVE FlagIsLock'
  BY <1>27 DEF LoseRedis, FlagIsLock, Holders
<1>28. CASE UNCHANGED vars
  BY <1>28 DEF vars, TypeOK, Control, FlagIsLock, Holders, LoginPC, DeliverPC, LeavePC,
     Goto
<1> QED
  BY <1>1, <1>2, <1>3, <1>4, <1>5, <1>6, <1>7, <1>8, <1>9, <1>10, <1>11, <1>12, <1>13,
     <1>14, <1>15, <1>16, <1>17, <1>18, <1>19, <1>20, <1>21, <1>22, <1>23, <1>24, <1>25,
     <1>26, <1>27, <1>28, RecipientsType DEF Next, ClientStep, HandlerStep, ObserverStep

\* Each step leaves an undamaged account with one holder at most.
LEMMA HolderStep ==
  ASSUME TypeOK, Control, FlagIsLock, OneHolder, [Next]_vars
  PROVE  OneHolder'
<1>1. ASSUME NEW c \in Conn, Connect(c) PROVE OneHolder'
  BY <1>1, ClusterAssumption DEF Connect, TypeOK, Control, FlagIsLock, Holders, LoginPC,
     DeliverPC, LeavePC, Goto, OneHolder, ClusterAssumption
<1>2. ASSUME NEW c \in Conn, NEW u \in User, LoginQuery(c, u) PROVE OneHolder'
  <2>1. \A v \in User : Holders(v)' \subseteq Holders(v)
    BY <1>2 DEF LoginQuery, Holders, Goto, TypeOK
  <2>2. raced \subseteq raced'
    BY <1>2 DEF LoginQuery, LeaveBehind
  <2> QED
    BY <2>1, <2>2 DEF OneHolder
<1>3. ASSUME NEW c \in Conn, LoginUpdate(c) PROVE OneHolder'
  BY <1>3, ClusterAssumption DEF LoginUpdate, UpdateState, TypeOK, Control, FlagIsLock,
     Holders, LoginPC, DeliverPC, LeavePC, Goto, OneHolder, ClusterAssumption
<1>4. ASSUME NEW c \in Conn, LoginUpdateFails(c) PROVE OneHolder'
  BY <1>4, ClusterAssumption DEF LoginUpdateFails, Spend, TypeOK, Control, FlagIsLock,
     Holders, LoginPC, DeliverPC, LeavePC, Goto, OneHolder, ClusterAssumption
<1>5. ASSUME NEW c \in Conn, LoginInsert(c) PROVE OneHolder'
  BY <1>5, ClusterAssumption DEF LoginInsert, InsertEntry, TypeOK, Control, FlagIsLock,
     Holders, LoginPC, DeliverPC, LeavePC, Goto, OneHolder, ClusterAssumption
<1>6. ASSUME NEW c \in Conn, LoginSubscribe(c) PROVE OneHolder'
  BY <1>6, ClusterAssumption DEF LoginSubscribe, AppendCommand, Spend, TypeOK, Control,
     FlagIsLock, Holders, LoginPC, DeliverPC, LeavePC, Goto, OneHolder, ClusterAssumption
<1>7. ASSUME NEW c \in Conn, LoginRead(c) PROVE OneHolder'
  BY <1>7, ClusterAssumption DEF LoginRead, Spend, TypeOK, Control, FlagIsLock, Holders,
     LoginPC, DeliverPC, LeavePC, Goto, OneHolder, ClusterAssumption
<1>8. ASSUME NEW c \in Conn, LoginRemove(c) PROVE OneHolder'
  BY <1>8, ClusterAssumption DEF LoginRemove, Spend, TypeOK, Control, FlagIsLock,
     Holders, LoginPC, DeliverPC, LeavePC, Goto, OneHolder, ClusterAssumption
<1>9. ASSUME NEW c \in Conn, LoginAck(c) PROVE OneHolder'
  BY <1>9, ClusterAssumption DEF LoginAck, TypeOK, Control, FlagIsLock, Holders,
     LoginPC, DeliverPC, LeavePC, Goto, OneHolder, ClusterAssumption
<1>10. ASSUME NEW c \in Conn, NEW m \in Msg, NEW R \in (SUBSET User) \ {{}}, Chat(c, m, R)
       PROVE  OneHolder'
  BY <1>10, ClusterAssumption DEF Chat, TypeOK, Control, FlagIsLock, Holders, LoginPC,
     DeliverPC, LeavePC, Goto, OneHolder, ClusterAssumption
<1>11. ASSUME NEW c \in Conn, DeliverHere(c) PROVE OneHolder'
  BY <1>11, ClusterAssumption DEF DeliverHere, NextRecipient, OwnerAfter, Send, TypeOK,
     Control, FlagIsLock, Holders, LoginPC, DeliverPC, LeavePC, Goto, OneHolder,
     ClusterAssumption
<1>12. ASSUME NEW c \in Conn, DeliverElsewhere(c) PROVE OneHolder'
  BY <1>12, ClusterAssumption DEF DeliverElsewhere, TypeOK, Control, FlagIsLock,
     Holders, LoginPC, DeliverPC, LeavePC, Goto, OneHolder, ClusterAssumption
<1>13. ASSUME NEW c \in Conn, Lookup(c) PROVE OneHolder'
  <2>1. UNCHANGED <<session, raced>>
    BY <1>13 DEF Lookup
  <2>2. \A e \in Conn : pc[e] = "login_update" => pc'[e] = "login_update"
    BY <1>13 DEF Lookup, Goto, TypeOK
  <2> QED
    BY <2>1, <2>2 DEF OneHolder, Holders
<1>14. ASSUME NEW c \in Conn, Publish(c) PROVE OneHolder'
  BY <1>14, ClusterAssumption DEF Publish, Published, Spend, NextRecipient, OwnerAfter,
     TypeOK, Control,
     FlagIsLock, Holders, LoginPC, DeliverPC, LeavePC, Goto, OneHolder, ClusterAssumption
<1>15. ASSUME NEW c \in Conn, Store(c) PROVE OneHolder'
  BY <1>15, ClusterAssumption DEF Store, NextRecipient, OwnerAfter, StoreOffline, Spend,
     TypeOK, Control, FlagIsLock, Holders, LoginPC, DeliverPC, LeavePC, Goto, OneHolder,
     ClusterAssumption
<1>16. ASSUME NEW c \in Conn, Loginout(c) PROVE OneHolder'
  BY <1>16, ClusterAssumption DEF Loginout, EraseEntry, TypeOK, Control, FlagIsLock,
     Holders, LoginPC, DeliverPC, LeavePC, Goto, OneHolder, ClusterAssumption
<1>17. ASSUME NEW c \in Conn, Close(c) PROVE OneHolder'
  BY <1>17, ClusterAssumption DEF Close, TypeOK, Control, FlagIsLock, Holders, LoginPC,
     DeliverPC, LeavePC, Goto, OneHolder, ClusterAssumption
<1>18. ASSUME NEW c \in Conn, CloseErase(c) PROVE OneHolder'
  <2>1. \A v \in User : Holders(v)' \subseteq Holders(v)
    BY <1>18 DEF CloseErase, Holders, Goto, TypeOK
  <2>2. raced \subseteq raced'
    BY <1>18 DEF CloseErase
  <2> QED
    BY <2>1, <2>2 DEF OneHolder
<1>19. ASSUME NEW c \in Conn, Unsubscribe(c) PROVE OneHolder'
  <2>1. \A e \in Conn : \/ session'[e] = NoUser
                        \/ session'[e] = session[e] /\ (pc[e] = "login_update" => pc'[e] = pc[e])
    BY <1>19 DEF Unsubscribe, Left, Goto, TypeOK
  <2>2. raced \subseteq raced'
    BY <1>19 DEF Unsubscribe, AppendCommand
  <2>3. \A u \in User : Holders(u)' \subseteq Holders(u)
    BY <2>1, ClusterAssumption DEF Holders, ClusterAssumption
  <2> QED
    BY <2>2, <2>3 DEF OneHolder
<1>20. ASSUME NEW c \in Conn, SetOffline(c) PROVE OneHolder'
  BY <1>20, ClusterAssumption DEF SetOffline, UpdateState, Left, Spend, TypeOK, Control,
     FlagIsLock, Holders, LoginPC, DeliverPC, LeavePC, Goto, OneHolder, ClusterAssumption
<1>21. ASSUME NEW s \in Server, Redis(s) PROVE OneHolder'
  BY <1>21, ClusterAssumption DEF Redis, TypeOK, Control, FlagIsLock, Holders, LoginPC,
     DeliverPC, LeavePC, Goto, OneHolder, ClusterAssumption
<1>22. ASSUME NEW s \in Server, Observe(s) PROVE OneHolder'
  BY <1>22, ClusterAssumption DEF Observe, Send, TypeOK, Control, FlagIsLock, Holders,
     LoginPC, DeliverPC, LeavePC, Goto, OneHolder, ClusterAssumption
<1>23. ASSUME NEW s \in Server, ObserveStore(s) PROVE OneHolder'
  BY <1>23, ClusterAssumption DEF ObserveStore, StoreOffline, Spend, TypeOK, Control,
     FlagIsLock, Holders, LoginPC, DeliverPC, LeavePC, Goto, OneHolder, ClusterAssumption
<1>24. ASSUME NEW s \in Server, Crash(s) PROVE OneHolder'
  BY <1>24, ClusterAssumption DEF Crash, Wipe, OnServer, Spend, TypeOK, Control,
     FlagIsLock, Holders, LoginPC, DeliverPC, LeavePC, Goto, OneHolder, ClusterAssumption
<1>25. ASSUME NEW s \in Server, Sigint(s) PROVE OneHolder'
  BY <1>25, ClusterAssumption DEF Sigint, Spend, TypeOK, Control, FlagIsLock, Holders,
     LoginPC, DeliverPC, LeavePC, Goto, OneHolder, ClusterAssumption
<1>26. ASSUME NEW s \in Server, Exit(s) PROVE OneHolder'
  BY <1>26, ClusterAssumption DEF Exit, Wipe, OnServer, TypeOK, Control, FlagIsLock,
     Holders, LoginPC, DeliverPC, LeavePC, Goto, OneHolder, ClusterAssumption
<1>27. ASSUME NEW s \in Server, LoseRedis(s) PROVE OneHolder'
  BY <1>27 DEF LoseRedis, OneHolder, Holders
<1>28. CASE UNCHANGED vars
  BY <1>28 DEF vars, TypeOK, Control, FlagIsLock, Holders, LoginPC, DeliverPC, LeavePC,
     Goto, OneHolder, ClusterAssumption
<1> QED
  BY <1>1, <1>2, <1>3, <1>4, <1>5, <1>6, <1>7, <1>8, <1>9, <1>10, <1>11, <1>12, <1>13,
     <1>14, <1>15, <1>16, <1>17, <1>18, <1>19, <1>20, <1>21, <1>22, <1>23, <1>24, <1>25,
     <1>26, <1>27, <1>28, RecipientsType DEF Next, ClientStep, HandlerStep, ObserverStep

-----------------------------------------------------------------------------
(* Entries and subscriptions.  Most steps are quiet: they leave both alone *)
(* and move no holder of an undamaged account from one stage of its        *)
(* session to another.                                                     *)

Quiet ==
  /\ UNCHANGED <<userConnMap, pipe, subs, deaf>>
  /\ raced \subseteq raced'
  /\ \A u \in User \ raced' : Holders(u)' = Holders(u)
  /\ \A c \in Conn :
       \/ pc'[c] = pc[c] /\ uid'[c] = uid[c]
       \/ pc[c] \in EnteredPC /\ pc'[c] \in EnteredPC
       \/ \A u \in User \ raced' : c \notin Holders(u)

\* The connections that use an account are the same after a step that neither
\* changes a session nor brings one past login's UPDATE.
LEMMA SameHolders ==
  ASSUME NEW u \in User,
         \A c \in Conn : session'[c] = u /\ pc'[c] # "login_update" <=>
                           session[c] = u /\ pc[c] # "login_update"
  PROVE  Holders(u)' = Holders(u)
BY DEF Holders

\* A step of one handler inside a stage is quiet.
LEMMA QuietHandler ==
  ASSUME TypeOK, NEW c \in Conn, NEW l \in EnteredPC, Goto(c, l), pc[c] \in EnteredPC,
         UNCHANGED <<userConnMap, pipe, subs, deaf, session>>, raced \subseteq raced',
         \A e \in Conn \ {c} : uid'[e] = uid[e]
  PROVE  Quiet
<1>1. \A e \in Conn \ {c} : pc'[e] = pc[e]
  BY DEF Goto, TypeOK
<1>2. pc'[c] = l /\ pc[c] # "login_update" /\ l # "login_update"
  BY DEF Goto, TypeOK, EnteredPC, DeliverPC
<1>3. \A u \in User : Holders(u)' = Holders(u)
  BY <1>1, <1>2, SameHolders
<1> QED
  BY <1>1, <1>2, <1>3 DEF Quiet

\* A step that moves only a connection without an undamaged account past the
\* UPDATE, before and after, is quiet.
LEMMA QuietOutside ==
  ASSUME TypeOK, NEW c \in Conn,
         session[c] \in {NoUser} \cup raced' \/ pc[c] = "login_update",
         session'[c] = NoUser \/ pc'[c] = "login_update",
         \A e \in Conn \ {c} : session'[e] = session[e] /\ pc'[e] = pc[e] /\ uid'[e] = uid[e],
         UNCHANGED <<userConnMap, pipe, subs, deaf>>, raced \subseteq raced'
  PROVE  Quiet
<1>1. NoUser \notin User
  BY ClusterAssumption DEF ClusterAssumption
<1>2. \A u \in User \ raced' : Holders(u)' = Holders(u)
  BY <1>1, SameHolders
<1>3. \A u \in User \ raced' : c \notin Holders(u)
  BY <1>1 DEF Holders
<1> QED
  BY <1>2, <1>3 DEF Quiet

\* The steps that are not quiet.
Loud ==
  \/ \E c \in Conn :
       \/ LoginUpdate(c) \/ LoginInsert(c) \/ LoginSubscribe(c)
       \/ Loginout(c) \/ CloseErase(c) \/ Unsubscribe(c) \/ SetOffline(c)
  \/ \E s \in Server : Redis(s) \/ LoseRedis(s) \/ Wipe(s)

\* Every step is one or the other.
LEMMA QuietOrLoud ==
  ASSUME TypeOK, Control, [Next]_vars
  PROVE  Quiet \/ Loud
<1> USE DEF EnteredPC, DeliverPC
<1>1. ASSUME NEW c \in Conn, Connect(c) PROVE Quiet
  BY <1>1 DEF Connect, Quiet, Holders
<1>2. ASSUME NEW c \in Conn, NEW u \in User, LoginQuery(c, u) PROVE Quiet
  <2>1. session[c] \in {NoUser} \cup raced' /\ pc'[c] = "login_update"
    BY <1>2 DEF LoginQuery, LeaveBehind, Goto, TypeOK
  <2>2. \A e \in Conn \ {c} : session'[e] = session[e] /\ pc'[e] = pc[e] /\ uid'[e] = uid[e]
    BY <1>2 DEF LoginQuery, Goto, TypeOK
  <2>3. UNCHANGED <<userConnMap, pipe, subs, deaf>> /\ raced \subseteq raced'
    BY <1>2 DEF LoginQuery, LeaveBehind
  <2> QED
    BY <2>1, <2>2, <2>3, QuietOutside
<1>3. ASSUME NEW c \in Conn, LoginUpdateFails(c) PROVE Quiet
  <2>1. pc[c] = "login_update" /\ session'[c] = NoUser
    BY <1>3 DEF LoginUpdateFails, TypeOK
  <2>2. \A e \in Conn \ {c} : session'[e] = session[e] /\ pc'[e] = pc[e] /\ uid'[e] = uid[e]
    BY <1>3 DEF LoginUpdateFails, Goto, TypeOK
  <2>3. UNCHANGED <<userConnMap, pipe, subs, deaf, raced>>
    BY <1>3 DEF LoginUpdateFails
  <2> QED
    BY <2>1, <2>2, <2>3, QuietOutside
<1>4. ASSUME NEW c \in Conn, LoginRead(c) PROVE Quiet
  BY <1>4, QuietHandler DEF LoginRead
<1>5. ASSUME NEW c \in Conn, LoginRemove(c) PROVE Quiet
  BY <1>5, QuietHandler DEF LoginRemove
<1>6. ASSUME NEW c \in Conn, LoginAck(c) PROVE Quiet
  BY <1>6, QuietHandler DEF LoginAck
<1>7. ASSUME NEW c \in Conn, NEW m \in Msg, NEW R \in (SUBSET User) \ {{}}, Chat(c, m, R)
      PROVE  Quiet
  BY <1>7, QuietHandler DEF Chat
<1>8. ASSUME NEW c \in Conn, DeliverHere(c) PROVE Quiet
  <2>1. pc[c] = "deliver" /\ (Goto(c, "idle") \/ Goto(c, "deliver"))
    BY <1>8 DEF DeliverHere, NextRecipient
  <2>2. UNCHANGED <<userConnMap, pipe, subs, deaf, session, raced>>
    BY <1>8 DEF DeliverHere, NextRecipient
  <2>3. \A e \in Conn \ {c} : uid'[e] = uid[e]
    BY <1>8 DEF DeliverHere, NextRecipient, TypeOK
  <2> QED
    BY <2>1, <2>2, <2>3, QuietHandler
<1>9. ASSUME NEW c \in Conn, DeliverElsewhere(c) PROVE Quiet
  <2>1. \A e \in Conn \ {c} : uid'[e] = uid[e]
    BY <1>9 DEF DeliverElsewhere, TypeOK
  <2> QED
    BY <1>9, <2>1, QuietHandler DEF DeliverElsewhere
<1>10. ASSUME NEW c \in Conn, Lookup(c) PROVE Quiet
  <2>1. Goto(c, "publish") \/ Goto(c, "store")
    BY <1>10 DEF Lookup
  <2> QED
    BY <1>10, <2>1, QuietHandler DEF Lookup
<1>11. ASSUME NEW c \in Conn, Publish(c) PROVE Quiet
  <2>1. pc[c] = "publish" /\ (Goto(c, "idle") \/ Goto(c, "deliver"))
    BY <1>11 DEF Publish, NextRecipient
  <2>2. UNCHANGED <<userConnMap, pipe, subs, deaf, session, raced>>
    BY <1>11 DEF Publish, NextRecipient
  <2>3. \A e \in Conn \ {c} : uid'[e] = uid[e]
    BY <1>11 DEF Publish, NextRecipient, TypeOK
  <2> QED
    BY <2>1, <2>2, <2>3, QuietHandler
<1>12. ASSUME NEW c \in Conn, Store(c) PROVE Quiet
  <2>1. pc[c] = "store" /\ (Goto(c, "idle") \/ Goto(c, "deliver"))
    BY <1>12 DEF Store, NextRecipient
  <2>2. UNCHANGED <<userConnMap, pipe, subs, deaf, session, raced>>
    BY <1>12 DEF Store, NextRecipient
  <2>3. \A e \in Conn \ {c} : uid'[e] = uid[e]
    BY <1>12 DEF Store, NextRecipient, TypeOK
  <2> QED
    BY <2>1, <2>2, <2>3, QuietHandler
<1>13. ASSUME NEW c \in Conn, Close(c) PROVE Quiet
  BY <1>13, QuietHandler DEF Close
<1>14. ASSUME NEW s \in Server, Observe(s) PROVE Quiet
  BY <1>14 DEF Observe, Quiet, Holders
<1>15. ASSUME NEW s \in Server, ObserveStore(s) PROVE Quiet
  BY <1>15 DEF ObserveStore, Quiet, Holders
<1>16. ASSUME NEW s \in Server, Sigint(s) PROVE Quiet
  BY <1>16 DEF Sigint, Quiet, Holders
<1>17. CASE UNCHANGED vars
  BY <1>17 DEF vars, Quiet, Holders
<1> QED
  BY <1>1, <1>2, <1>3, <1>4, <1>5, <1>6, <1>7, <1>8, <1>9, <1>10, <1>11, <1>12, <1>13,
     <1>14, <1>15, <1>16, <1>17, RecipientsType
     DEF Next, ClientStep, HandlerStep, ObserverStep, Loud, Crash, Exit

\* Each step leaves an undamaged account entered until its handler erases the entry.
LEMMA EnteredStep ==
  ASSUME TypeOK, Control, NoDanglingEntry, OneHolder, StrayIsRaced, Entered, Quiet \/ Loud
  PROVE  Entered'
<1> DEFINE Stays(e) == session'[e] = session[e] /\ pc'[e] = pc[e] /\ uid'[e] = uid[e]
           Kept(e) == \A u \in User : userConnMap[ServerOf[e]][u] = e =>
                                        userConnMap'[ServerOf[e]][u] = e
<1>1. NoUser \notin User /\ NoConn \notin Conn /\ \A e \in Conn : ServerOf[e] \in Server
  BY ClusterAssumption DEF ClusterAssumption
<1>2. ASSUME NEW e \in Conn, Stays(e), Kept(e), raced \subseteq raced',
             NEW u \in User \ raced', e \in Holders(u)'
      PROVE  /\ pc'[e] \in EnteredPC \cup {"login_subscribe"} => userConnMap'[ServerOf[e]][u] = e
             /\ pc'[e] \in LeavePC => uid'[e] = u
  BY <1>2 DEF Entered, Holders
<1>3. ASSUME NEW c \in Conn, raced \subseteq raced',
             \A e \in Conn \ {c} : Stays(e) /\ Kept(e),
             \A u \in User \ raced' : session'[c] = u =>
               /\ pc'[c] \in EnteredPC \cup {"login_subscribe"} => userConnMap'[ServerOf[c]][u] = c
               /\ pc'[c] \in LeavePC => uid'[c] = u
      PROVE  Entered'
  <2> SUFFICES ASSUME NEW u \in User \ raced', NEW e \in Holders(u)'
               PROVE  /\ pc'[e] \in EnteredPC \cup {"login_subscribe"} => userConnMap'[ServerOf[e]][u] = e
                      /\ pc'[e] \in LeavePC => uid'[e] = u
    BY DEF Entered
  <2>1. e \in Conn /\ session'[e] = u
    BY DEF Holders
  <2> HIDE DEF Stays, Kept
  <2>2. CASE e = c
    BY <1>3, <2>1, <2>2
  <2>3. CASE e # c
    BY <1>2, <1>3, <2>1, <2>3
  <2> QED
    BY <2>2, <2>3
<1>4. CASE Quiet
  BY <1>4 DEF Quiet, Entered, EnteredPC, DeliverPC, LeavePC, Holders
<1>5. ASSUME NEW c \in Conn, LoginUpdate(c) PROVE Entered'
  <2>1. \A e \in Conn \ {c} : Stays(e) /\ Kept(e)
    BY <1>5 DEF LoginUpdate, Goto, TypeOK
  <2>2. pc'[c] = "login_insert" /\ raced \subseteq raced'
    BY <1>5 DEF LoginUpdate, Goto, TypeOK
  <2> QED
    BY <1>3, <2>1, <2>2 DEF EnteredPC, DeliverPC, LeavePC
<1>6. ASSUME NEW c \in Conn, LoginInsert(c) PROVE Entered'
  <2> DEFINE s == ServerOf[c]
  <2>1. PICK v \in User : v = session[c]
    BY <1>6 DEF LoginInsert, Control, LoginPC, TypeOK
  <2>2. /\ pc[c] = "login_insert" /\ pc'[c] = "login_subscribe" /\ session'[c] = v
        /\ UNCHANGED raced /\ \A e \in Conn \ {c} : Stays(e)
    BY <1>6, <2>1 DEF LoginInsert, Goto, TypeOK
  <2>3. \A t \in Server, u \in User :
          userConnMap'[t][u] = IF t = s /\ u = v /\ userConnMap[t][u] = NoConn THEN c
                                                                  ELSE userConnMap[t][u]
    BY <1>1, <1>6, <2>1 DEF LoginInsert, InsertEntry, TypeOK
  <2>4. \A e \in Conn \ {c} : Kept(e)
    BY <1>1, <2>3
  <2>5. v \notin raced => userConnMap[s][v] = NoConn
    <3> SUFFICES ASSUME v \notin raced, userConnMap[s][v] # NoConn PROVE FALSE
      OBVIOUS
    <3>1. userConnMap[s][v] \in Holders(v) /\ pc[userConnMap[s][v]] # "login_insert"
      BY <1>1 DEF NoDanglingEntry, StrayIsRaced, Holders, TypeOK
    <3>2. c \in Holders(v)
      BY <2>1, <2>2 DEF Holders
    <3> QED
      BY <2>2, <3>1, <3>2 DEF OneHolder
  <2>6. v \notin raced => userConnMap'[s][v] = c
    BY <1>1, <2>3, <2>5
  <2> HIDE DEF Stays, Kept
  <2> QED
    BY <1>3, <2>2, <2>4, <2>6 DEF LeavePC
<1>7. ASSUME NEW c \in Conn, LoginSubscribe(c) PROVE Entered'
  <2>1. \A e \in Conn \ {c} : Stays(e) /\ Kept(e)
    BY <1>7 DEF LoginSubscribe, Goto, TypeOK
  <2>2. /\ pc[c] = "login_subscribe" /\ pc'[c] = "login_read"
        /\ raced \subseteq raced' /\ UNCHANGED <<userConnMap, session>>
    BY <1>7 DEF LoginSubscribe, AppendCommand, Goto, TypeOK
  <2>3. \A u \in User \ raced : session[c] = u => userConnMap[ServerOf[c]][u] = c
    BY <2>2 DEF Entered, Holders
  <2> HIDE DEF Stays, Kept
  <2> QED
    BY <1>3, <2>1, <2>2, <2>3 DEF LeavePC
<1>8. ASSUME NEW c \in Conn, Loginout(c) PROVE Entered'
  <2> DEFINE s == ServerOf[c]
  <2>1. PICK v \in User : v = session[c]
    BY <1>8 DEF Loginout, TypeOK
  <2>2. /\ pc[c] = "idle" /\ pc'[c] = "unsubscribe" /\ session'[c] = v
        /\ UNCHANGED raced /\ \A e \in Conn \ {c} : Stays(e)
        /\ userConnMap[s][v] # NoConn => uid'[c] = v
    BY <1>8, <2>1 DEF Loginout, Goto, TypeOK
  <2>3. \A t \in Server, u \in User :
          userConnMap'[t][u] = IF t = s /\ u = v THEN NoConn ELSE userConnMap[t][u]
    BY <1>1, <1>8, <2>1 DEF Loginout, EraseEntry, TypeOK
  <2>4. c \in Holders(v)
    BY <2>1, <2>2 DEF Holders
  <2>5. v \notin raced => uid'[c] = v
    BY <1>1, <2>2, <2>4 DEF Entered, EnteredPC
  <2>6. ASSUME NEW u \in User \ raced', NEW e \in Holders(u)'
        PROVE  /\ pc'[e] \in EnteredPC \cup {"login_subscribe"} => userConnMap'[ServerOf[e]][u] = e
               /\ pc'[e] \in LeavePC => uid'[e] = u
    <3>1. e \in Conn /\ session'[e] = u /\ pc'[e] # "login_update"
      BY DEF Holders
    <3>2. CASE e = c
      BY <2>2, <2>5, <3>1, <3>2 DEF EnteredPC, DeliverPC
    <3>3. CASE e # c
      <4>1. Stays(e) /\ e \in Holders(u)
        BY <2>2, <3>1, <3>3 DEF Holders
      <4>2. u # v
        BY <2>2, <2>4, <3>3, <4>1 DEF OneHolder
      <4> QED
        BY <1>1, <2>2, <2>3, <3>1, <4>1, <4>2 DEF Entered
    <3> QED
      BY <3>2, <3>3
  <2> QED
    BY <2>6 DEF Entered
<1>9. ASSUME NEW c \in Conn, CloseErase(c) PROVE Entered'
  <2>1. /\ pc[c] = "close" /\ pc'[c] = "unsubscribe" /\ UNCHANGED session
        /\ \A e \in Conn \ {c} : pc'[e] = pc[e]
    BY <1>9 DEF CloseErase, Goto, TypeOK
  <2>2. /\ \A t \in Server, u \in User :
             /\ userConnMap[t][u] # c => userConnMap'[t][u] = userConnMap[t][u]
             /\ userConnMap[t][u] = c /\ u \notin stray' => uid'[c] = u
        /\ raced \subseteq raced' /\ \A e \in Conn \ {c} : uid'[e] = uid[e]
    BY <1>9, CloseEraseEffect
  <2>3. \A u \in User \ raced' : u \notin stray'
    BY <1>9, CloseEraseEffect DEF StrayIsRaced
  <2>4. \A e \in Conn \ {c} : Stays(e) /\ Kept(e)
    BY <1>1, <2>1, <2>2
  <2>5. \A u \in User \ raced' : session[c] = u => uid'[c] = u
    <3> SUFFICES ASSUME NEW u \in User \ raced', session[c] = u PROVE uid'[c] = u
      OBVIOUS
    <3>1. userConnMap[ServerOf[c]][u] = c
      BY <2>1, <2>2 DEF Entered, Holders, EnteredPC
    <3> QED
      BY <1>1, <2>2, <2>3, <3>1
  <2> HIDE DEF Stays, Kept
  <2> QED
    BY <1>3, <2>1, <2>2, <2>4, <2>5 DEF EnteredPC, DeliverPC
<1>10. ASSUME NEW c \in Conn, Unsubscribe(c) PROVE Entered'
  <2>1. \A e \in Conn \ {c} : Stays(e) /\ Kept(e)
    BY <1>10 DEF Unsubscribe, Left, Goto, TypeOK
  <2>2. raced \subseteq raced'
    BY <1>10 DEF Unsubscribe, AppendCommand
  <2>3. \/ session'[c] = NoUser
        \/ /\ pc[c] = "unsubscribe" /\ pc'[c] = "set_offline"
           /\ session'[c] = session[c] /\ uid'[c] = uid[c]
    BY <1>10 DEF Unsubscribe, Left, Goto, TypeOK
  <2>4. \A u \in User \ raced : session[c] = u /\ pc[c] = "unsubscribe" => uid[c] = u
    BY DEF Entered, Holders, LeavePC
  <2> HIDE DEF Stays, Kept
  <2> QED
    BY <1>1, <1>3, <2>1, <2>2, <2>3, <2>4 DEF EnteredPC, DeliverPC
<1>11. ASSUME NEW c \in Conn, SetOffline(c) PROVE Entered'
  <2>1. \A e \in Conn \ {c} : Stays(e) /\ Kept(e)
    BY <1>11 DEF SetOffline, Left, Goto, TypeOK
  <2>2. raced' = raced /\ session'[c] = NoUser
    BY <1>11 DEF SetOffline, Left, TypeOK
  <2> HIDE DEF Stays, Kept
  <2> QED
    BY <1>1, <1>3, <2>1, <2>2
<1>12. ASSUME NEW s \in Server, Redis(s) PROVE Entered'
  BY <1>12 DEF Redis, Entered, Holders
<1>13. ASSUME NEW s \in Server, LoseRedis(s) PROVE Entered'
  BY <1>13 DEF LoseRedis, Entered, Holders
<1>14. ASSUME NEW s \in Server, Wipe(s) PROVE Entered'
  <2>1. \A e \in Conn : session'[e] = NoUser \/ (Stays(e) /\ ServerOf[e] # s)
    BY <1>14 DEF Wipe, OnServer
  <2>2. \A t \in Server \ {s} : userConnMap'[t] = userConnMap[t]
    BY <1>14 DEF Wipe, TypeOK
  <2>3. raced' = raced
    BY <1>14 DEF Wipe
  <2>4. ASSUME NEW u \in User \ raced', NEW e \in Holders(u)'
        PROVE  /\ pc'[e] \in EnteredPC \cup {"login_subscribe"} => userConnMap'[ServerOf[e]][u] = e
               /\ pc'[e] \in LeavePC => uid'[e] = u
    <3>1. e \in Conn /\ session'[e] = u
      BY DEF Holders
    <3>2. Stays(e) /\ Kept(e)
      BY <1>1, <2>1, <2>2, <3>1
    <3> QED
      BY <1>2, <2>3, <3>1, <3>2
  <2> QED
    BY <2>4 DEF Entered
<1> QED
  BY <1>4, <1>5, <1>6, <1>7, <1>8, <1>9, <1>10, <1>11, <1>12, <1>13, <1>14 DEF Loud

\* What a command appended to the pipe makes of the subscription to come.
LEMMA WillAppend ==
  ASSUME NEW s \in Server, NEW u \in User, NEW r \in Command, pipe[s] \in Seq(Command),
         pipe'[s] = Append(pipe[s], r), UNCHANGED subs
  PROVE  /\ r.user # u => (WillBeSubscribed(s, u)' <=> WillBeSubscribed(s, u))
         /\ r = [op |-> "SUBSCRIBE", user |-> u] => WillBeSubscribed(s, u)'
         /\ r = [op |-> "UNSUBSCRIBE", user |-> u] => ~ WillBeSubscribed(s, u)'
<1> DEFINE q == pipe[s]  n == Len(pipe[s])
<1>1. /\ n \in Nat /\ DOMAIN q = 1 .. n /\ DOMAIN pipe'[s] = 1 .. n + 1
      /\ pipe'[s][n + 1] = r /\ \A i \in 1 .. n : pipe'[s][i] = q[i]
  OBVIOUS
<1>2. \A i \in 1 .. n + 1 : i = n + 1 \/ i \in 1 .. n
  BY <1>1
<1>3. \A i \in 1 .. n : n + 1 > i /\ i \in 1 .. n + 1 /\ ~ (i > n + 1)
  BY <1>1
<1>4. n + 1 \in 1 .. n + 1
  BY <1>1
<1> HIDE DEF q, n
<1>5. ASSUME r.user # u PROVE WillBeSubscribed(s, u)' <=> WillBeSubscribed(s, u)
  <2>1. r # [op |-> "SUBSCRIBE", user |-> u]
    BY <1>5
  <2> QED
    BY <1>1, <1>2, <1>3, <1>4, <1>5, <2>1 DEF WillBeSubscribed, q
<1>6. ASSUME r = [op |-> "SUBSCRIBE", user |-> u] PROVE WillBeSubscribed(s, u)'
  <2>1. \A j \in DOMAIN pipe'[s] : ~ (j > n + 1)
    BY <1>1
  <2> QED
    BY <1>1, <1>4, <1>6, <2>1 DEF WillBeSubscribed
<1>7. ASSUME r = [op |-> "UNSUBSCRIBE", user |-> u] PROVE ~ WillBeSubscribed(s, u)'
  <2>1. r.user = u /\ r # [op |-> "SUBSCRIBE", user |-> u]
    BY <1>7
  <2> QED
    BY <1>1, <1>2, <1>3, <1>4, <2>1 DEF WillBeSubscribed
<1> QED
  BY <1>5, <1>6, <1>7

\* Redis does what it was asked for: taking the next command does not change what
\* the commands amount to.
LEMMA WillTail ==
  ASSUME TypeOK, NEW s \in Server, NEW u \in User, Redis(s)
  PROVE  WillBeSubscribed(s, u)' <=> WillBeSubscribed(s, u)
<1> DEFINE q == pipe[s]  n == Len(pipe[s])  r == q[1]
<1>1. q \in Seq(Command) /\ q # <<>>
  BY DEF TypeOK, Redis
<1>2. /\ n \in Nat \ {0} /\ DOMAIN q = 1 .. n /\ DOMAIN Tail(q) = 1 .. n - 1 /\ Head(q) = r
      /\ \A i \in 1 .. n - 1 : Tail(q)[i] = q[i + 1]
  BY <1>1
<1>3. pipe'[s] = Tail(q)
  BY DEF Redis, TypeOK
<1>4. r \in Command
  BY <1>1, <1>2
<1>5. s \in subs'[u] <=> IF r.user = u THEN r.op = "SUBSCRIBE" ELSE s \in subs[u]
  BY <1>2, <1>4 DEF Redis, TypeOK, Command
<1>6. /\ \A i \in 1 .. n - 1 : i + 1 \in 1 .. n /\ i + 1 > 1
      /\ \A i \in 1 .. n : i # 1 => i - 1 \in 1 .. n - 1 /\ i = (i - 1) + 1
      /\ \A i, j \in 1 .. n - 1 : i + 1 > j + 1 <=> i > j
      /\ 1 \in 1 .. n
  BY <1>2
<1>7. r = [op |-> "SUBSCRIBE", user |-> u] <=> r.user = u /\ r.op = "SUBSCRIBE"
  BY <1>4 DEF Command
<1> DEFINE Last(p, i) == p[i] = [op |-> "SUBSCRIBE", user |-> u] /\
                         \A j \in DOMAIN p : j > i => p[j].user # u
           None(p) == \A i \in DOMAIN p : p[i].user # u
<1>8. \A i \in 1 .. n - 1 : Last(Tail(q), i) <=> Last(q, i + 1)
  <2> SUFFICES ASSUME NEW i \in 1 .. n - 1 PROVE Last(Tail(q), i) <=> Last(q, i + 1)
    OBVIOUS
  <2>1. Tail(q)[i] = q[i + 1]
    BY <1>2
  <2>2. ASSUME \A j \in 1 .. n - 1 : j > i => Tail(q)[j].user # u,
               NEW j \in 1 .. n, j > i + 1
        PROVE  q[j].user # u
    <3>1. j # 1 /\ j - 1 \in 1 .. n - 1 /\ j - 1 > i /\ (j - 1) + 1 = j
      BY <1>2, <2>2
    <3> QED
      BY <1>2, <2>2, <3>1
  <2>3. ASSUME \A j \in 1 .. n : j > i + 1 => q[j].user # u,
               NEW j \in 1 .. n - 1, j > i
        PROVE  Tail(q)[j].user # u
    BY <1>2, <1>6, <2>3
  <2> QED
    BY <1>2, <2>1, <2>2, <2>3
<1>9. None(q) <=> None(Tail(q)) /\ r.user # u
  <2>1. ASSUME None(Tail(q)), r.user # u, NEW i \in 1 .. n PROVE q[i].user # u
    <3>1. CASE i = 1
      BY <2>1, <3>1
    <3>2. CASE i # 1
      <4>1. i - 1 \in 1 .. n - 1 /\ (i - 1) + 1 = i
        BY <1>6, <3>2
      <4> QED
        BY <1>2, <2>1, <4>1
    <3> QED
      BY <3>1, <3>2
  <2> QED
    BY <1>2, <1>6, <2>1
<1>10. Last(q, 1) <=> r = [op |-> "SUBSCRIBE", user |-> u] /\ None(Tail(q))
  <2>1. ASSUME None(Tail(q)), NEW j \in 1 .. n, j > 1 PROVE q[j].user # u
    <3>1. j - 1 \in 1 .. n - 1 /\ (j - 1) + 1 = j
      BY <1>2, <2>1
    <3> QED
      BY <1>2, <2>1, <3>1
  <2>2. ASSUME \A j \in 1 .. n : j > 1 => q[j].user # u, NEW j \in 1 .. n - 1
        PROVE  Tail(q)[j].user # u
    BY <1>2, <1>6, <2>2
  <2> QED
    BY <1>2, <2>1, <2>2
<1>11. WillBeSubscribed(s, u) <=> (\E i \in 1 .. n : Last(q, i)) \/ (s \in subs[u] /\ None(q))
  BY <1>2 DEF WillBeSubscribed
<1>12. WillBeSubscribed(s, u)' <=>
         (\E i \in 1 .. n - 1 : Last(Tail(q), i)) \/ (s \in subs'[u] /\ None(Tail(q)))
  BY <1>2, <1>3 DEF WillBeSubscribed
<1>13. (\E i \in 1 .. n : Last(q, i)) <=> Last(q, 1) \/ \E i \in 1 .. n - 1 : Last(q, i + 1)
  <2> HIDE DEF Last, q
  <2>1. ASSUME NEW i \in 1 .. n, Last(q, i), i # 1 PROVE \E k \in 1 .. n - 1 : Last(q, k + 1)
    BY <1>6, <2>1
  <2> QED
    BY <1>6, <2>1
<1> HIDE DEF Last, None, q, n, r
<1> QED
  BY <1>5, <1>7, <1>8, <1>9, <1>10, <1>11, <1>12, <1>13

\* Each step leaves the subscriptions asked for in step with the sessions.
LEMMA SubscribedStep ==
  ASSUME TypeOK, Control, OneHolder, StrayIsRaced, Entered, Subscribed, Quiet \/ Loud
  PROVE  Subscribed'
<1>1. NoUser \notin User /\ \A e \in Conn : ServerOf[e] \in Server
  BY ClusterAssumption DEF ClusterAssumption
<1>2. ASSUME NEW s \in Server, NEW u \in User, pipe'[s] = pipe[s], s \in subs'[u] <=> s \in subs[u]
      PROVE  WillBeSubscribed(s, u)' <=> WillBeSubscribed(s, u)
  BY <1>2 DEF WillBeSubscribed
<1> DEFINE In(e, u) == e \in Holders(u) /\ pc[e] \in EnteredPC \cup {"unsubscribe"}
<1>3. ASSUME NEW s \in Server, NEW u \in User,
             \A e \in Conn : ServerOf[e] = s => (In(e, u)' <=> In(e, u))
      PROVE  UsedAt(s, u)' <=> UsedAt(s, u)
  BY <1>3 DEF UsedAt, Holders
<1>4. CASE Quiet
  <2>1. \A u \in User \ raced', e \in Conn : In(e, u)' <=> In(e, u)
    BY <1>4 DEF Quiet
  <2> QED
    BY <1>2, <1>3, <1>4, <2>1 DEF Quiet, Subscribed
<1>5. ASSUME NEW c \in Conn, UNCHANGED <<pipe, subs, deaf>>, raced \subseteq raced',
             \A e \in Conn \ {c} : session'[e] = session[e] /\ pc'[e] = pc[e],
             \A u \in User : In(c, u)' <=> In(c, u)
      PROVE  Subscribed'
  <2>1. \A u \in User, e \in Conn : In(e, u)' <=> In(e, u)
    BY <1>5 DEF Holders
  <2> HIDE DEF In
  <2> QED
    BY <1>2, <1>3, <1>5, <2>1 DEF Subscribed
<1>6. ASSUME NEW c \in Conn, LoginUpdate(c) \/ LoginInsert(c) \/ Loginout(c) \/ CloseErase(c)
                             \/ SetOffline(c)
      PROVE  Subscribed'
  <2>1. UNCHANGED <<pipe, subs, deaf>> /\ raced \subseteq raced'
    BY <1>6 DEF LoginUpdate, LoginInsert, Loginout, CloseErase, SetOffline
  <2>2. \A e \in Conn \ {c} : session'[e] = session[e] /\ pc'[e] = pc[e]
    BY <1>6 DEF LoginUpdate, LoginInsert, Loginout, CloseErase, SetOffline, Left, Goto, TypeOK
  <2>3. \A u \in User : In(c, u)' <=> In(c, u)
    <3>1. CASE LoginUpdate(c) \/ LoginInsert(c)
      <4>1. /\ pc[c] \in {"login_update", "login_insert"}
            /\ pc'[c] \in {"login_insert", "login_subscribe"}
        BY <3>1 DEF LoginUpdate, LoginInsert, Goto, TypeOK
      <4> QED
        BY <4>1 DEF EnteredPC, DeliverPC
    <3>2. CASE Loginout(c) \/ CloseErase(c)
      <4>1. /\ pc[c] \in {"idle", "close"} /\ pc'[c] = "unsubscribe" /\ session'[c] = session[c]
        BY <3>2 DEF Loginout, CloseErase, Goto, TypeOK
      <4> QED
        BY <4>1 DEF EnteredPC, DeliverPC, Holders
    <3>3. CASE SetOffline(c)
      <4>1. pc[c] = "set_offline" /\ session'[c] = NoUser
        BY <3>3 DEF SetOffline, Left, TypeOK
      <4> QED
        BY <1>1, <4>1 DEF EnteredPC, DeliverPC, Holders
    <3> QED
      BY <1>6, <3>1, <3>2, <3>3
  <2> HIDE DEF In
  <2> QED
    BY <1>5, <2>1, <2>2, <2>3
<1>7. ASSUME NEW c \in Conn, NEW v \in User, NEW op \in {"SUBSCRIBE", "UNSUBSCRIBE"},
             AppendCommand(c, op, v), UNCHANGED <<subs, deaf>>,
             \A e \in Conn \ {c} : session'[e] = session[e] /\ pc'[e] = pc[e],
             \A u \in User \ (raced \cup {v}) : In(c, u)' <=> In(c, u),
             v \notin raced => (op = "SUBSCRIBE" <=> UsedAt(ServerOf[c], v)')
      PROVE  Subscribed'
  <2> DEFINE s == ServerOf[c]  r == [op |-> op, user |-> v]
  <2>1. s \in Server /\ r \in Command /\ r.user = v
    BY <1>1 DEF Command
  <2>2. raced \subseteq raced'
    BY <1>7 DEF AppendCommand
  <2>3. pipe[s] \in Seq(Command) /\ \A t \in Server \ {s} : pipe'[t] = pipe[t]
    BY <1>7, <2>1 DEF AppendCommand, TypeOK
  <2>4. \/ pipe'[s] = Append(pipe[s], r)
        \/ s \in deaf /\ pipe' = pipe
        \/ v \in raced' /\ pipe' = pipe
    BY <1>7, <2>1 DEF AppendCommand, TypeOK
  <2>5. ASSUME NEW t \in Server \ deaf, NEW u \in User \ raced', u # v
        PROVE  WillBeSubscribed(t, u)' <=> UsedAt(t, u)'
    <3>1. \A e \in Conn : In(e, u)' <=> In(e, u)
      BY <1>7, <2>2, <2>5 DEF Holders
    <3>2. UsedAt(t, u)' <=> UsedAt(t, u)
      BY <1>3, <3>1
    <3>3. WillBeSubscribed(t, u) <=> UsedAt(t, u)
      BY <2>2, <2>5 DEF Subscribed
    <3>4. CASE pipe'[t] = pipe[t]
      BY <1>2, <1>7, <3>2, <3>3, <3>4
    <3>5. CASE t = s /\ pipe'[s] = Append(pipe[s], r)
      <4> HIDE DEF r
      <4>1. WillBeSubscribed(t, u)' <=> WillBeSubscribed(t, u)
        BY <1>7, <2>1, <2>3, <2>5, <3>5, WillAppend
      <4> QED
        BY <3>2, <3>3, <4>1
    <3> QED
      BY <2>3, <2>4, <3>4, <3>5
  <2>6. ASSUME NEW t \in Server \ deaf, v \notin raced', t # s
        PROVE  WillBeSubscribed(t, v)' <=> UsedAt(t, v)'
    <3>1. \A e \in Conn : ServerOf[e] = t => (In(e, v)' <=> In(e, v))
      BY <1>7, <2>6 DEF Holders
    <3>2. UsedAt(t, v)' <=> UsedAt(t, v)
      BY <1>3, <3>1
    <3> QED
      BY <1>2, <1>7, <2>2, <2>3, <2>6, <3>2 DEF Subscribed
  <2>7. ASSUME s \notin deaf, v \notin raced'
        PROVE  WillBeSubscribed(s, v)' <=> UsedAt(s, v)'
    <3>1. pipe'[s] = Append(pipe[s], r)
      BY <2>4, <2>7
    <3>2. op = "SUBSCRIBE" => WillBeSubscribed(s, v)'
      BY <1>7, <2>1, <2>3, <3>1, WillAppend
    <3>3. op = "UNSUBSCRIBE" => ~ WillBeSubscribed(s, v)'
      BY <1>7, <2>1, <2>3, <3>1, WillAppend
    <3> HIDE DEF s
    <3> QED
      BY <1>7, <2>2, <2>7, <3>2, <3>3 DEF s
  <2> HIDE DEF s, r, In
  <2> QED
    BY <1>7, <2>5, <2>6, <2>7 DEF Subscribed
<1>8. ASSUME NEW c \in Conn, LoginSubscribe(c) PROVE Subscribed'
  <2>1. PICK v \in User : v = session[c]
    BY <1>8 DEF LoginSubscribe, Control, LoginPC, TypeOK
  <2>2. /\ AppendCommand(c, "SUBSCRIBE", v) /\ UNCHANGED <<subs, deaf, session>>
        /\ pc'[c] = "login_read" /\ \A e \in Conn \ {c} : pc'[e] = pc[e]
    BY <1>8, <2>1 DEF LoginSubscribe, Goto, TypeOK
  <2>3. UsedAt(ServerOf[c], v)'
    BY <2>1, <2>2 DEF UsedAt, Holders, EnteredPC
  <2>4. \A u \in User \ {v} : In(c, u)' <=> In(c, u)
    BY <2>1, <2>2 DEF Holders
  <2> HIDE DEF In
  <2> QED
    BY <1>7, <2>2, <2>3, <2>4
<1>9. ASSUME NEW c \in Conn, Unsubscribe(c) PROVE Subscribed'
  <2>1. /\ pc[c] = "unsubscribe" /\ UNCHANGED <<subs, deaf>>
        /\ \A e \in Conn \ {c} : session'[e] = session[e] /\ pc'[e] = pc[e]
        /\ session'[c] = NoUser \/ (session'[c] = session[c] /\ pc'[c] = "set_offline")
    BY <1>9 DEF Unsubscribe, Left, Goto, TypeOK
  <2>2. \A u \in User : ~ In(c, u)'
    BY <1>1, <2>1 DEF Holders, EnteredPC, DeliverPC
  <2>3. uid[c] \in {session[c], NoUser} \cup stray /\ Channel(c) \in {session[c], uid[c]}
    BY <2>1 DEF Control, LeavePC, Channel
  <2>4. \A u \in User \ raced : session[c] = u => Channel(c) = u
    BY <2>1 DEF Entered, Holders, LeavePC, Channel
  <2>5. CASE Channel(c) = NoUser
    <3>1. UNCHANGED <<pipe, raced>>
      BY <1>9, <2>5 DEF Unsubscribe
    <3>2. \A u \in User \ raced : ~ In(c, u)
      BY <1>1, <2>4, <2>5 DEF Holders
    <3>3. ASSUME NEW s \in Server, NEW u \in User \ raced
          PROVE  UsedAt(s, u)' <=> UsedAt(s, u)
      <4>1. \A e \in Conn : In(e, u)' <=> In(e, u)
        BY <2>1, <2>2, <3>2 DEF Holders
      <4> QED
        BY <1>3, <4>1
    <3> QED
      BY <1>2, <2>1, <3>1, <3>3 DEF Subscribed
  <2>6. CASE Channel(c) # NoUser
    <3>1. PICK v \in User : v = Channel(c) /\ (v \in raced \/ v = session[c])
      BY <2>3, <2>6 DEF TypeOK, StrayIsRaced
    <3>2. AppendCommand(c, "UNSUBSCRIBE", v)
      BY <1>9, <2>6, <3>1 DEF Unsubscribe
    <3>3. \A u \in User \ (raced \cup {v}) : In(c, u)' <=> In(c, u)
      BY <2>2, <2>4, <3>1 DEF Holders
    <3>4. v \notin raced => ~ UsedAt(ServerOf[c], v)'
      <4> SUFFICES ASSUME v \notin raced, NEW e \in Conn, In(e, v)' PROVE FALSE
        BY DEF UsedAt, Holders
      <4>1. e # c
        BY <2>2
      <4>2. e \in Holders(v)
        BY <2>1, <4>1 DEF Holders
      <4>3. c \in Holders(v)
        BY <2>1, <3>1 DEF Holders
      <4> QED
        BY <4>1, <4>2, <4>3 DEF OneHolder
    <3> HIDE DEF In
    <3> QED
      BY <1>7, <2>1, <3>2, <3>3, <3>4
  <2> QED
    BY <2>5, <2>6
<1>10. ASSUME NEW s \in Server, Redis(s) PROVE Subscribed'
  <2>1. UNCHANGED <<deaf, raced, session, pc>>
    BY <1>10 DEF Redis
  <2>2. \A t \in Server, u \in User : UsedAt(t, u)' <=> UsedAt(t, u)
    BY <2>1 DEF UsedAt, Holders
  <2>3. \A t \in Server \ {s}, u \in User : pipe'[t] = pipe[t] /\ (t \in subs'[u] <=> t \in subs[u])
    BY <1>10 DEF Redis, TypeOK
  <2>4. \A t \in Server, u \in User : WillBeSubscribed(t, u)' <=> WillBeSubscribed(t, u)
    BY <1>2, <1>10, <2>3, WillTail
  <2> QED
    BY <2>1, <2>2, <2>4 DEF Subscribed
<1>11. ASSUME NEW s \in Server, LoseRedis(s) PROVE Subscribed'
  <2>1. UNCHANGED <<raced, session, pc>> /\ deaf' = deaf \cup {s}
    BY <1>11 DEF LoseRedis
  <2>2. \A t \in Server, u \in User : UsedAt(t, u)' <=> UsedAt(t, u)
    BY <2>1 DEF UsedAt, Holders
  <2>3. \A t \in Server \ {s}, u \in User : pipe'[t] = pipe[t] /\ (t \in subs'[u] <=> t \in subs[u])
    BY <1>11 DEF LoseRedis, TypeOK
  <2>4. \A t \in Server \ {s}, u \in User : WillBeSubscribed(t, u)' <=> WillBeSubscribed(t, u)
    BY <1>2, <2>3
  <2> QED
    BY <2>1, <2>2, <2>4 DEF Subscribed
<1>12. ASSUME NEW s \in Server, Wipe(s) PROVE Subscribed'
  <2>1. /\ raced' = raced /\ deaf' = deaf \ {s} /\ pipe'[s] = <<>>
        /\ \A u \in User : s \notin subs'[u]
        /\ \A e \in Conn : IF ServerOf[e] = s THEN session'[e] = NoUser
                                              ELSE session'[e] = session[e] /\ pc'[e] = pc[e]
    BY <1>12 DEF Wipe, OnServer, TypeOK
  <2>2. \A t \in Server \ {s}, u \in User : pipe'[t] = pipe[t] /\ (t \in subs'[u] <=> t \in subs[u])
    BY <1>12 DEF Wipe, TypeOK
  <2>3. ASSUME NEW u \in User PROVE ~ WillBeSubscribed(s, u)' /\ ~ UsedAt(s, u)'
    <3>1. ~ UsedAt(s, u)'
      BY <1>1, <2>1 DEF UsedAt, Holders
    <3>2. ~ WillBeSubscribed(s, u)'
      BY <2>1 DEF WillBeSubscribed
    <3> QED
      BY <3>1, <3>2
  <2>4. ASSUME NEW t \in Server \ {s}, NEW u \in User
        PROVE  /\ WillBeSubscribed(t, u)' <=> WillBeSubscribed(t, u)
               /\ UsedAt(t, u)' <=> UsedAt(t, u)
    <3>1. \A e \in Conn : ServerOf[e] = t => (In(e, u)' <=> In(e, u))
      BY <2>1, <2>4 DEF Holders
    <3> QED
      BY <1>2, <1>3, <2>2, <2>4, <3>1
  <2> QED
    BY <2>1, <2>3, <2>4 DEF Subscribed
<1> QED
  BY <1>4, <1>6, <1>8, <1>9, <1>10, <1>11, <1>12 DEF Loud

-----------------------------------------------------------------------------
(* The inductive invariant and what follows from it.                       *)

\* A fresh cluster satisfies every part.
LEMMA InitHolds == Init => IndInv
<1> SUFFICES ASSUME Init PROVE IndInv
  OBVIOUS
<1>1. TypeOK
  BY ClusterAssumption DEF Init, TypeOK, PC, Command, ClusterAssumption
<1>2. Control
  BY DEF Init, Control, LoginPC, DeliverPC, LeavePC
<1>3. NoDanglingEntry
  BY DEF Init, NoDanglingEntry
<1>4. AbsenceHolds
  BY ClusterAssumption DEF Init, AbsenceHolds, ClusterAssumption
<1>5. Provenance /\ NoMisdelivery /\ Copies /\ StrayIsRaced
  BY DEF Init, Provenance, NoMisdelivery, Copies, Handled, StrayIsRaced, DeliverPC
<1>6. FlagIsLock /\ SingleSession
  BY ClusterAssumption DEF Init, FlagIsLock, SingleSession, Holders, ClusterAssumption
<1>7. Entered /\ Subscribed
  BY ClusterAssumption DEF Init, Entered, Subscribed, UsedAt, WillBeSubscribed, Holders,
     ClusterAssumption
<1> QED
  BY <1>1, <1>2, <1>3, <1>4, <1>5, <1>6, <1>7 DEF IndInv

\* Two servers that enter the same account would give it two holders.
LEMMA HolderOfEntry ==
  ASSUME NoDanglingEntry, TypeOK, OneHolder, StrayIsRaced
  PROVE  SingleSession
<1>1. ASSUME NEW u \in User \ raced, NEW s \in Server, NEW t \in Server,
             userConnMap[s][u] # NoConn, userConnMap[t][u] # NoConn
      PROVE  s = t
  <2> DEFINE c == userConnMap[s][u]  e == userConnMap[t][u]
  <2>1. c \in Conn /\ e \in Conn
    BY <1>1 DEF TypeOK
  <2>2. c \in Holders(u) /\ ServerOf[c] = s /\ e \in Holders(u) /\ ServerOf[e] = t
    BY <1>1, <2>1 DEF NoDanglingEntry, StrayIsRaced, Holders
  <2> QED
    BY <2>2 DEF OneHolder
<1> QED
  BY <1>1 DEF SingleSession, OneHolder

\* Every step of the cluster preserves every part.
LEMMA StepHolds == IndInv /\ [Next]_vars => IndInv'
<1> SUFFICES ASSUME IndInv, [Next]_vars PROVE IndInv'
  OBVIOUS
<1> USE DEF IndInv
<1>1. OneHolder
  BY DEF OneHolder, SingleSession
<1>2. TypeOK'
  BY TypeStep
<1>3. Control'
  BY ControlStep
<1>4. NoDanglingEntry'
  BY EntryStep
<1>5. AbsenceHolds'
  BY AbsenceStep
<1>6. Provenance'
  BY ProvenanceStep
<1>7. NoMisdelivery'
  BY SentStep
<1>8. FlagIsLock'
  BY <1>1, FlagStep
<1>9. OneHolder'
  BY <1>1, HolderStep
<1>10. NoDanglingEntry' /\ TypeOK' /\ OneHolder' /\ StrayIsRaced' => SingleSession'
  BY HolderOfEntry, PTL
<1>11. Quiet \/ Loud
  BY QuietOrLoud
<1>12. Entered'
  BY <1>1, <1>11, EnteredStep
<1>13. Subscribed'
  BY <1>1, <1>11, SubscribedStep
<1>14. Copies'
  BY CopiesStep
<1>15. StrayIsRaced'
  BY StrayStep
<1> QED
  BY <1>2, <1>3, <1>4, <1>5, <1>6, <1>7, <1>8, <1>9, <1>10, <1>12, <1>13, <1>14, <1>15

\* The whole inductive invariant holds in every reachable state.
THEOREM Inductive == Spec => []IndInv
BY InitHolds, StepHolds, PTL DEF Spec

\* Every variable keeps its type: in particular the handlers never act for an
\* account or a message that does not exist.
THEOREM TypeCorrect == Spec => []TypeOK
<1>1. IndInv => TypeOK
  BY DEF IndInv
<1> QED
  BY <1>1, Inductive, PTL

\* _userConnMap never names a connection whose session is over, unless a second
\* login on the connection left the account of that session behind.
THEOREM EntriesAreLive == Spec => []NoDanglingEntry
<1>1. IndInv => NoDanglingEntry
  BY DEF IndInv
<1> QED
  BY <1>1, Inductive, PTL

\* What was found absent under _mutex is absent when the handler acts on it.
THEOREM LockedLookups == Spec => []AbsenceHolds
<1>1. IndInv => AbsenceHolds
  BY DEF IndInv
<1> QED
  BY <1>1, Inductive, PTL

\* No client is ever sent a message that was not addressed to its account, or to
\* one that a second login on its connection left behind.
THEOREM NeverMisdelivered == Spec => []NoMisdelivery
<1>1. IndInv => NoMisdelivery
  BY DEF IndInv
<1> QED
  BY <1>1, Inductive, PTL

\* An account no race and no reset has damaged has one session at most.
THEOREM SessionsExclusive == Spec => []SingleSession
<1>1. IndInv => SingleSession
  BY DEF IndInv
<1> QED
  BY <1>1, Inductive, PTL

\* Away from login and logout a server is subscribed, or will be, to just the
\* accounts entered there.
THEOREM SubscriptionsFollow == Spec => []SubscriptionSettles
<1>1. ASSUME IndInv PROVE SubscriptionSettles
  <2> SUFFICES ASSUME NEW s \in Server \ deaf, NEW u \in User \ raced,
                      \A c \in Conn : ServerOf[c] = s /\ session[c] = u =>
                                        pc[c] \notin {"login_subscribe", "unsubscribe"}
               PROVE  WillBeSubscribed(s, u) <=> userConnMap[s][u] # NoConn
    BY DEF SubscriptionSettles
  <2>1. WillBeSubscribed(s, u) <=> UsedAt(s, u)
    BY <1>1 DEF IndInv, Subscribed
  <2>2. ASSUME UsedAt(s, u) PROVE userConnMap[s][u] # NoConn
    <3>1. PICK c \in Holders(u) : ServerOf[c] = s /\ pc[c] \in EnteredPC \cup {"unsubscribe"}
      BY <2>2 DEF UsedAt
    <3>2. c \in Conn /\ pc[c] \in EnteredPC
      BY <3>1 DEF Holders
    <3> QED
      BY <1>1, <3>1, <3>2, ClusterAssumption DEF IndInv, Entered, ClusterAssumption
  <2>3. ASSUME userConnMap[s][u] # NoConn PROVE UsedAt(s, u)
    <3>1. PICK c \in Conn : c = userConnMap[s][u]
      BY <1>1, <2>3 DEF IndInv, TypeOK
    <3>2. /\ ServerOf[c] = s /\ session[c] = u
          /\ pc[c] \notin LeavePC \cup {"login_update", "login_insert"}
      BY <1>1, <2>3, <3>1 DEF IndInv, NoDanglingEntry, StrayIsRaced
    <3>3. pc[c] \in EnteredPC
      BY <1>1, <3>2 DEF IndInv, TypeOK, PC, LoginPC, LeavePC, EnteredPC
    <3> QED
      BY <3>2, <3>3 DEF UsedAt, Holders
  <2> QED
    BY <2>1, <2>2, <2>3
<1> QED
  BY <1>1, Inductive, PTL
=============================================================================
