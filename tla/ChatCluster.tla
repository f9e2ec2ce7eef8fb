---------------------------- MODULE ChatCluster ----------------------------
(***************************************************************************)
(* The chat service of a cluster: ChatService on every server process, the *)
(* User and OfflineMessage tables of the one MySQL database they share,    *)
(* and the Redis publish/subscribe channels between them.                  *)
(*                                                                         *)
(* A connection is served by the thread of its sub loop, so the handlers   *)
(* of one connection run one after the other while those of different      *)
(* connections interleave; the pool has four sub loops per server and      *)
(* deals connections out in turn, so up to four connections of a server    *)
(* have a thread each.  Besides them a server runs one observer thread     *)
(* that takes the messages of the Redis subscription.  One step of the     *)
(* model is one database command, one Redis command, one handler section   *)
(* under _mutex, or one reply the observer takes.                          *)
(***************************************************************************)
EXTENDS Naturals, Sequences, FiniteSets

CONSTANTS
  Server,      \* server processes
  Conn,        \* connection slots; a slot is used again after it closed
  User,        \* registered accounts (rows of table User)
  Msg,         \* chat messages the clients send, each at most once
  ServerOf,    \* the server nginx gave a connection to
  Observer,    \* the observer thread of a server, as an owner of its _mutex
  NoConn,      \* end() of a search in _userConnMap; also: _mutex is free
  NoUser,      \* a User object whose id is still -1
  NoMsg,       \* the connection is not handling a chat message
  Recipients,  \* whom a message may be for: one account, or the other members
               \* of a group
  Active,      \* bound: the accounts that ever log in
  Faults,      \* the kinds of faults that may happen
  Budget       \* bound: how many logins are let through, and how many faults
               \* happen, whatever their kinds

Fault == {"db", "crash", "reset", "torn", "redis", "publish"}
Limited == {"login", "fault"}

\* What the definitions and the proofs need of the constants.
ASSUME ClusterAssumption ==
  /\ ServerOf \in [Conn -> Server]
  /\ NoConn \notin Conn /\ Observer \notin Conn /\ Observer # NoConn
  /\ NoUser \notin User
  /\ NoMsg \notin Msg
  /\ Recipients \subseteq (SUBSET User) \ {{}}
  /\ Faults \subseteq Fault
  /\ Budget \in [Limited -> Nat]

VARIABLES
  userState,    \* MySQL: column state of table User
  offlineMsg,   \* MySQL: messages of table OfflineMessage, per user
  userConnMap,  \* _userConnMap of every server
  mutex,        \* owner of _mutex of every server, where it is held across steps
  pipe,         \* SUBSCRIBE and UNSUBSCRIBE commands Redis has not processed yet
  subs,         \* Redis: the servers subscribed to each user's channel
  inbound,      \* published messages a server's observer has not taken yet
  deaf,         \* servers whose _subcribe_context has lost its connection
  stopping,     \* servers inside the SIGINT handler, past reset()
  conn,         \* TcpConnection state of every slot
  pc,           \* where the handler running on the connection is
  session,      \* the account the client on the connection uses
  uid,          \* local of the handler: user.getId() or the recipient at hand
  todo,         \* recipients the chat handler has not dealt with yet
  msg,          \* the chat message it handles
  vec,          \* offline messages the login handler has read
  budget,       \* logins and faults that may still happen
  addressed,    \* history: the recipients of every message sent so far
  sent,         \* history: <<account of the client, recipient, message>> given to
                \* a live connection
  raced,        \* history: accounts whose session a race, a reset or a second
                \* login on the connection has damaged
  stray,        \* history: accounts left behind by a second login on a connection
  ended         \* history: how often the process of a server has ended

database   == <<userState, offlineMsg>>
redis      == <<pipe, subs, inbound, deaf>>
server     == <<userConnMap, mutex, stopping, ended>>
chat       == <<uid, todo, msg>>
history    == <<addressed, sent, raced, stray>>
vars == <<database, redis, server, chat, history, conn, pc, session, vec, budget>>

LoginPC   == {"login_update", "login_insert", "login_subscribe", "login_read",
              "login_remove", "login_ack"}
DeliverPC == {"deliver", "lookup", "publish", "store"}
LeavePC   == {"unsubscribe", "set_offline"}
PC        == {"idle", "close"} \cup LoginPC \cup DeliverPC \cup LeavePC

Command == [op : {"SUBSCRIBE", "UNSUBSCRIBE"}, user : User]

TypeOK ==
  /\ userState \in [User -> {"offline", "online"}]
  /\ offlineMsg \in [User -> SUBSET Msg]
  /\ userConnMap \in [Server -> [User -> Conn \cup {NoConn}]]
  /\ mutex \in [Server -> Conn \cup {NoConn, Observer}]
  /\ pipe \in [Server -> Seq(Command)]
  /\ subs \in [User -> SUBSET Server]
  /\ inbound \in [Server -> Seq(User \X Msg)]
  /\ deaf \in SUBSET Server
  /\ stopping \in SUBSET Server
  /\ conn \in [Conn -> {"free", "up", "down"}]
  /\ pc \in [Conn -> PC]
  /\ session \in [Conn -> User \cup {NoUser}]
  /\ uid \in [Conn -> User \cup {NoUser}]
  /\ todo \in [Conn -> SUBSET User]
  /\ msg \in [Conn -> Msg \cup {NoMsg}]
  /\ vec \in [Conn -> SUBSET Msg]
  /\ budget \in [Limited -> Nat]
  /\ addressed \in [Msg -> SUBSET User]
  /\ sent \in SUBSET ((User \cup {NoUser}) \X User \X Msg)
  /\ raced \in SUBSET User
  /\ stray \in SUBSET User
  /\ ended \in [Server -> Nat]

Init ==
  /\ userState = [u \in User |-> "offline"]
  /\ offlineMsg = [u \in User |-> {}]
  /\ userConnMap = [s \in Server |-> [u \in User |-> NoConn]]
  /\ mutex = [s \in Server |-> NoConn]
  /\ pipe = [s \in Server |-> <<>>]
  /\ subs = [u \in User |-> {}]
  /\ inbound = [s \in Server |-> <<>>]
  /\ deaf = {}
  /\ stopping = {}
  /\ conn = [c \in Conn |-> "free"]
  /\ pc = [c \in Conn |-> "idle"]
  /\ session = [c \in Conn |-> NoUser]
  /\ uid = [c \in Conn |-> NoUser]
  /\ todo = [c \in Conn |-> {}]
  /\ msg = [c \in Conn |-> NoMsg]
  /\ vec = [c \in Conn |-> {}]
  /\ budget = Budget
  /\ addressed = [m \in Msg |-> {}]
  /\ sent = {}
  /\ raced = {}
  /\ stray = {}
  /\ ended = [s \in Server |-> 0]
-----------------------------------------------------------------------------
(* Pieces the handlers share.                                              *)

Goto(c, l) == pc' = [pc EXCEPT ![c] = l]

\* A login is let through, or a fault of kind k happens.
Spend(k) ==
  LET of == IF k = "login" THEN "login" ELSE "fault" IN
  /\ k \in Faults \cup {"login"}
  /\ budget[of] > 0
  /\ budget' = [budget EXCEPT ![of] = @ - 1]

NoLockTaken(s) == TRUE   \* mutant: the lock_guard is missing

\* A thread that wants _mutex of server s can have it.
LockFree(s) == mutex[s] = NoConn

UpdateNoRow(u, state) == userState   \* mutant: the UPDATE matches no row

\* UserModel::update.
UpdateState(u, state) == [userState EXCEPT ![u] = state]

\* TcpConnection::send takes nothing for a connection that is no longer up.
\* What it takes is written by the connection's own loop thread.
Send(c, u, m) ==
  sent' = sent \cup {p \in {<<session[c], u, m>>} : conn[c] = "up"}

\* redisAppendCommand and redisBufferWrite on _subcribe_context.  Four loop
\* threads share its output buffer without a lock, and so does the observer,
\* whose redisGetReply writes out what is in it: a command may be lost at any
\* time.  On a context that has lost its connection both fail, which the
\* callers do not notice.
AppendCommand(c, op, u) ==
  LET s == ServerOf[c] IN
  \/ /\ s \notin deaf
     /\ pipe' = [pipe EXCEPT ![s] = Append(@, [op |-> op, user |-> u])]
     /\ UNCHANGED <<budget, raced>>
  \/ s \in deaf /\ UNCHANGED <<pipe, budget, raced>>
  \/ /\ Spend("torn")
     /\ raced' = raced \cup {u}
     /\ UNCHANGED pipe

-----------------------------------------------------------------------------
(* ChatService::login.                                                     *)

\* A new connection.  Its slot is free only when no entry refers to the
\* TcpConnection that was there before.
Connect(c) ==
  /\ conn[c] = "free"
  /\ \A u \in User : userConnMap[ServerOf[c]][u] # c
  /\ conn' = [conn EXCEPT ![c] = "up"]
  /\ UNCHANGED <<database, redis, server, chat, history, pc, session, vec, budget>>

LoginAllowed(u) == userState[u] = "offline"

\* What a login on a connection leaves behind of the account used there before.
LeaveBehind(c) ==
  /\ raced' = raced \cup ({session[c]} \ {NoUser})
  /\ stray' = stray \cup ({session[c]} \ {NoUser})

\* The query and the test of its answer.  A wrong password, an account in use
\* and a failed query are answered with errno 1 or 2 and change nothing.  Nobody
\* asks whether the connection has an account already: a client whose loginout
\* was thrown away with the rest of a read logs in a second time.
LoginQuery(c, u) ==
  /\ conn[c] = "up" /\ pc[c] = "idle"
  /\ LoginAllowed(u)
  /\ Spend("login")
  /\ session' = [session EXCEPT ![c] = u]
  /\ LeaveBehind(c)
  /\ Goto(c, "login_update")
  /\ UNCHANGED <<database, redis, server, chat, addressed, sent, conn, vec>>

\* errno 3: the account stays as it was and the client has no session.
LoginUpdateFails(c) ==
  /\ pc[c] = "login_update"
  /\ Spend("db")
  /\ session' = [session EXCEPT ![c] = NoUser]
  /\ Goto(c, "idle")
  /\ UNCHANGED <<database, redis, server, chat, history, conn, vec>>

LoginUpdate(c) ==
  /\ pc[c] = "login_update"
  /\ userState' = UpdateState(session[c], "online")
  /\ raced' = raced \cup {u \in {session[c]} : userState[u] = "online"}
  /\ Goto(c, "login_insert")
  /\ UNCHANGED <<offlineMsg, redis, server, chat, addressed, sent, stray, conn,
                 session, vec, budget>>

\* unordered_map::insert leaves an entry that is there as it is.
InsertEntry(map, u, c) == [map EXCEPT ![u] = IF @ = NoConn THEN c ELSE @]

LoginInsert(c) ==
  LET s == ServerOf[c] IN
  /\ pc[c] = "login_insert"
  /\ LockFree(s)
  /\ userConnMap' = [userConnMap EXCEPT ![s] = InsertEntry(@, session[c], c)]
  /\ Goto(c, "login_subscribe")
  /\ UNCHANGED <<database, redis, mutex, stopping, ended, chat, history, conn,
                 session, vec, budget>>

LoginSubscribe(c) ==
  /\ pc[c] = "login_subscribe"
  /\ AppendCommand(c, "SUBSCRIBE", session[c])
  /\ Goto(c, "login_read")
  /\ UNCHANGED <<database, subs, inbound, deaf, server, chat, addressed, sent,
                 stray, conn, session, vec>>

\* The rows come one by one: a query or a fetch that fails reads as the end of
\* them, and what has come so far is all the offline messages there are.
LoginRead(c) ==
  /\ pc[c] = "login_read"
  /\ \/ vec' = [vec EXCEPT ![c] = offlineMsg[session[c]]] /\ UNCHANGED budget
     \/ /\ Spend("db")
        /\ \E rows \in SUBSET offlineMsg[session[c]] : vec' = [vec EXCEPT ![c] = rows]
  /\ Goto(c, IF vec'[c] = {} THEN "login_ack" ELSE "login_remove")
  /\ UNCHANGED <<database, redis, server, chat, history, conn, session>>

LoginRemove(c) ==
  /\ pc[c] = "login_remove"
  /\ \/ offlineMsg' = [offlineMsg EXCEPT ![session[c]] = {}] /\ UNCHANGED budget
     \/ Spend("db") /\ UNCHANGED offlineMsg
  /\ Goto(c, "login_ack")
  /\ UNCHANGED <<userState, redis, server, chat, history, conn, session, vec>>

AnswersNothing(u, rows) == sent   \* mutant: the rows do not get into the answer

\* The answer to the login of u contains the rows.
Answered(u, rows) == sent \cup ({u} \X {u} \X rows)

LoginAck(c) ==
  /\ pc[c] = "login_ack"
  /\ sent' = Answered(session[c], vec[c])
  /\ vec' = [vec EXCEPT ![c] = {}]
  /\ Goto(c, "idle")
  /\ UNCHANGED <<database, redis, server, chat, addressed, raced, stray, conn,
                 session, budget>>

-----------------------------------------------------------------------------
(* ChatService::oneChat, with one recipient, and groupChat, with the other *)
(* members of a group.  Both hold _mutex until the last recipient is dealt *)
(* with; a recipient costs no other step than those below.                 *)

Chat(c, m, R) ==
  /\ conn[c] = "up" /\ pc[c] = "idle" /\ session[c] # NoUser
  /\ addressed[m] = {}
  /\ \/ Cardinality(R) = 1
     \/ session[c] \notin R
  /\ addressed' = [addressed EXCEPT ![m] = R]
  /\ todo' = [todo EXCEPT ![c] = R]
  /\ msg' = [msg EXCEPT ![c] = m]
  /\ Goto(c, "deliver")
  /\ UNCHANGED <<database, redis, server, uid, sent, raced, stray, conn, session,
                 vec, budget>>

NeverReleased(c, u) == c   \* mutant: _mutex stays locked after the last one

\* Owner of _mutex once the recipient u is dealt with.
OwnerAfter(c, u) == IF todo[c] = {u} THEN NoConn ELSE c

\* The rest of an iteration of the loop, and the return after the last one.
NextRecipient(c, u) ==
  /\ todo' = [todo EXCEPT ![c] = @ \ {u}]
  /\ uid' = [uid EXCEPT ![c] = NoUser]
  /\ msg' = [msg EXCEPT ![c] = IF todo[c] = {u} THEN NoMsg ELSE @]
  /\ mutex' = [mutex EXCEPT ![ServerOf[c]] = OwnerAfter(c, u)]
  /\ Goto(c, IF todo[c] = {u} THEN "idle" ELSE "deliver")
  /\ UNCHANGED <<userConnMap, stopping, ended, addressed, raced, stray, conn, session, vec>>

\* The recipient has a connection here.
DeliverHere(c) ==
  LET s == ServerOf[c] IN
  /\ pc[c] = "deliver"
  /\ mutex[s] \in {NoConn, c}
  /\ \E u \in todo[c] :
       /\ userConnMap[s][u] # NoConn
       /\ Send(userConnMap[s][u], u, msg[c])
       /\ NextRecipient(c, u)
  /\ UNCHANGED <<database, redis, budget>>

DeliverElsewhere(c) ==
  LET s == ServerOf[c] IN
  /\ pc[c] = "deliver"
  /\ mutex[s] \in {NoConn, c}
  /\ \E u \in todo[c] :
       /\ userConnMap[s][u] = NoConn
       /\ uid' = [uid EXCEPT ![c] = u]
  /\ mutex' = [mutex EXCEPT ![s] = c]
  /\ Goto(c, "lookup")
  /\ UNCHANGED <<database, redis, userConnMap, stopping, ended, todo, msg, history,
                 conn, session, vec, budget>>

\* A query that fails returns a User whose state is "offline".
Lookup(c) ==
  /\ pc[c] = "lookup"
  /\ \/ Goto(c, IF userState[uid[c]] = "online" THEN "publish" ELSE "store")
        /\ UNCHANGED budget
     \/ Spend("db") /\ Goto(c, "store")
  /\ UNCHANGED <<database, redis, server, chat, history, conn, session, vec>>

\* Redis copies the message to every server subscribed at this moment.
Published(u, m) ==
  [s \in Server |-> IF s \in subs[u] THEN Append(inbound[s], <<u, m>>) ELSE inbound[s]]

\* A PUBLISH that fails is not noticed.
Publish(c) ==
  LET u == uid[c] IN
  /\ pc[c] = "publish"
  /\ \/ inbound' = Published(u, msg[c]) /\ UNCHANGED budget
     \/ Spend("publish") /\ UNCHANGED inbound
  /\ NextRecipient(c, u)
  /\ UNCHANGED <<database, pipe, subs, deaf, sent>>

NotStored(u, m) == UNCHANGED <<offlineMsg, budget>>   \* mutant: the INSERT is forgotten

\* OfflineMsgModel::insert; an INSERT that fails is not noticed.
StoreOffline(u, m) ==
  \/ offlineMsg' = [offlineMsg EXCEPT ![u] = @ \cup {m}] /\ UNCHANGED budget
  \/ Spend("db") /\ UNCHANGED offlineMsg

Store(c) ==
  /\ pc[c] = "store"
  /\ StoreOffline(uid[c], msg[c])
  /\ NextRecipient(c, uid[c])
  /\ UNCHANGED <<userState, redis, sent>>
-----------------------------------------------------------------------------
(* ChatService::loginout, and handlerClose with the clientCloseException   *)
(* it calls: erase the entry, unsubscribe, put the account offline.        *)

EntryKept(map, u) == map   \* mutant: the entry is found but not erased

EraseEntry(map, u) == [map EXCEPT ![u] = NoConn]

\* Erases by id, whichever connection the entry holds.
Loginout(c) ==
  LET s == ServerOf[c]  u == session[c] IN
  /\ conn[c] = "up" /\ pc[c] = "idle" /\ u # NoUser
  /\ LockFree(s)
  /\ uid' = [uid EXCEPT ![c] = IF userConnMap[s][u] = NoConn THEN NoUser ELSE u]
  /\ userConnMap' = [userConnMap EXCEPT ![s] = EraseEntry(@, u)]
  /\ Goto(c, "unsubscribe")
  /\ UNCHANGED <<database, redis, mutex, stopping, ended, todo, msg, history, conn,
                 session, vec, budget>>

\* handleRead met the end of the stream: setState(kDisconnected).
Close(c) ==
  /\ conn[c] = "up" /\ pc[c] = "idle"
  /\ conn' = [conn EXCEPT ![c] = "down"]
  /\ Goto(c, "close")
  /\ UNCHANGED <<database, redis, server, chat, history, session, vec, budget>>

\* The accounts that are entered with connection c, at its server.
EnteredWith(c) == {u \in User : userConnMap[ServerOf[c]][u] = c}

\* Erases the first entry that holds the connection, if there is one; the order
\* of the entries is not known.  Others that hold it stay.
CloseErase(c) ==
  LET s == ServerOf[c] IN
  /\ pc[c] = "close"
  /\ LockFree(s)
  /\ \/ \E u \in EnteredWith(c) :
          /\ userConnMap' = [userConnMap EXCEPT ![s] = EraseEntry(@, u)]
          /\ uid' = [uid EXCEPT ![c] = u]
          /\ raced' = raced \cup (EnteredWith(c) \ {u})
          /\ stray' = stray \cup (EnteredWith(c) \ {u})
     \/ EnteredWith(c) = {} /\ UNCHANGED <<userConnMap, uid, raced, stray>>
  /\ Goto(c, "unsubscribe")
  /\ UNCHANGED <<database, redis, mutex, stopping, ended, todo, msg, addressed, sent,
                 conn, session, vec, budget>>

\* The end of the handler: the client's session is over, and a closed
\* connection is destroyed.
Left(c) ==
  /\ Goto(c, "idle")
  /\ session' = [session EXCEPT ![c] = NoUser]
  /\ uid' = [uid EXCEPT ![c] = NoUser]
  /\ conn' = [conn EXCEPT ![c] = IF @ = "down" THEN "free" ELSE @]

ChannelUnset(c) ==   \* mutant: the closing handler never fills in user's id
  IF conn[c] = "up" THEN session[c] ELSE NoUser

\* loginout names the channel of the request; clientCloseException that of the
\* entry it found, or channel -1, of which Redis takes no notice.
Channel(c) == IF conn[c] = "up" THEN session[c] ELSE uid[c]

Unsubscribe(c) ==
  /\ pc[c] = "unsubscribe"
  /\ \/ Channel(c) # NoUser /\ AppendCommand(c, "UNSUBSCRIBE", Channel(c))
     \/ Channel(c) = NoUser /\ UNCHANGED <<pipe, budget, raced>>
  /\ \/ /\ uid[c] # NoUser
        /\ Goto(c, "set_offline")
        /\ UNCHANGED <<session, uid, conn>>
     \/ uid[c] = NoUser /\ Left(c)
  /\ UNCHANGED <<database, subs, inbound, deaf, server, todo, msg, addressed,
                 sent, stray, vec>>

\* An UPDATE that fails is not noticed.
SetOffline(c) ==
  /\ pc[c] = "set_offline"
  /\ \/ userState' = UpdateState(uid[c], "offline") /\ UNCHANGED budget
     \/ Spend("db") /\ UNCHANGED userState
  /\ Left(c)
  /\ UNCHANGED <<offlineMsg, redis, server, todo, msg, history, vec>>

-----------------------------------------------------------------------------
(* Redis takes the commands of a subscription socket in order, and the     *)
(* observer thread the messages in order: handleRedisSubsribeMessage runs  *)
(* under _mutex, its INSERT included.                                      *)

Redis(s) ==
  LET r == Head(pipe[s]) IN
  /\ pipe[s] # <<>>
  /\ pipe' = [pipe EXCEPT ![s] = Tail(@)]
  /\ subs' = [subs EXCEPT ![r.user] = IF r.op = "SUBSCRIBE" THEN @ \cup {s} ELSE @ \ {s}]
  /\ UNCHANGED <<database, inbound, deaf, server, chat, history, conn, pc,
                 session, vec, budget>>

Observe(s) ==
  LET u == Head(inbound[s])[1]
      m == Head(inbound[s])[2]
      c == userConnMap[s][u] IN
  /\ inbound[s] # <<>>
  /\ LockFree(s)
  /\ \/ /\ c # NoConn
        /\ Send(c, u, m)
        /\ inbound' = [inbound EXCEPT ![s] = Tail(@)]
        /\ UNCHANGED mutex
     \/ /\ c = NoConn
        /\ mutex' = [mutex EXCEPT ![s] = Observer]
        /\ UNCHANGED <<sent, inbound>>
  /\ UNCHANGED <<database, pipe, subs, deaf, userConnMap, stopping, ended, chat,
                 addressed, raced, stray, conn, pc, session, vec, budget>>

ObserveStore(s) ==
  /\ mutex[s] = Observer
  /\ StoreOffline(Head(inbound[s])[1], Head(inbound[s])[2])
  /\ inbound' = [inbound EXCEPT ![s] = Tail(@)]
  /\ mutex' = [mutex EXCEPT ![s] = NoConn]
  /\ UNCHANGED <<userState, pipe, subs, deaf, userConnMap, stopping, ended, chat,
                 history, conn, pc, session, vec>>

\* The connection of _subcribe_context breaks.  redisGetReply still yields what
\* had been received, then fails: the observer thread ends, and nothing ever
\* connects again.  Redis drops the subscriptions of the server.
LoseRedis(s) ==
  /\ s \notin deaf
  /\ Spend("redis")
  /\ deaf' = deaf \cup {s}
  /\ pipe' = [pipe EXCEPT ![s] = <<>>]
  /\ subs' = [u \in User |-> subs[u] \ {s}]
  /\ \E received \in 0 .. Len(inbound[s]) :
       /\ mutex[s] = Observer => received > 0
       /\ inbound' = [inbound EXCEPT ![s] = SubSeq(@, 1, received)]
  /\ UNCHANGED <<database, server, chat, history, conn, pc, session, vec>>

-----------------------------------------------------------------------------
(* The end of a server process, after which it is started again.  Its      *)
(* sockets close, and Redis drops its subscriptions; the database stays.   *)

OnServer(f, s, v) == [c \in Conn |-> IF ServerOf[c] = s THEN v ELSE f[c]]

Wipe(s) ==
  /\ userConnMap' = [userConnMap EXCEPT ![s] = [u \in User |-> NoConn]]
  /\ mutex' = [mutex EXCEPT ![s] = NoConn]
  /\ pipe' = [pipe EXCEPT ![s] = <<>>]
  /\ subs' = [u \in User |-> subs[u] \ {s}]
  /\ inbound' = [inbound EXCEPT ![s] = <<>>]
  /\ deaf' = deaf \ {s}
  /\ stopping' = stopping \ {s}
  /\ ended' = [ended EXCEPT ![s] = @ + 1]
  /\ conn' = OnServer(conn, s, "free")
  /\ pc' = OnServer(pc, s, "idle")
  /\ session' = OnServer(session, s, NoUser)
  /\ uid' = OnServer(uid, s, NoUser)
  /\ todo' = OnServer(todo, s, {})
  /\ msg' = OnServer(msg, s, NoMsg)
  /\ vec' = OnServer(vec, s, {})
  /\ UNCHANGED <<database, history>>

Crash(s) == Spend("crash") /\ Wipe(s)

\* resetHandler runs reset() on the main thread while the sub loops go on; it
\* sets every account of the table offline, also those other servers serve.
Sigint(s) ==
  /\ s \notin stopping
  /\ Spend("reset")
  /\ stopping' = stopping \cup {s}
  /\ userState' = [u \in User |-> "offline"]
  /\ raced' = raced \cup {u \in User : userState[u] = "online"}
  /\ UNCHANGED <<offlineMsg, redis, userConnMap, mutex, ended, chat, addressed,
                 sent, stray, conn, pc, session, vec>>

Exit(s) == s \in stopping /\ Wipe(s) /\ UNCHANGED budget

-----------------------------------------------------------------------------
HandlerStep(c) ==
  \/ LoginUpdate(c) \/ LoginUpdateFails(c) \/ LoginInsert(c) \/ LoginSubscribe(c)
  \/ LoginRead(c) \/ LoginRemove(c) \/ LoginAck(c)
  \/ DeliverHere(c) \/ DeliverElsewhere(c) \/ Lookup(c) \/ Publish(c) \/ Store(c)
  \/ CloseErase(c) \/ Unsubscribe(c) \/ SetOffline(c)

ClientStep(c) ==
  \/ Connect(c)
  \/ \E u \in User \cap Active : LoginQuery(c, u)
  \/ \E m \in Msg, R \in Recipients : Chat(c, m, R)
  \/ Loginout(c)
  \/ Close(c)

ObserverStep(s) == Observe(s) \/ ObserveStore(s)

Next ==
  \/ \E c \in Conn : ClientStep(c) \/ HandlerStep(c)
  \/ \E s \in Server :
       Redis(s) \/ ObserverStep(s) \/ LoseRedis(s) \/ Crash(s) \/ Sigint(s) \/ Exit(s)

Spec == Init /\ [][Next]_vars

\* Threads that can run do run, Redis answers, and exit() ends.  A client may
\* fall silent at any time, and faults need not happen.
Fairness ==
  /\ \A c \in Conn : WF_vars(HandlerStep(c))
  /\ \A s \in Server : WF_vars(Redis(s)) /\ WF_vars(ObserverStep(s)) /\ WF_vars(Exit(s))

FairSpec == Spec /\ Fairness

-----------------------------------------------------------------------------
(* Properties.                                                             *)

\* The connections whose client uses account u: login has put the flag online.
Holders(u) == {c \in Conn : session[c] = u /\ pc[c] # "login_update"}

\* An account nobody's race or reset has damaged is used on one connection of
\* the whole cluster, and entered in the _userConnMap of one server, at most:
\* the flag in the database is the cluster's lock on an account, taken in
\* login before the entry is made and given back after the entry is erased.
SingleSession ==
  \A u \in User \ raced :
    /\ \A c, d \in Holders(u) : c = d
    /\ \A s, t \in Server : userConnMap[s][u] # NoConn /\ userConnMap[t][u] # NoConn => s = t

\* A client is sent what is addressed to the account it uses, whatever path
\* the message took and however sessions changed meanwhile.  Only what is for an
\* account that a second login on its connection left behind may reach the
\* client that uses the next account there.
NoMisdelivery ==
  \A p \in sent :
    /\ p[2] \in addressed[p[3]]
    /\ p[1] = p[2] \/ p[2] \in stray

\* _userConnMap names connections served by this server and, unless a second
\* login left the account behind, connections that still exist, under the
\* account their client logged in with: no entry outlives its session.
NoDanglingEntry ==
  \A s \in Server, u \in User :
    LET c == userConnMap[s][u] IN
    c # NoConn =>
      /\ ServerOf[c] = s
      /\ u \notin stray =>
           /\ session[c] = u /\ conn[c] # "free"
           /\ pc[c] \notin LeavePC \cup {"login_update", "login_insert"}

\* The recipient a chat handler, or the observer, found absent from
\* _userConnMap is still absent when the handler acts on that: the lock is
\* held across the database query and the PUBLISH or INSERT.
AbsenceHolds ==
  /\ \A c \in Conn :
       pc[c] \in {"lookup", "publish", "store"} =>
         /\ mutex[ServerOf[c]] = c
         /\ userConnMap[ServerOf[c]][uid[c]] = NoConn
  /\ \A s \in Server :
       mutex[s] = Observer =>
         /\ inbound[s] # <<>>
         /\ userConnMap[s][Head(inbound[s])[1]] = NoConn

\* Whether server s will be subscribed to u once Redis has taken its commands:
\* the last of them about u subscribes, or none is about u and s is subscribed.
WillBeSubscribed(s, u) ==
  \/ \E i \in DOMAIN pipe[s] :
       /\ pipe[s][i] = [op |-> "SUBSCRIBE", user |-> u]
       /\ \A j \in DOMAIN pipe[s] : j > i => pipe[s][j].user # u
  \/ s \in subs[u] /\ \A i \in DOMAIN pipe[s] : pipe[s][i].user # u

\* Away from the handlers that are entering or leaving, the commands a server
\* that has Redis has sent for an undamaged account amount to a subscription exactly when
\* the account is entered there: no subscription leaks, none goes missing.
SubscriptionSettles ==
  \A s \in Server \ deaf, u \in User \ raced :
    (\A c \in Conn : ServerOf[c] = s /\ session[c] = u => pc[c] \notin {"login_subscribe", "unsubscribe"})
      => (WillBeSubscribed(s, u) <=> userConnMap[s][u] # NoConn)

\* The message m for u is still in the program's hands.
InHands(u, m) ==
  \/ \E c \in Conn : msg[c] = m /\ u \in todo[c]
  \/ \E s \in Server : \E i \in DOMAIN inbound[s] : inbound[s][i] = <<u, m>>

\* The user u is settled: an idle or chatting connection is entered for it,
\* Redis has processed its server's subscription and no command is under way.
Settled(u) ==
  \E c \in Conn :
    LET s == ServerOf[c] IN
    /\ conn[c] = "up" /\ pc[c] \in DeliverPC \cup {"idle"}
    /\ userConnMap[s][u] = c
    /\ s \in subs[u]
    /\ \A i \in DOMAIN pipe[s] : pipe[s][i].user # u

\* The cluster is a lock on accounts: an account is taken by the UPDATE of login
\* when no connection uses it, and given back when its handler has left or its
\* process ends.
Using == [c \in Conn |-> IF pc[c] = "login_update" THEN NoUser ELSE session[c]]

Registry == INSTANCE SessionRegistry WITH using <- Using, damaged <- raced

IsRegistry == Registry!Spec

\* Where the copies of the messages are: with the handlers of a server, before
\* its observer, in the database, and with the login handler of a connection.
Handled(c)   == todo[c] \X {msg[c]}
Waiting      == [s \in Server |-> UNION {Handled(c) : c \in {d \in Conn : ServerOf[d] = s}}]
Before(s)    == {inbound[s][i] : i \in DOMAIN inbound[s]}
BeforeAll    == [s \in Server |-> Before(s)]
Stored       == UNION {{u} \X offlineMsg[u] : u \in User}
Fetched      == [c \in Conn |-> {session[c]} \X vec[c]]
Given        == {<<p[2], p[3]>> : p \in sent}

\* The cluster deals with every copy of a message as MessageFate says: none comes
\* back, none goes but by being sent, stored, published or with its process, and
\* what is stored outlives everything but the next login.
Fate == INSTANCE MessageFate
  WITH waiting <- Waiting, published <- BeforeAll, stored <- Stored,
       fetched <- Fetched, sent <- Given

IsFate == Fate!Spec

\* A message on its way to an undamaged account that is settled is not lost:
\* the step that takes it out of the program's hands, if no fault strikes and
\* no process ends in it, has sent it to the user or stored it.
NoLossWhenSettled ==
  [][\A u \in User \ raced, m \in Msg :
       /\ InHands(u, m) /\ Settled(u)
       /\ stopping' = stopping /\ budget'["fault"] = budget["fault"]
       => InHands(u, m)' \/ <<u, u, m>> \in sent' \/ m \in offlineMsg'[u]]_vars

\* Every handler comes to its end: no thread waits for ever for _mutex.
HandlersFinish == \A c \in Conn : pc[c] # "idle" ~> pc[c] = "idle"

\* Every message that was accepted leaves the program's hands: it does not sit
\* for ever in a handler, in Redis or before the observer.
AcceptedIsResolved == \A u \in User, m \in Msg : InHands(u, m) ~> ~InHands(u, m)
-----------------------------------------------------------------------------
(* The inductive invariant behind the safety properties.                   *)

\* What holds at each program point of a handler.
Control ==
  \A c \in Conn :
    /\ conn[c] = "free" => pc[c] = "idle" /\ session[c] = NoUser
    /\ conn[c] = "down" => pc[c] \in {"close"} \cup LeavePC
    /\ pc[c] = "close" => conn[c] = "down"
    /\ pc[c] \in LoginPC \cup DeliverPC => session[c] \in User
    /\ pc[c] \in DeliverPC => msg[c] \in Msg
    /\ todo[c] # {} <=> pc[c] \in DeliverPC
    /\ msg[c] # NoMsg => pc[c] \in DeliverPC
    /\ pc[c] \in {"lookup", "publish", "store"} => uid[c] \in todo[c]
    /\ pc[c] \in LeavePC => uid[c] \in {session[c], NoUser} \cup stray
    /\ pc[c] = "set_offline" => uid[c] \in User
    /\ pc[c] \notin LeavePC \cup {"lookup", "publish", "store"} => uid[c] = NoUser
    /\ vec[c] # {} => pc[c] \in {"login_remove", "login_ack"}
    /\ pc[c] = "login_remove" => vec[c] # {}

\* Wherever a message is on its way to an account, it is addressed to it.
Provenance ==
  /\ \A c \in Conn :
       /\ \A m \in vec[c] : session[c] \in addressed[m]
       /\ pc[c] \in DeliverPC => todo[c] \subseteq addressed[msg[c]]
  /\ \A u \in User : \A m \in offlineMsg[u] : u \in addressed[m]
  /\ \A s \in Server : \A i \in DOMAIN inbound[s] :
       inbound[s][i][1] \in addressed[inbound[s][i][2]]

\* A message is handled once: no two handlers have it, and what Redis has given
\* to a server is there once and with no handler any more.
Copies ==
  /\ \A c, d \in Conn : msg[c] = msg[d] /\ msg[c] # NoMsg => c = d
  /\ \A s \in Server : \A i \in DOMAIN inbound[s] :
       /\ \A j \in DOMAIN inbound[s] : inbound[s][i] = inbound[s][j] => i = j
       /\ \A c \in Conn : inbound[s][i] \notin Handled(c)

\* An account left behind counts as damaged.
StrayIsRaced == stray \subseteq raced

\* The flag of an undamaged account is up as long as a client uses it.
FlagIsLock ==
  \A u \in User \ raced : Holders(u) # {} => userState[u] = "online"

\* Where a client that uses its account is entered and subscribed.
EnteredPC == {"idle", "login_read", "login_remove", "login_ack", "close"} \cup DeliverPC

\* An undamaged account is entered from login's insert until its own handler
\* erases the entry, which then knows the account to unsubscribe.
Entered ==
  \A u \in User \ raced : \A c \in Holders(u) :
    /\ pc[c] \in EnteredPC \cup {"login_subscribe"} => userConnMap[ServerOf[c]][u] = c
    /\ pc[c] \in LeavePC => uid[c] = u

\* A session of u on server s is between its two commands to Redis.
UsedAt(s, u) ==
  \E c \in Holders(u) : ServerOf[c] = s /\ pc[c] \in EnteredPC \cup {"unsubscribe"}

\* What a server that has Redis has asked for amounts to a subscription just
\* while an undamaged account is used there.
Subscribed ==
  \A s \in Server \ deaf, u \in User \ raced : WillBeSubscribed(s, u) <=> UsedAt(s, u)

IndInv ==
  /\ TypeOK
  /\ Control
  /\ NoDanglingEntry
  /\ AbsenceHolds
  /\ Provenance /\ NoMisdelivery
  /\ Copies /\ StrayIsRaced
  /\ FlagIsLock /\ SingleSession
  /\ Entered /\ Subscribed

-----------------------------------------------------------------------------
(* What comments of the source say and the code does not do.               *)

\* chatService.cc:70: an account may not be logged in twice.
NoDuplicateLogin == \A u \in User : \A c, d \in Holders(u) : c = d

\* chatService.cc:239, 244 and 254: a recipient is here and gets the message,
\* or is online at another server and gets it there, or else it is stored.
\* No message is lost.
NothingLost ==
  \A m \in Msg : \A u \in addressed[m] :
    \/ InHands(u, m)
    \/ \E a \in User \cup {NoUser} : <<a, u, m>> \in sent
    \/ m \in offlineMsg[u]
    \/ \E c \in Conn : session[c] = u /\ m \in vec[c]

\* chatService.hpp:55: reset() puts things right after a server failed.  An
\* account that is online with no session does not stay so.
FailureIsReset ==
  \A u \in User :
    userState[u] = "online" /\ Holders(u) = {} ~> userState[u] = "offline" \/ Holders(u) # {}
=============================================================================
