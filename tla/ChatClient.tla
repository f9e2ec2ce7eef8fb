----------------------------- MODULE ChatClient -----------------------------
(***************************************************************************)
(* The console client, with its main thread and its receiving thread, and  *)
(* the loop thread of the server its one connection belongs to: how the    *)
(* byte streams between them are cut into requests and answers, who waits  *)
(* for whom, and what each end believes of the session.                    *)
(*                                                                         *)
(* A request is the text of a JSON object, cut here into a first and a     *)
(* last piece, and the NUL the client sends after it; an answer is the     *)
(* text alone.  One read takes any piece count TCP has brought.            *)
(***************************************************************************)
EXTENDS Naturals, Sequences

CONSTANTS
  User,          \* accounts
  NoUser,        \* id -1: no account yet, or none in the message
  Nothing,       \* no request, or no answer, in hand
  MaxRequests,   \* bound: requests the person at the client makes
  MaxChats       \* bound: chat messages for the accounts of this connection

ASSUME ClientAssumption ==
  NoUser \notin User /\ MaxRequests \in Nat /\ MaxChats \in Nat

VARIABLES
  pc,               \* main thread: in the start menu, in sem_wait, in mainMenu
  rwsem,            \* rwsem
  isLoginSuccess,   \* g_isLoginSuccess
  currentUser,      \* g_currentUser
  lists,            \* whose friends, and whose groups, the client keeps
  reader,           \* receiving thread
  answer,           \* the answer it handles
  up, down,         \* pieces on their way to the server, and to the client
  loop,             \* where the loop of the connection is on the server
  request,          \* the request the server handles
  functors,         \* messages other threads have queued to that loop
  userConnMap,      \* accounts for which _userConnMap holds the connection
  crossed,          \* history: accounts logged in here whose entry is not this
                    \* connection's: a crossed login has it, or its loginout erased it
  asked, chats,     \* requests and chat messages so far
  discarded,        \* history: the server has thrown away part of a read
  shown             \* history: <<current user, recipient>> of messages shown

client  == <<pc, rwsem, isLoginSuccess, currentUser, lists, reader, answer>>
state   == <<isLoginSuccess, currentUser, lists>>
entries == <<userConnMap, crossed>>
service == <<loop, request, functors, entries>>
bounds  == <<asked, chats>>
vars == <<client, up, down, service, bounds, discarded, shown>>

Waits == {"wait_login", "wait_reg"}
List  == {"friends", "groups"}

Request ==
  [kind : {"login"}, user : User] \cup [kind : {"reg"}, user : {NoUser}]
    \cup [kind : {"command", "loginout"}, user : User \cup {NoUser}]
Answer  == [kind : {"login", "reg", "chat"}, user : User \cup {NoUser},
            ok : BOOLEAN, lists : SUBSET List]

Init ==
  /\ pc = "menu" /\ rwsem = 0 /\ isLoginSuccess = FALSE
  /\ currentUser = NoUser /\ lists = [l \in List |-> NoUser]
  /\ reader = "recv" /\ answer = Nothing
  /\ up = <<>> /\ down = <<>>
  /\ loop = "poll" /\ request = Nothing /\ functors = <<>>
  /\ userConnMap = {} /\ crossed = {}
  /\ asked = 0 /\ chats = 0
  /\ discarded = FALSE /\ shown = {}

Rest(stream, n) == SubSeq(stream, n + 1, Len(stream))

-----------------------------------------------------------------------------
(* The main thread.                                                        *)

\* send() of the text and its NUL; to a server that is gone it sends nothing.
Transmit(r) ==
  /\ asked < MaxRequests
  /\ asked' = asked + 1
  /\ up' = IF loop = "ended" THEN up ELSE up \o << <<r, 1>>, <<r, 2>>, <<r, 3>> >>
  /\ UNCHANGED <<down, service, chats, discarded, shown>>

Login(u) ==
  /\ pc = "menu"
  /\ isLoginSuccess' = FALSE
  /\ Transmit([kind |-> "login", user |-> u])
  /\ pc' = "wait_login"
  /\ UNCHANGED <<rwsem, currentUser, lists, reader, answer>>

Register ==
  /\ pc = "menu"
  /\ Transmit([kind |-> "reg", user |-> NoUser])
  /\ pc' = "wait_reg"
  /\ UNCHANGED <<rwsem, state, reader, answer>>

\* sem_wait returns; a login that succeeded leads into mainMenu.
Wake ==
  /\ pc \in Waits /\ rwsem > 0
  /\ rwsem' = rwsem - 1
  /\ pc' = IF pc = "wait_login" /\ isLoginSuccess THEN "main" ELSE "menu"
  /\ UNCHANGED <<state, reader, answer, up, down, service, bounds, discarded, shown>>

\* chat, groupchat, addfriend, creategroup and addgroup: nothing is awaited.
Command ==
  /\ pc = "main"
  /\ Transmit([kind |-> "command", user |-> currentUser])
  /\ UNCHANGED client

\* Nor is it by loginout; a send that fails leaves the client in mainMenu.
Loginout ==
  /\ pc = "main"
  /\ Transmit([kind |-> "loginout", user |-> currentUser])
  /\ \/ pc' = "menu"
     \/ loop = "ended" /\ UNCHANGED pc
  /\ UNCHANGED <<rwsem, state, reader, answer>>

Quit ==
  /\ pc = "menu"
  /\ pc' = "exited"
  /\ UNCHANGED <<rwsem, state, reader, answer, up, down, service, bounds, discarded, shown>>

-----------------------------------------------------------------------------
(* The receiving thread, readTaskHandler.                                  *)

\* json::parse wants one whole text, and nothing after it.
OneText(p) == Len(p) = 2 /\ p[1][2] = 1 /\ p[2][2] = 2

AnyIsAnswer(a) == TRUE   \* mutant: a chat message posts the semaphore too

IsAnswer(a) == a.kind # "chat"

\* Otherwise parse throws, nobody catches, and the process aborts.
Recv(n) ==
  /\ pc # "exited" /\ reader = "recv"
  /\ down' = Rest(down, n)
  /\ LET p == SubSeq(down, 1, n)  a == p[1][1] IN
     \/ /\ OneText(p) /\ IsAnswer(a)
        /\ reader' = "respond" /\ answer' = a
        /\ UNCHANGED <<pc, shown>>
     \/ /\ OneText(p) /\ ~IsAnswer(a)
        /\ shown' = shown \cup {<<currentUser, a.user>>}
        /\ UNCHANGED <<pc, reader, answer>>
     \/ ~OneText(p) /\ pc' = "exited" /\ UNCHANGED <<reader, answer, shown>>
  /\ UNCHANGED <<rwsem, state, up, service, bounds, discarded>>

\* recv returns 0 or -1: exit(-1).
RecvEnd ==
  /\ pc # "exited" /\ reader = "recv" /\ loop = "ended"
  /\ pc' = "exited"
  /\ UNCHANGED <<rwsem, state, reader, answer, up, down, service, bounds, discarded, shown>>

SuccessForgotten(a) == FALSE   \* mutant: g_isLoginSuccess is not set to true

SuccessOf(a) == a.ok

\* doLoginResponse, doRegResponse.  A list the answer lacks stays as it was.
Respond ==
  /\ pc # "exited" /\ reader = "respond"
  /\ \/ /\ answer.kind = "login"
        /\ isLoginSuccess' = SuccessOf(answer)
        /\ currentUser' = IF answer.ok THEN answer.user ELSE currentUser
        /\ lists' = [l \in List |-> IF l \in answer.lists THEN answer.user ELSE lists[l]]
     \/ answer.kind # "login" /\ UNCHANGED state
  /\ reader' = "post"
  /\ UNCHANGED <<pc, rwsem, answer, up, down, service, bounds, discarded, shown>>

Post ==
  /\ pc # "exited" /\ reader = "post"
  /\ rwsem' = rwsem + 1
  /\ reader' = "recv" /\ answer' = Nothing
  /\ UNCHANGED <<pc, state, up, down, service, bounds, discarded, shown>>

-----------------------------------------------------------------------------
(* The loop of the connection: a round reads what has come, handles one    *)
(* request and runs the functors other threads have queued.                *)

Message(a) == << <<a, 1>>, <<a, 2>> >>
ChatTo(u) == [kind |-> "chat", user |-> u, ok |-> TRUE, lists |-> {}]

\* The lexer ends at a NUL: the first text, if it is whole, is the request.
BeginsWithText(p) == Len(p) >= 2 /\ p[1][2] = 1 /\ p[2][2] = 2

\* The process is gone, and what its memory held.
Ends ==
  /\ loop' = "ended" /\ request' = Nothing /\ functors' = <<>>
  /\ userConnMap' = {} /\ crossed' = {}

\* onMessage takes all that was read; what follows the first text goes with
\* it, and without a whole text parse throws out of the loop's thread.
OnMessage(n) ==
  /\ loop = "poll"
  /\ up' = Rest(up, n)
  /\ LET p == SubSeq(up, 1, n) IN
     \/ /\ BeginsWithText(p)
        /\ request' = p[1][1]
        /\ loop' = "handle"
        /\ discarded' = (discarded \/ n > 3)
        /\ UNCHANGED <<functors, entries>>
     \/ ~BeginsWithText(p) /\ Ends /\ UNCHANGED discarded
  /\ UNCHANGED <<client, down, bounds, shown>>

RoundCutShort == "poll"   \* mutant: the loop polls again before the functors run

AfterHandler == "functors"

NoReply(a) == UNCHANGED down   \* mutant: a failed registration is not answered

\* send() by the loop's own thread writes at once.
Reply(a) == down' = down \o Message(a)

Return == loop' = AfterHandler /\ request' = Nothing

Handles(kind) == loop = "handle" /\ request.kind = kind

\* Wrong password, an account in use, or a database that fails.
LoginRefused ==
  /\ Handles("login")
  /\ Reply([kind |-> "login", user |-> request.user, ok |-> FALSE, lists |-> {}])
  /\ Return
  /\ UNCHANGED <<client, up, functors, entries, bounds, discarded, shown>>

\* From here on other threads find the connection, unless the map holds another one
\* for the account, which unordered_map::insert leaves as it is.
LoginInsert ==
  /\ Handles("login")
  /\ \/ /\ userConnMap' = userConnMap \cup {request.user}
        /\ crossed' = crossed \ {request.user}
     \/ /\ request.user \notin userConnMap
        /\ crossed' = crossed \cup {request.user}
        /\ UNCHANGED userConnMap
  /\ loop' = "ack"
  /\ UNCHANGED <<client, up, down, request, functors, bounds, discarded, shown>>

\* A list that is empty, or whose query fails, is left out.
LoginAck ==
  /\ loop = "ack"
  /\ \E L \in SUBSET List :
       Reply([kind |-> "login", user |-> request.user, ok |-> TRUE, lists |-> L])
  /\ Return
  /\ UNCHANGED <<client, up, functors, entries, bounds, discarded, shown>>

RegAck ==
  /\ Handles("reg")
  /\ \E ok \in BOOLEAN : Reply([kind |-> "reg", user |-> NoUser, ok |-> ok, lists |-> {}])
  /\ Return
  /\ UNCHANGED <<client, up, functors, entries, bounds, discarded, shown>>

\* A message for an account of this connection is written at once.
HandleCommand ==
  /\ Handles("command")
  /\ \/ UNCHANGED <<down, chats>>
     \/ /\ chats < MaxChats
        /\ chats' = chats + 1
        /\ \E u \in userConnMap : Reply(ChatTo(u))
  /\ Return
  /\ UNCHANGED <<client, up, functors, entries, asked, discarded, shown>>

EntryStays(u) == userConnMap   \* mutant: loginout forgets the entry

Erased(u) == userConnMap \ {u}

HandleLoginout ==
  /\ Handles("loginout")
  /\ userConnMap' = Erased(request.user)
  /\ crossed' = crossed \ {request.user}
  /\ Return
  /\ UNCHANGED <<client, up, down, functors, bounds, discarded, shown>>

\* The loginout of another connection under the same account erases by id,
\* whichever connection the entry holds.
LoseEntry(u) ==
  /\ u \in userConnMap
  /\ userConnMap' = userConnMap \ {u} /\ crossed' = crossed \cup {u}
  /\ UNCHANGED <<client, up, down, loop, request, functors, bounds, discarded, shown>>

\* send() by another loop or the observer, which holds _mutex, queues.
ChatFromElsewhere(u) ==
  /\ u \in userConnMap /\ loop # "closed"
  /\ chats < MaxChats
  /\ chats' = chats + 1
  /\ functors' = Append(functors, u)
  /\ UNCHANGED <<client, up, down, loop, request, entries, asked, discarded, shown>>

MessagesTo(us) == [i \in 1..(2 * Len(us)) |-> <<ChatTo(us[(i + 1) \div 2]), 2 - (i % 2)>>]

\* doPendingFunctors at the end of a round, or of one begun by a wakeup.
DoPendingFunctors ==
  /\ loop = "functors" \/ (loop = "poll" /\ functors # <<>>)
  /\ down' = down \o MessagesTo(functors)
  /\ functors' = <<>>
  /\ loop' = "poll"
  /\ UNCHANGED <<client, up, request, entries, bounds, discarded, shown>>

NoneFound == userConnMap   \* mutant: clientCloseException erases nothing

\* clientCloseException erases the first entry that holds the connection.
EntriesLeft ==
  IF userConnMap = {} THEN {} ELSE userConnMap \ {CHOOSE u \in userConnMap : TRUE}

\* The client's socket is closed; with unread answers behind it, what it sent
\* last may be lost.
HandleClose ==
  /\ pc = "exited" /\ loop = "poll"
  /\ up = <<>> \/ down # <<>>
  /\ loop' = "closed" /\ functors' = <<>>
  /\ userConnMap' = EntriesLeft /\ crossed' = {}
  /\ UNCHANGED <<client, up, down, request, bounds, discarded, shown>>

ServerEnds ==
  /\ loop \notin {"ended", "closed"}
  /\ Ends
  /\ UNCHANGED <<client, up, down, bounds, discarded, shown>>

-----------------------------------------------------------------------------
MainStep == Wake \/ Command \/ Loginout \/ Register \/ Quit \/ \E u \in User : Login(u)

ReaderStep == RecvEnd \/ Respond \/ Post \/ \E n \in 1..Len(down) : Recv(n)

HandlerStep ==
  \/ LoginRefused \/ LoginInsert \/ LoginAck \/ RegAck \/ HandleCommand \/ HandleLoginout

LoopStep ==
  \/ HandlerStep \/ DoPendingFunctors \/ HandleClose
  \/ \E n \in 1..Len(up) : OnMessage(n)

Next ==
  \/ MainStep \/ ReaderStep \/ LoopStep \/ ServerEnds
  \/ \E u \in User : ChatFromElsewhere(u) \/ LoseEntry(u)

Spec == Init /\ [][Next]_vars

\* Threads that can run do run and the network delivers; the person at the
\* client may do nothing for ever.
FairSpec == Spec /\ WF_vars(Wake) /\ WF_vars(ReaderStep) /\ WF_vars(LoopStep)

-----------------------------------------------------------------------------
(* Properties.                                                             *)

Pieces(M, k) == M \X (1..k)

TypeOK ==
  /\ pc \in {"menu", "main", "exited"} \cup Waits
  /\ rwsem \in Nat
  /\ isLoginSuccess \in BOOLEAN
  /\ currentUser \in User \cup {NoUser}
  /\ lists \in [List -> User \cup {NoUser}]
  /\ reader \in {"recv", "respond", "post"}
  /\ answer \in Answer \cup {Nothing}
  /\ up \in Seq(Pieces(Request, 3))
  /\ down \in Seq(Pieces(Answer, 2))
  /\ loop \in {"poll", "handle", "ack", "functors", "closed", "ended"}
  /\ request \in Request \cup {Nothing}
  /\ functors \in Seq(User)
  /\ userConnMap \in SUBSET User /\ crossed \in SUBSET User
  /\ asked \in 0..MaxRequests /\ chats \in 0..MaxChats
  /\ discarded \in BOOLEAN
  /\ shown \in SUBSET ((User \cup {NoUser}) \X (User \cup {NoUser}))

Asks(r) == r.kind \in {"login", "reg"}

\* The places where the answer to a login or a registration can be.
InUp     == {i \in DOMAIN up : up[i][2] = 1 /\ Asks(up[i][1])}
InHand   == loop \in {"handle", "ack"} /\ Asks(request)
InDown   == {i \in DOMAIN down : down[i][2] = 1 /\ IsAnswer(down[i][1])}
InReader == reader # "recv"

\* While the main thread does not wait, no answer is on its way to it: the
\* receiving thread writes g_currentUser and the lists, which nothing guards,
\* only while the main thread waits, and no sem_wait meets an old sem_post.
AnswerIsAwaited ==
  pc \in {"menu", "main"} => InUp = {} /\ ~InHand /\ InDown = {} /\ ~InReader /\ rwsem = 0

\* The inductive invariant behind it: an answer, or the request for it, is in
\* one place at a time.
OneAnswer ==
  /\ \A i, j \in InUp : i = j
  /\ \A i, j \in InDown : i = j
  /\ rwsem <= 1
  /\ InUp # {} => ~InHand /\ InDown = {} /\ ~InReader /\ rwsem = 0
  /\ InHand => InDown = {} /\ ~InReader /\ rwsem = 0
  /\ InDown # {} => ~InReader /\ rwsem = 0
  /\ InReader => rwsem = 0 /\ answer \in Answer
  /\ loop \in {"handle", "ack"} => request \in Request
  /\ loop = "ack" => request.kind = "login"

IndInv == TypeOK /\ OneAnswer /\ AnswerIsAwaited

\* The accounts logged in on the connection: each has its entry in the map, unless
\* another connection of the account holds that or has erased it.
Session == userConnMap \cup crossed

\* What the session at the server is when it comes to handle r.
Fits(r, session) == session = IF Asks(r) THEN {} ELSE {r.user}

\* Unless requests were discarded, what the server handles fits the session
\* it has: a login comes when there is none, anything else names its account,
\* entered here or crossed by another connection.
RequestsFitSession == ~discarded /\ loop = "handle" => Fits(request, Session)

\* Unless requests were discarded, both ends agree on the session once the
\* server has handled all that was sent: a client in mainMenu has its entry, or
\* another connection of the account crossed it, and one in the menu has none.
SessionAgrees ==
  ~discarded /\ up = <<>> /\ loop = "poll" =>
    /\ pc = "main" => Session = {currentUser}
    /\ pc = "menu" => Session = {}

\* Unless requests were discarded, a chat message is shown to the account it
\* is for: none overtakes the answer to a login, none comes after the next.
NoForeignChat == ~discarded => \A s \in shown : s[1] = s[2]

\* Unless requests were discarded, a closed connection is in no entry.
NoEntryOutlives == ~discarded /\ loop = "closed" => userConnMap = {}

\* The inductive invariant behind these four.

\* What is on its way is of the kind the main thread waits for.
Awaited == IF pc = "wait_login" THEN "login" ELSE "reg"

KindsAgree ==
  pc \in Waits =>
    /\ \A i \in InUp : up[i][1].kind = Awaited
    /\ InHand => request.kind = Awaited
    /\ \A i \in InDown : down[i][1].kind = Awaited
    /\ reader = "respond" => answer.kind = Awaited

\* Nothing is queued between two sessions.
NothingQueued == loop \in {"poll", "handle"} /\ Session = {} => functors = <<>>

\* The server handles what comes next, unless the NUL of an earlier request,
\* on which parse throws, comes first.
Reads == loop \notin {"closed", "ended"} /\ (up # <<>> => up[1][2] = 1)

\* An account sends commands and one loginout, then somebody asks, and no more
\* is sent before the answer is there.
Follows(r, q) ==
  \/ r.kind = "command" /\ ~Asks(q) /\ q.user = r.user
  \/ r.kind = "loginout" /\ Asks(q)

Succeeds(x, y) ==
  IF x[2] = 3 THEN y[2] = 1 /\ Follows(x[1], y[1]) ELSE y = <<x[1], x[2] + 1>>

\* A stream that ends with the end of a request.
Whole(s) ==
  s # <<>> => s[Len(s)][2] = 3 /\ \A i \in 1..(Len(s) - 1) : Succeeds(s[i], s[i + 1])

Handling == loop \in {"handle", "ack"}

ServerSession ==
  /\ \A u, v \in Session : u = v
  /\ loop = "handle" => Fits(request, Session)
  /\ loop = "ack" => Session = {request.user}
  /\ Reads => Whole(up)
  /\ Reads /\ up # <<>> =>
       IF Handling THEN Follows(request, up[1][1]) ELSE Fits(up[1][1], Session)

\* The main thread is where the last request it sent took it.
SentLast(r) ==
  CASE pc = "main" -> r.kind = "command" /\ r.user = currentUser
    [] pc = "menu" -> r.kind = "loginout"
    [] OTHER       -> Asks(r)

Accepted(a) == a.kind = "login" /\ a.ok

Opened(a) == IF Accepted(a) THEN {a.user} ELSE {}

\* Both ends agree, and so does the answer on its way from one to the other.
AllHandled ==
  /\ pc = "main" => Session = {currentUser}
  /\ pc = "menu" => Session = {}
  /\ pc \in Waits =>
       /\ \A i \in InDown : Session = Opened(down[i][1])
       /\ reader = "respond" => Session = Opened(answer)
       /\ reader = "post" \/ rwsem > 0 =>
            Session = IF pc = "wait_login" /\ isLoginSuccess THEN {currentUser} ELSE {}

ClientSession ==
  pc # "exited" /\ Reads =>
    IF up # <<>> THEN SentLast(up[Len(up)][1])
    ELSE IF Handling THEN SentLast(request)
    ELSE AllHandled

Now == IF reader = "respond" /\ Accepted(answer) THEN answer.user ELSE currentUser

Logins(s, i) == {k \in DOMAIN s : k <= i /\ s[k][2] = 1 /\ Accepted(s[k][1])}

\* A client that is the account v is u once it has handled s up to place i.
Becomes(u, v, s, i) ==
  IF Logins(s, i) = {} THEN u = v ELSE \A k \in Logins(s, i) : u = s[k][1].user

IsCurrent(u, i) == Becomes(u, Now, down, i)

Chats(s) == {i \in DOMAIN s : s[i][2] = 1 /\ ~IsAnswer(s[i][1])}

ChatsFit ==
  pc # "exited" =>
    /\ \A i \in Chats(down) : IsCurrent(down[i][1].user, i)
    /\ loop # "ack" => \A u \in Session : IsCurrent(u, Len(down))
    /\ \A j \in DOMAIN functors :
         IF loop = "ack" THEN functors[j] = request.user ELSE IsCurrent(functors[j], Len(down))

SessionInv ==
  /\ IndInv /\ KindsAgree /\ NothingQueued
  /\ ~discarded => ServerSession /\ ClientSession /\ ChatsFit
  /\ NoForeignChat /\ NoEntryOutlives

\* Unless requests were discarded, the main thread does not wait for ever.
WaitEnds == pc \in Waits ~> pc \notin Waits \/ discarded

-----------------------------------------------------------------------------
(* What comments of the source say and the code does not do.               *)

\* main.cc:134: the receiving thread posts the semaphore when it has handled
\* the answer to the login.
LoginIsAnswered == pc = "wait_login" ~> pc # "wait_login"

\* main.cc:27: the list holds the friends of the account that is logged in.
ListsAreOwn == pc = "main" => \A l \in List : lists[l] \in {currentUser, NoUser}
=============================================================================
