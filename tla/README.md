# Cluster chat server: TLA+ models and proofs

A verification project for the cluster chat server in `src/`: a C++ chat
service whose server processes share one MySQL database and one Redis, run
behind an nginx load balancer, and are built on a small reactor network library
(`src/src/net`) that is part of the repository.

## 1. The system

```
 clients ---tcp--- nginx ---tcp--- server process (several, alike)
                                     main loop      Acceptor, TcpServer
                                     4 sub loops    TcpConnection -> ChatServer -> ChatService
                                     observer       Redis::observer_channel_message -> ChatService
                                         |  SQL, one statement at a time       |  PUBLISH / SUBSCRIBE
                                       MySQL (User, OfflineMessage,          Redis
                                              Friend, AllGroup, GroupUser)
```

| component | state | operations | interacts with | hard part | correct when |
|---|---|---|---|---|---|
| **Chat service** (`chatService.cc`, models, `redis.cc`, server `main.cc`) | `_userConnMap` under `_mutex`; column `state`, table `OfflineMessage`; subscriptions | login, loginout, oneChat, groupChat, clientCloseException, reset, handleRedisSubsribeMessage | every component | handlers of other connections and servers interleave between any two statements; crash; SIGINT; Redis is asynchronous | accounts are exclusive, messages reach their addressee or are stored, entries and subscriptions follow sessions |
| **Directory** (reg, addFriend, createGroup, addGroup; friend and group models) | tables User, Friend, AllGroup, GroupUser | single INSERTs; createGroup is two; the login queries | chat service | the second statement fails | a group has a creator; friends and groups a login lists exist |
| **Redis context** (`redis.cc`) | two hiredis contexts and their buffers | publish, subscribe, unsubscribe, observer loop | chat service | `_subcribe_context` is used by four loops and read by the observer without a lock | commands arrive whole and in order |
| **MySQL wrapper** (`db.cc`) | a connection per statement | connect, update, query | models | a failure is only logged | - |
| **TCP connections** (`TcpServer.cc`, `TcpConnection.cc`, `Channel.cc`, `EpollPoller.cc`) | `connections_`, `state_`, channel `events_`/`index_`, `outputBuffer_` | newConnection, handlerRead/Write/Close, send, sendInLoop, connectionDestroyed | event loop, buffer, chat service | sends from other threads through functors with a bare `this`; closing passes through two loops; partial writes | nothing touches a deleted connection, output is in order and not stuck, closed connections are deleted |
| **Event loop** (`EventLoop.cc`) | `pendingFunctors_`, `callingPendingFunctors_`, eventfd, `quit_` | loop, runInLoop/queueInLoop, wakeup, handleRead, quit | every component of the library | wakeups lost between the push and poll; quit racing the start | it is a FIFO task queue that never sleeps over work |
| **Loop threads** (`EventLoopThread.cc`, `EventLoopThreadPool.cc`, `Thread.cc`) | `loop_`, `exiting_`, the round-robin index | startLoop, threadFunc, getNextLoop, destructor | event loop | publication of a stack-allocated loop; destruction | the owner gets a loop; join returns |
| **Buffer** (`Buffer.h`, `Buffer.cc`) | vector, reader and writer index | append, readFd, writeFd, retrive, makeSpace | connections | boundaries of growing, moving up and spilling | a byte queue that never writes past its vector |
| **Framing and dispatch** (`chatServer.cc`, `public.hpp`) | none | onMessage: the whole input buffer is one JSON request | buffer, chat service | TCP may split or join requests | each request is handled once |
| **Client** (`client/main.cc`) | current user, semaphore, `g_isLoginSuccess` | main menu, login, register, receiver thread | server | two threads, a semaphore, 1024-byte reads | the menu wakes for its own answer |
| Acceptor, Logger, Timestamp, InetAddress, Socket, JSON | thin wrappers | - | - | - | not modelled: no state a property depends on, or third-party (section 7) |

`PROJECT.json` lists the same components with their source files, and under
`hazards` the places of the code where a test hardly reaches and the
properties that watch them.

## 2. Modules

```
 ChatCluster  -- implements -->  SessionRegistry      MCChatCluster: its instances
              -- implements -->  MessageFate
 ChatDirectory                                        MCChatDirectory: its instances
 ChatClient     (client <-> one loop of a server)
 NetConnection  (takes its loops to be task queues)   MCNetConnection: its instance
 EventLoop    -- implements -->  TaskQueue
 TcpStream    -- implements -->  ByteStream (twice: input and output)
   |_ extends Buffer
```

Proofs are in `<module>_proofs`; those of `ChatCluster` also in
`ChatDelivery_proofs`. A module that a theorem is about has no recursive operator,
names its assumptions on its constants, and keeps its properties beside its
actions. A mutated form of a definition, which one of the mutants in
`PROJECT.json` uses, stands before the original and is marked `mutant`.

Each layer relies on what the one below is shown to promise. `ChatCluster` sends
on connections and lets a connection's handlers run one after the other:
`NetConnection` shows that what it sends on exists, `EventLoop` that a loop is a
queue of tasks. `ChatClient` has one byte stream each way: that is what
`TcpStream` implements. The server never asks whether a connection that logs in
has a session already. `ChatClient` shows that the shipped client logs in only
where it has none (`RequestsFitSession`), except after the server has thrown a
loginout away; `ChatCluster` and `NetConnection` therefore let a connection log in
again at any time, and their properties name what such a second login leaves
behind (`stray`, `twice`).

Left of the plan: the hiredis buffers of `_subcribe_context` command by command
(today a command is whole, or lost);
the start-up of the thread pool and `~TcpServer`, which `main` never reaches.

## 3. Modules and code

### ChatCluster, SessionRegistry and MessageFate

State: the two tables that matter (`userState`, `offlineMsg`), per server
`_userConnMap` and the owner of `_mutex` where it is held across steps, Redis
(`pipe`: commands sent and not processed; `subs`: who is subscribed; `inbound`:
messages an observer has not taken; `deaf`: servers whose subscription context
has lost its connection), and per connection slot the TCP state, the program
point of the handler that runs on it (`pc`) and its locals. `session` is the account
the client on the connection uses. `addressed`, `sent`, `raced`, `stray` and `ended`
are history.

Every database statement, Redis command and section under `_mutex` is one step:

| code | actions |
|---|---|
| `ChatService::login` | `LoginQuery` (query and test), `LoginUpdate` / `LoginUpdateFails`, `LoginInsert`, `LoginSubscribe`, `LoginRead`, `LoginRemove`, `LoginAck` |
| `oneChat`, `groupChat` | `Chat`, then per recipient `DeliverHere`, or `DeliverElsewhere`, `Lookup`, and `Publish` or `Store`; `_mutex` is kept until the last recipient |
| `loginout` | `Loginout`, `Unsubscribe`, `SetOffline` |
| `handlerClose` + `clientCloseException` | `Close`, `CloseErase`, `Unsubscribe`, `SetOffline` |
| Redis server | `Redis`, `Published` |
| `observer_channel_message` + `handleRedisSubsribeMessage` | `Observe`, `ObserveStore`, `LoseRedis` |
| end of a process, `resetHandler` | `Crash`, `Sigint`, `Exit` |

`LoseRedis` is what `redis.cc:116` does when `redisGetReply` fails: the observer
deals with the replies that had arrived and its thread ends. From then on
`AppendCommand` fails for this server, which neither `login` nor `loginout` notices,
until the process is started again (`Wipe`). A `PUBLISH` that fails is not noticed
either (`Publish`).

Abstractions. A message is a member of `Msg`, sent at most once. `sent` means
accepted by `send` of a connection that was up; what becomes of it on the wire is
`NetConnection` and `TcpStream`. A message is for one account or for a set of them,
the other members of a group; the lock is kept from one to the next. Login attempts that change nothing (wrong
password, account online, failed query) are left out. The friend and group
queries of the login answer have no state here. A failed statement was not
applied, but the fetch of the offline messages may stop after any of the rows
(`mysql_use_result`), which `LoginRead` takes for the end of them. A server that
ends is started again at once. A command lost to the shared output buffer (`torn`)
is a fault that may strike at any time: besides the loop threads the observer is at
that buffer, whose `redisGetReply` writes out what is in it.

A login on a connection that has an account leaves that account behind, its entry,
flag and subscription included: it becomes `stray`, and so does what
`clientCloseException`, which erases one entry, leaves of a connection that is in
several. Nothing in the code comes back to such an account but a loginout under its
id or SIGINT.

`SessionRegistry` is what this amounts to for accounts: a lock that a connection
takes and gives back. Under `using <- Using`, where `Using` is the session from
login's UPDATE on, `LoginUpdate` is `Take`, and each other step gives back what some
connections use and may damage accounts, or does nothing. An account that is in
use may be taken only if it is marked as damaged with that step or was before.

`MessageFate` is what it amounts to for messages, recipient by recipient. Under
`waiting <- Waiting` (with a chat handler or before an observer), `stored <- Stored`
(rows of `OfflineMessage`) and `fetched <- Fetched` (the `vec` of a login) a copy is
submitted with its message, dealt with by the server that accepted it (sent, stored,
published or lost), dealt with by a server it was published to (two may be
subscribed), fetched by a login, removed from the table, or sent with the answer.
No step makes a copy again once it was dealt with, and each takes one copy from one
place, with two exceptions: `End`, which is told by `ended` and takes all that the
process had in its memory, waiting, published or fetched, and nothing else; and
`LoseSubscription`, told by `deaf`, which takes some of what was published there. None
but a login's remove takes rows away, and that only if the login was given some; an
answer holds what was fetched and all of it. That a remove takes rows the login did
not read is part of it: the code does so (section 4), and it is `NothingLost` that
this breaks. Which of the copies that are dealt with may be lost is the matter of
`NoLossWhenSettled`.

### ChatDirectory

The handlers that only read and write tables: registration, `addFriend`,
`createGroup`, `addGroup`, and the listing of groups that a login makes. A step is a
statement. `mysql_insert_id` is `lastId` of the handler, because each statement has a
`MySQL` object, and so a connection, of its own: `reg` and `createGroup` take two
steps (INSERT, then the use of the id), `queryGroups` one for the groups and one for
the members of each. `AddCreator` may fail unnoticed, and `Crash` may end a handler
between its statements. The schema is not in the repository: ids are taken to
count up and names to be unique, which is what the client's message on a failed
registration presumes. Ids a client types in (the friend, the group to join) are
any number.

### ChatClient

Both threads of `client/main.cc` and the one loop of the server that serves its
connection.

| code | actions |
|---|---|
| `main`, `mainMenu` and its commands | `Login`, `Register`, `Wake` (after `sem_wait`), `Command`, `Loginout`, `Quit` |
| `readTaskHandler` | `Recv`, `Respond` (`doLoginResponse`, `doRegResponse`), `Post`, `RecvEnd` |
| `ChatServer::onMessage` and the handlers | `OnMessage`, `LoginRefused`, `LoginInsert`, `LoginAck`, `RegAck`, `HandleCommand`, `HandleLoginout` |
| sends of other threads, end of a round | `ChatFromElsewhere`, `DoPendingFunctors` |
| loginout of another connection under the same account | `LoseEntry` |
| close, end of the server | `HandleClose`, `ServerEnds` |

A request is three pieces on the stream (two of its text, and the NUL the client
sends after it), an answer two. One `OnMessage` or `Recv` takes any number of the
pieces that are there, so TCP may cut and merge in every way that matters: half
a text makes `json::parse` throw, on the server out of the loop's thread; of two
requests in one read the second is lost, because the lexer ends at the NUL and
`retrieveAllAsString` has emptied the buffer; two answers in one `recv`, or half
of one, end the client. `discarded` records that the server has thrown a request
away. `lists` is whose friends and groups the client keeps.

The entries of this connection in `_userConnMap` also depend on others: `LoginInsert`
makes none where a crossed login of the account has one already
(`unordered_map::insert`), and `LoseEntry` is their loginout, which erases by id. The
history variable `crossed` holds the accounts logged in here whose entry was not made
or is gone for one of these reasons, and `Session` is both: the accounts logged in on
the connection. Messages for a crossed account do not come this way.

### NetConnection

`MaxConn` connections are accepted on the main loop and dealt out to `NumLoops`
sub loops. For each: `state_`, `events_`, `index_` in the poller, the events poll
has reported and not yet handled, whether its output buffer holds something.
For each loop the queue of functors; for each thread whether it is inside
`handlerClose` or about to send on a connection it found under `_mutex`. An
object is deleted when no `shared_ptr` to it is left (`Held`): in `connections_`,
in `_userConnMap`, in a functor other than `sendInLoop`'s, or on the stack of
`handlerClose`. `_userConnMap` is by account: `Login` keeps an entry another connection
has and does not ask for one this connection has, `Loginout` erases by id,
whichever connection the entry holds, and `ClientCloseException` erases one entry.
`twice` records the connections that logged in while they were entered. The functors
of `sendInLoop` are bound to a bare `this`
(`TcpConnection.cc:233`), and the module asks whether they can outlive it.
`kDisConnecting` does not arise: `shutdown` is called only from
`clientCloseException`, on connections that are already `kDisconnected`.

### TaskQueue and EventLoop

`TaskQueue` is what the rest of the library relies on: `Submit` appends, `Run`
takes the first. `EventLoop` is the loop thread (`pcL`), the threads that queue to
it (`pcT`), and the owner that starts and destroys it. The push under `mutex_` and
the following `wakeup()` are separate steps (`QueueInLoop`, `Wakeup`); so are
`quit_ = true` and its `wakeup()` (`Quit`, `QuitWakeup`). `poll` returns with the
wakeup channel only when the eventfd counter is not zero (`wakeupFd`; the value
of the counter does not matter, `handleRead` takes all of it), with sockets
(`PollIO`) at any time, with both, or with nothing (`PollTimeout`). The other
channels are one event `io`: what matters is that their callbacks queue functors.
`doPendingFunctors` swaps the queue out and runs it one functor at a time, and a
functor may queue another (`QueueFromLoop`), which wakes the loop only when
`callingPendingFunctors_` is set.

### Buffer, TcpStream and ByteStream

`Buffer` has no state: it is the operations of the class as operators on a record
of data, size and the two indices. The bytes are numbered in the order in which
they come in. `Appended`, `ReadInto` (`readFd` with its 64 KiB spill buffer) and
`Retrived` follow the code branch by branch; `Holds(b, t, p)` says that `b` has bytes
`t + 1` to `p` in order within its vector. A write past the end of the vector is not
there to be read back, so an error in `makeSpace` shows there.

`TcpStream` is one connection with two such buffers. Output: `SendInLoop` writes to
the socket if nothing waits, and keeps what the socket does not take for
`HandlerWrite`; the socket takes any part of what it is offered, or the peer is
gone and every write fails. Input: `HandleRead` reads any number of bytes and hands
all that is readable to `onMessage`. `ByteStream` is what one direction of TCP
promises: bytes come out in their order, none missing, none twice. The module
instantiates it as `In` and as `Out`.

## 4. Checks

| run | instance | shows |
|---|---|---|
| `main` | 2 servers with 2 and 1 connections, 2 accounts, 1 message to any of them, 2 logins, one fault of any kind | `SingleSession`, `NoMisdelivery`, `NoDanglingEntry`, `AbsenceHolds`, `SubscriptionSettles`, `NoLossWhenSettled`; refinement of `MessageFate` (`IsFate`) |
| `live` | 1 server with 2 connections, 2 accounts that log in and a third, 1 message to one of them or to a group of two, 2 logins; a failing statement, a torn command, a loss of Redis or a crash | `IndInv`; refinement of `SessionRegistry` (`IsRegistry`); every handler ends (`HandlersFinish`) and every accepted message is dealt with (`AcceptedIsResolved`), although `_mutex` is held across database calls and from one recipient to the next, and the observer may be gone |
| `directory` | 2 handlers, 2 names, 2 groups, 1 row of Friend | `IndInv`, `ToldIdIsOwn`, `CreatorIsAsker`, `CreatorIsEntered`, `ListedTogether` |
| `client` | 2 accounts, 5 requests, 1 message of another thread, entries crossed by other connections | `IndInv`, `SessionInv`, `AnswerIsAwaited`, `RequestsFitSession`, `SessionAgrees`, `NoForeignChat`, `NoEntryOutlives`, `WaitEnds` |
| `net` | 3 connections, 2 sub loops, 2 accounts, 1 send | `IndInv`, `NoUseAfterDelete`, `ClosedForGood`, `OutputIsAwaited`, `ClosedIsDeleted` |
| `loop` | 2 threads, 3 functors, the owner may quit and join | `IndInv`, `SleepsOnlyIdle`, refinement of `TaskQueue`, `QueuedIsRun`, `QuitIsNoticed` |
| `stream` | prepend 1, size 2, spill 3, 9 bytes, messages up to 4 | `IndInv`, `RestIsBuffered`, `NothingHeldBack`, refinement of `ByteStream` in both directions, `AllIsWritten` |

Runs that end in a violation, each a disagreement of a comment with the code:

| run | what happens |
|---|---|
| `duplicate` | Two logins of one account that both query before either updates are both let in (`chatService.cc:62-77`; comment at line 70). |
| `lost` | A message published while its recipient's flag is online but no server is subscribed is neither delivered nor stored (`chatService.cc:77,88,250`; comments at 244, 254). |
| `reset` | After a crash accounts stay online for ever and cannot log in; only SIGINT resets them (`main.cc:20`; `chatService.hpp:55`). |
| `client_hang` | A loginout and the login after it reach the server in one read; the login is thrown away and the client waits in `sem_wait` for ever (`chatServer.cc:48`; comment at `client/main.cc:134`). |
| `stale_lists` | An account without friends that logs in on a client another account used before is shown that account's friends (`client/main.cc:210`; comment at 27). |

What else the models show, without a comment that says otherwise:

- A message stored between login's query of the offline messages and its remove
  is deleted unread (`chatService.cc:95-100`): `NothingLost` does not hold for
  this reason either.
- An account that leaves one server and enters another while Redis has not yet
  taken its UNSUBSCRIBE has two servers subscribed. A message published then is
  sent by one and stored by the other, and read a second time at the next login.
- A chat and a loginout that the server reads as one lose the loginout, and the
  client logs in as another account on the same connection. The entry of the first
  account stays (nothing in login asks for it), so what is sent to that account goes
  to the client of the second; its flag stays online, so it cannot log in; and when
  the connection closes, one of the two entries stays with it, so its object and its
  descriptor are never released. `NoMisdelivery`, `NoDanglingEntry`, `ClosedIsDeleted`
  and the properties of `ChatClient` except exactly these accounts, connections and
  reads (`stray`, `twice`, `discarded`); nothing else makes them fail.
- After two crossed logins of one account the map of a server keeps the first
  connection. The second client is in its main menu without an entry, and is sent
  nothing; its loginout erases the entry of the first (`crossed` in `ChatClient`).
- A fetch of the offline messages that stops midway reads as their end, and the
  remove after it deletes the rest unread.
- A server that has lost the connection of `_subcribe_context` lets accounts in as
  before, while what others publish to them reaches nobody.
- `quit()` between `startLoop`'s return and line 64 of `loop()` is overwritten, and a
  join after it would not return (`EventLoop.cc:64`). `QuitIsNoticed` speaks of a quit
  that finds the loop looping. `QueuedIsRun` makes an exception of a loop that
  was told to quit, which tests `quit_` before it runs what still waits
  (`EventLoop.cc:67`). `main` never destroys a running server (SIGINT ends in
  `exit`), so both concern users of the library.
- The comment at `TcpConnection.cc:174` says that data is lost at the `write` of
  `sendInLoop`. It looks stale: what the call leaves over goes to `outputBuffer_`,
  and a queued `sendInLoop` is bound to a copy of the text, a `std::string`.
  `OutputIsStream` and `AllIsWritten` hold with no exception for it.

### Bounds

`Budget` caps the logins and the faults: one fault, of any of the kinds in `Faults`,
may strike at any step. `Active` are the accounts that log in, `Recipients` the sets of
accounts a message may be for; the slots, accounts and messages are finite sets.
Two logins are what any race on one account needs; one account can use them to
leave and come back, and one connection to log in twice. Two servers, one of them
with two connections, give every relation two connections can have: same server,
different servers, sender and recipient. A crash ends one server, and what it leaves
behind meets the other. A group with two recipients, one of whom never logs in,
is in `live`, where the lock it keeps between them is what the other connection and
the observer wait for; in `main` a message has one recipient. With one message an answer to a login holds all of
it or nothing; that it holds all of several is part of the theorem `ClusterIsFate`,
which has no bounds. Two faults in one run are likewise left to the proofs, which
cover every budget.

Two functors from different threads and one queued by a functor are all `loop`
needs for each branch of `queueInLoop`; three also let the queue be swapped with
one more coming. Three connections on two loops put two on one loop and one on
another; the accounts they may name overlap (`Names`: the third connection both, each
of the others one), so that a connection is entered twice, finds its account taken,
and has its entry erased by another; the one send can be cut short, wait in the queue of a loop while its
connection closes, and race the erase from `_userConnMap`. Buffer sizes are small
so that growing, moving up and spilling all happen within nine bytes, several
times. Five requests let a client log in, use a command, log out, log in as
another and use a command again. Two handlers and two groups are enough for
every statement of one to come between any two of the other. The proofs of
section 5 remove these bounds for what they cover.

`CHECK_DEADLOCK FALSE` stands where the system may stop: after the loop was
destroyed, after the client exited, and where the connections or bytes of the
instance are used up.

Symmetry (accounts, the connections of one server, handlers, names) is used in
the runs that check invariants or action properties, never in one with a liveness
property.

### Fairness

`ChatCluster`: weak fairness of each connection's handler, of each observer, of
Redis and of `exit()`. A blocked `std::mutex` gives no fairness of its own; weak
fairness is enough because messages and logins are bounded, so the lock cannot be
taken from a waiting thread for ever. Clients may fall silent, faults need not
happen. `EventLoop`: the loop thread, the owner and the threads inside `wakeup`
run. Neither the ten-second timeout of poll nor ready sockets are relied on, so
a functor is run because of its wakeup and nothing else. `NetConnection`: the
threads run, and a functor runs if its loop comes to its functors again and again
(strong fairness: `doPendingFunctors` comes in every round, however much the next
poll reports); that clients connect, send or hang up is not assumed.
`TcpStream`: the peer, as long as it is there, reads. `ChatClient`: the main thread
returns from `sem_wait` once it can, the receiving thread and the server's loop run
and are brought the bytes on their way; the person at the menu may do nothing.

## 5. Proofs

All checked by TLAPS, for every value of the constants that the named
assumptions of the modules allow.

**ChatCluster.** `Spec => []IndInv` (`Inductive`) from `ClusterAssumption` (each
connection has a server; the markers are no members of the sets they mark). No
safety invariant of the module is inductive alone; the parts of `IndInv` lean on
one another:

- `TypeOK` needs `Control`: a handler past the query has an account, a chat
  handler has a message.
- `NoDanglingEntry` needs `Control`: an entry is erased before the session it was
  made for ends, or the account is marked `stray` with the step that leaves it
  behind: a second login on the connection, or the close that erases another one.
- `AbsenceHolds` is the lock: `LoginInsert`, the only step that makes an entry,
  needs `_mutex`, which the handler that found the recipient absent still holds.
- `NoMisdelivery` needs `Provenance` (all that is stored, read, published or being
  delivered was addressed to its user) and `NoDanglingEntry` (the connection
  found under an id is used by that account, unless it is `stray`).
- `SingleSession` needs `FlagIsLock`: for an undamaged account a connection with a
  session implies the flag is up, so another login is not let through. An
  account is *damaged* (`raced`) once two logins crossed, a SIGINT reset it while
  online, a subscription command of it was lost, or a second login left it behind
  (`StrayIsRaced`). The theorem says that these are the only ways to lose
  exclusiveness.
- `Subscribed` says that what a server with Redis has asked for amounts to a
  subscription exactly while an undamaged account is used there, between the
  two commands of its session. It needs `Entered` (a session is entered from
  insert to erase, and its closing handler knows which account to unsubscribe)
  and `SingleSession` (nobody else's commands are about the account). A step either
  sends no command about the account (the lemmas on quiet steps) or is one of the
  two commands, for which `WillAppend` says what a command at the end of the pipe
  does, and `WillTail` that Redis taking the first changes nothing of the outcome.

From it: `TypeCorrect`, `SessionsExclusive`, `NeverMisdelivered`, `EntriesAreLive`,
`LockedLookups`, `SubscriptionsFollow`. `ChatDelivery_proofs` adds three theorems about
steps. `MessagesKept` (`NoLossWhenSettled`): a message leaves a handler only with its
recipient dealt with and an observer only as the first of its sequence, and
then it is sent to the connection entered for the account, which is the
account's own and up since it is settled (`SettledEntry`), appended before an
observer that is subscribed, or stored. `ClusterIsRegistry` (`IsRegistry`): each step
but login's UPDATE keeps or gives back the accounts in use, and that one is `Take`:
if the account is in use and undamaged, `FlagIsLock` has its flag online, which the
step marks as a race. `ClusterIsFate` (`IsFate`): a step that deals with a copy removes
no other, which takes that no two handlers have the same message and none is twice
before an observer (`Copies`); a login that reaches its remove has fetched something
and one that starts has fetched nothing, which is `Control`; the end of a process is
`End` of its server, and a lost Redis connection `LoseSubscription`. A step that takes
away several copies, or one it does not deal with, has no counterpart in
`MessageFate`, so the theorem says that there is none.

**ChatDirectory.** `DirectoryInductive`: rows are only ever added, so what a
handler inserted or read stays so, and `lastId` is written by the handler's own
INSERT alone. Hence `IdsAreOwn`, `CreatorsAreAskers`,
`CreatorsAreEntered` and `ListingsAgree`.

**ChatClient.** `ClientInductive`, with `AnswersAreAwaited` as its point: an answer
that the main thread waits for, or the request for it, is in one of five places
(on its way up, with the server, on its way down, with the receiving thread,
posted) and never in two. So the receiving thread writes the globals, which no lock
guards, only while the main thread waits, and no `sem_wait` returns for an old
post. It holds whatever is cut, merged or thrown away.

`SessionInductive` is about the session both ends think the connection has. None of
`RequestsFitSession`, `SessionAgrees`, `NoForeignChat` and `NoEntryOutlives` is inductive: a
request that fits when it is handled was sent long before, behind others that
were still to change the session. `SessionInv` therefore reads the whole stream.
`ServerSession`: what is on its way up continues the session the server has,
piece by piece, each request following the one before (`Follows`: commands of one
account, its one loginout, then somebody's login). `ClientSession`: it ends where the
client is, and with nothing on its way the server, or the answer on its way down,
is there too. The session is `Session`, entered or crossed: a step that lets another
connection hold or erase the entry moves an account from one to the other part of
it. `ChatsFit`: each message on its way down, each functor still to send one and each
account of the session is the one the client will be when it comes to it, which is that of the last accepted login before it (`Becomes`). `Reads` says when
the server takes requests in at all: the NUL of an earlier request left at the head
of the stream makes `parse` throw, and the loop ends. All but `KindsAgree` and
`NothingQueued` hold only while no request was `discarded`, which the run `client_hang`
shows cannot be left out. Hence `RequestsFit`, `BothAgree`, `ChatsAreOwn` and
`EntriesAreErased`.

**NetConnection.** `NetInductive`. `References` says where the references to a
connection are at each moment of its life: `_userConnMap` refers to it only while it is
open, or closed with its handler at the lock, or for good if it logged in twice
(`EnteredOnce` otherwise, so that the one entry that is erased is all); and that behind a bare pointer in the
queue of a loop stands either its entry in `connections_` or, later in the same
queue, a functor with the last `shared_ptr`; `Queues` that this functor does come
later and on the same loop; `Threads` that who is about to send holds the lock the
erase from `_userConnMap` needs; `Registered` that the channel follows the state.
Hence `NoDangling`, `ClosedStaysOut` and `OutputWaits`.

**EventLoop.** `LoopInductive`: a queued functor has a wakeup behind it unless this
round of the loop has yet to take it; hence `NeverSleepsOverWork`, and the
refinement step by step: a step of the loop is `Submit`, `Run` or a stutter of
`TaskQueue` under `tasks <- functors \o pending` (`LoopIsTaskQueue`). The swap stutters
because `functors` is empty whenever `callingPendingFunctors_` is not set.

**Buffer and TcpStream.** `AppendedHolds`, `ReadIntoHolds` and `RetrivedHolds` say of
every buffer that `Holds` its stretch of a stream what the operations make of it,
for every prepend, initial and spill size. With them `StreamInductive`, `RestWaits`,
`ReadsAreWhole`, and both refinements of `ByteStream` (`InputRefines`,
`OutputRefines`), for every cut the socket makes.

Every invariant, action property and refinement of a passing run is proved. Only
model-checked is liveness (`HandlersFinish`, `AcceptedIsResolved`, `WaitEnds`,
`ClosedIsDeleted`, `QueuedIsRun`, `QuitIsNoticed`, `AllIsWritten`): liveness under
fairness and ENABLED are beyond the proof system, as is induction over data.

## 6. Running

In this directory, with the TLA+ tools, the community modules and TLAPS:

```
tlc -config MCChatCluster_Main.cfg MCChatCluster        (Live, Duplicate, Lost, Reset)
tlc -config MCChatDirectory_Tables.cfg MCChatDirectory
tlc -config ChatClient_Session.cfg ChatClient           (Hang, Lists)
tlc -config MCNetConnection_Life.cfg MCNetConnection
tlc -config EventLoop_Run.cfg EventLoop
tlc -config TcpStream_Bytes.cfg TcpStream
tlapm ChatCluster_proofs.tla                            (and the other *_proofs.tla)
```

## 7. Not modelled

- The JSON library: `thirtpart/json.hpp` is third-party and, with 21045 of the
  25436 lines, most of the repository, so a small share of all lines can be
  mapped at best. What `parse` does with a piece of input is in `ChatClient`.
- `testJson` and the build files: experiments and generated code.
- Logger, Timestamp, InetAddress, Socket: formatting and thin wrappers of system
  calls. Acceptor: `accept`, whose result is `NewConnection` of `NetConnection`. When
  no descriptor is left it logs and returns, and poll reports the listening
  socket again at once.
- hiredis and the MySQL client library: outside the repository; modelled from
  how the code uses them.
- `~TcpServer`, a server without sub loops, the write-complete and high-water
  callbacks (never set), `shutdown` of an open connection (no caller).
- The text of requests, passwords, wording and log output; the lengths of
  messages (a message too long for the 1024 bytes of a statement is an INSERT
  that fails, one too long for `recv` a text that is cut). `buffer[len] = 0` of the
  client writes past the array when `recv` fills it (`client/main.cc:298`); the
  models have no addresses.
- A `SIGPIPE` from a write to a connection its peer has reset (nothing ignores the
  signal) ends the process; `Crash` of `ChatCluster` covers what follows, not the
  signal. Timeouts exist only in poll and decide nothing.
