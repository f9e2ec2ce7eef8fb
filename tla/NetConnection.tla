---------------------------- MODULE NetConnection ----------------------------
(***************************************************************************)
(* The life of TcpConnection objects: TcpServer makes them on the main     *)
(* loop, a sub loop serves each, any thread may send on one it finds in    *)
(* _userConnMap, and the object is deleted with its last shared_ptr.       *)
(*                                                                         *)
(* A loop is the task queue that module EventLoop implements; a functor is *)
(* a pair of what it calls and the connection it is bound to.  Those bound *)
(* to TcpConnection::sendInLoop hold a bare pointer, the others hold a     *)
(* shared_ptr.  Of the requests only what they do to _userConnMap is kept, *)
(* under whatever account they name, and that chats send.                  *)
(***************************************************************************)
EXTENDS Naturals, Sequences, FiniteSets, Functions

CONSTANTS
  MaxConn,     \* bound: connections the server accepts; nextConnId_ numbers them
  NumLoops,    \* sub loops, setThreadNum
  Observer,    \* the thread that takes the Redis messages, which sends too
  User,        \* accounts
  Names,       \* bound: the accounts that requests of a connection name
  Nobody,      \* no thread, no connection
  MaxSends     \* bound: chats that find their recipient

ASSUME NetAssumption ==
  /\ MaxConn \in Nat /\ NumLoops \in Nat \ {0} /\ MaxSends \in Nat
  /\ Observer \notin Nat /\ Nobody \notin Nat /\ Nobody # Observer
  /\ Names \in [1..MaxConn -> SUBSET User]

Conn   == 1..MaxConn
Sub    == 1..NumLoops
Main   == 0
Loop   == Sub \cup {Main}
Sender == Sub \cup {Observer}

\* getNextLoop deals the sub loops out in turn.
LoopOf(c) == ((c - 1) % NumLoops) + 1

VARIABLES
  state,         \* state_; "none" before the object exists
  connections,   \* connections_ of the TcpServer
  userConnMap,   \* _userConnMap: the connection entered for each account
  mutex,         \* owner of _mutex, where it is held across steps
  queue,         \* functors queued to each loop
  pc,            \* where each thread is in handlerClose or in sending
  cur,           \* the connection it is closing, or has found and sends on
  revents,       \* events poll has reported and the loop has not handled
  events,        \* events_ of the channel
  index,         \* index_ of the channel
  backlog,       \* outputBuffer_ is not empty
  sends,         \* sends that may still happen
  twice          \* history: connections that logged in while they were entered

accounts == <<userConnMap, twice>>
channel == <<revents, events, index>>
thread  == <<pc, cur>>
vars == <<state, connections, accounts, mutex, queue, thread, channel, backlog, sends>>

Call == {"established", "sendInLoop", "destroyed", "remove"}

TypeOK ==
  /\ state \in [Conn -> {"none", "kConnecting", "kConnected", "kDisconnected"}]
  /\ connections \in SUBSET Conn
  /\ userConnMap \in [User -> Conn \cup {Nobody}]
  /\ mutex \in Sender \cup {Nobody}
  /\ queue \in [Loop -> Seq(Call \X Conn)]
  /\ pc \in [Sender -> {"idle", "erase", "close", "send"}]
  /\ cur \in [Sender -> Conn \cup {Nobody}]
  /\ revents \in [Conn -> SUBSET {"in", "out", "hup"}]
  /\ events \in [Conn -> SUBSET {"in", "out"}]
  /\ index \in [Conn -> {"kNew", "kAdded", "kDelete"}]
  /\ backlog \in [Conn -> BOOLEAN]
  /\ sends \in Nat
  /\ twice \in SUBSET Conn

Init ==
  /\ state = [c \in Conn |-> "none"]
  /\ connections = {}
  /\ userConnMap = [u \in User |-> Nobody]
  /\ mutex = Nobody
  /\ queue = [l \in Loop |-> <<>>]
  /\ pc = [t \in Sender |-> "idle"]
  /\ cur = [t \in Sender |-> Nobody]
  /\ revents = [c \in Conn |-> {}]
  /\ events = [c \in Conn |-> {}]
  /\ index = [c \in Conn |-> "kNew"]
  /\ backlog = [c \in Conn |-> FALSE]
  /\ sends = MaxSends
  /\ twice = {}

-----------------------------------------------------------------------------
(* Pieces the handlers share.                                              *)

Queue(l, call, c) == queue' = [queue EXCEPT ![l] = Append(@, <<call, c>>)]

NoMutexTaken == TRUE   \* mutant: the lock_guard is missing

MutexFree == mutex = Nobody

IndexStays(c, ev) == "kAdded"   \* mutant: no events at all do not take the channel out

\* EpollPoller::updateChannel: the index of the channel once its events are ev.
IndexWith(c, ev) ==
  IF index[c] \in {"kNew", "kDelete"} \/ ev # {} THEN "kAdded" ELSE "kDelete"

\* Channel::update after events_ was set.
SetEvents(c, ev) ==
  /\ events' = [events EXCEPT ![c] = ev]
  /\ index' = [index EXCEPT ![c] = IndexWith(c, ev)]

SendsWhenClosed(c) == TRUE   \* mutant: sendInLoop does not look at state_

Writable(c) == state[c] # "kDisconnected"

SendUnawaited(c) ==   \* mutant: what is left in the buffer waits for no EPOLLOUT
  \/ UNCHANGED <<events, index, backlog>>
  \/ Writable(c) /\ backlog' = [backlog EXCEPT ![c] = TRUE] /\ UNCHANGED <<events, index>>

\* TcpConnection::sendInLoop: nothing for a closed connection; else all is
\* written, or nothing because the peer is gone, or some is left for EPOLLOUT.
SendInLoop(c) ==
  \/ UNCHANGED <<events, index, backlog>>
  \/ /\ Writable(c)
     /\ backlog' = [backlog EXCEPT ![c] = TRUE]
     /\ SetEvents(c, events[c] \cup {"out"})

\* _userConnMap has an entry with the connection.
Entered(c) == \E u \in User : userConnMap[u] = c

EnteredOnce(c) == \A u, v \in User : userConnMap[u] = c /\ userConnMap[v] = c => u = v

\* A sub loop is between two callbacks.
Idle(l) == pc[l] = "idle"

\* Channel::handleEvent of c goes on to event e: out after the others.
Due(c, e) ==
  /\ Idle(LoopOf(c))
  /\ e \in revents[c]
  /\ e = "out" => revents[c] = {"out"}

Handled(c, e) == revents' = [revents EXCEPT ![c] = @ \ {e}]

-----------------------------------------------------------------------------
(* TcpServer, on the main loop.                                            *)

NewConnection(c) ==
  /\ state[c] = "none"
  /\ \A d \in 1..(c - 1) : state[d] # "none"
  /\ state' = [state EXCEPT ![c] = "kConnecting"]
  /\ connections' = connections \cup {c}
  /\ Queue(LoopOf(c), "established", c)
  /\ UNCHANGED <<accounts, mutex, thread, channel, backlog, sends>>

NextFunctor(l, call, c) ==
  /\ queue[l] # <<>>
  /\ Head(queue[l]) = <<call, c>>

KeptInMap(c) == connections   \* mutant: the server never lets go of the connection

RemovedFrom(c) == connections \ {c}

RemoveConnectionInLoop(c) ==
  /\ NextFunctor(Main, "remove", c)
  /\ connections' = RemovedFrom(c)
  /\ queue' = [queue EXCEPT ![Main] = Tail(@), ![LoopOf(c)] = Append(@, <<"destroyed", c>>)]
  /\ UNCHANGED <<state, accounts, mutex, thread, channel, backlog, sends>>

-----------------------------------------------------------------------------
(* A sub loop: poll, the channels it reports, and then the functors.       *)

OnLoop(l) == {c \in Conn : LoopOf(c) = l}

\* epoll reports what a registered channel asked for, and hang-ups in any case;
\* Channel leaves a hang-up with data to handleRead.
Reportable(c) ==
  IF index[c] = "kAdded"
  THEN {ev \in SUBSET (events[c] \cup {"hup"}) : ~({"hup", "in"} \subseteq ev)}
  ELSE {{}}

\* The loop polls when it is through with the channels of the round before.
Poll(l) ==
  /\ Idle(l)
  /\ \A c \in OnLoop(l) : revents[c] = {}
  /\ revents' \in [Conn -> SUBSET {"in", "out", "hup"}]
  /\ \A c \in OnLoop(l) : revents'[c] \in Reportable(c)
  /\ \A c \in Conn \ OnLoop(l) : revents'[c] = revents[c]
  /\ revents' # revents
  /\ UNCHANGED <<state, connections, accounts, mutex, queue, thread, events,
                 index, backlog, sends>>

\* doPendingFunctors comes after all channels that were reported.
FunctorDue(c, call) ==
  /\ Idle(LoopOf(c))
  /\ \A d \in OnLoop(LoopOf(c)) : revents[d] = {}
  /\ NextFunctor(LoopOf(c), call, c)
  /\ queue' = [queue EXCEPT ![LoopOf(c)] = Tail(@)]

ConnectionEstablished(c) ==
  /\ FunctorDue(c, "established")
  /\ state' = [state EXCEPT ![c] = "kConnected"]
  /\ SetEvents(c, {"in"})
  /\ UNCHANGED <<connections, accounts, mutex, thread, revents, backlog, sends>>

SendQueued(c) ==
  /\ FunctorDue(c, "sendInLoop")
  /\ SendInLoop(c)
  /\ UNCHANGED <<state, connections, accounts, mutex, thread, revents, sends>>

\* The branch for a connection that is still kConnected belongs to ~TcpServer.
ConnectionDestroyed(c) ==
  /\ FunctorDue(c, "destroyed")
  /\ index' = [index EXCEPT ![c] = "kNew"]
  /\ UNCHANGED <<state, connections, accounts, mutex, thread, revents,
                 events, backlog, sends>>

\* handlerWrite: the socket takes all of the buffer, or some.
HandlerWrite(c) ==
  /\ Due(c, "out")
  /\ Handled(c, "out")
  /\ \/ /\ "out" \in events[c]
        /\ backlog' = [backlog EXCEPT ![c] = FALSE]
        /\ SetEvents(c, events[c] \ {"out"})
     \/ UNCHANGED <<events, index, backlog>>
  /\ UNCHANGED <<state, connections, accounts, mutex, queue, thread, sends>>

-----------------------------------------------------------------------------
(* handleRead: the request that was read is handled by ChatService.        *)

\* unordered_map::insert leaves an entry that is there as it is.  Nobody asks
\* whether the connection is entered for another account.
InsertEntry(u, c) == [userConnMap EXCEPT ![u] = IF @ = Nobody THEN c ELSE @]

EraseEntry(u) == [userConnMap EXCEPT ![u] = Nobody]

Login(c) ==
  /\ Due(c, "in") /\ Handled(c, "in")
  /\ MutexFree
  /\ \E u \in Names[c] :
       /\ userConnMap' = InsertEntry(u, c)
       /\ twice' = twice \cup {d \in {c} : userConnMap[u] = Nobody /\ Entered(d)}
  /\ UNCHANGED <<state, connections, mutex, queue, thread, events, index, backlog, sends>>

\* Erases by id, whichever connection the entry holds.
Loginout(c) ==
  /\ Due(c, "in") /\ Handled(c, "in")
  /\ MutexFree
  /\ \E u \in Names[c] : userConnMap' = EraseEntry(u)
  /\ UNCHANGED <<state, connections, mutex, queue, thread, events, index, backlog, sends, twice>>

\* TcpConnection::send on a connection found under _mutex: state_ is tested
\* now and the functor queued later.
Find(t) ==
  \E d \in {c \in Conn : Entered(c)} :
    /\ state[d] = "kConnected"
    /\ sends > 0 /\ sends' = sends - 1
    /\ MutexFree /\ mutex' = t
    /\ pc' = [pc EXCEPT ![t] = "send"]
    /\ cur' = [cur EXCEPT ![t] = d]

Chat(c) ==
  /\ Due(c, "in") /\ Handled(c, "in")
  /\ Find(LoopOf(c))
  /\ UNCHANGED <<state, connections, accounts, queue, events, index, backlog>>

\* A request without a recipient here, or a read that failed.
Nothing(c) ==
  /\ Due(c, "in") /\ Handled(c, "in")
  /\ UNCHANGED <<state, connections, accounts, mutex, queue, thread, events,
                 index, backlog, sends>>

Observe ==
  /\ pc[Observer] = "idle"
  /\ Find(Observer)
  /\ UNCHANGED <<state, connections, accounts, queue, channel, backlog>>

\* On the connection's own loop sendInLoop runs at once.
Send(t) ==
  /\ pc[t] = "send"
  /\ \/ /\ t = LoopOf(cur[t])
        /\ SendInLoop(cur[t])
        /\ UNCHANGED queue
     \/ /\ t # LoopOf(cur[t])
        /\ Queue(LoopOf(cur[t]), "sendInLoop", cur[t])
        /\ UNCHANGED <<events, index, backlog>>
  /\ mutex' = Nobody
  /\ pc' = [pc EXCEPT ![t] = "idle"]
  /\ cur' = [cur EXCEPT ![t] = Nobody]
  /\ UNCHANGED <<state, connections, accounts, revents, sends>>

-----------------------------------------------------------------------------
(* handlerClose: after read has returned 0, or on a hang-up without data.  *)

ClosedBy(c) ==
  \E e \in {"in", "hup"} : Due(c, e) /\ Handled(c, e)

HandlerClose(c) ==
  /\ ClosedBy(c)
  /\ state' = [state EXCEPT ![c] = "kDisconnected"]
  /\ SetEvents(c, {})
  /\ pc' = [pc EXCEPT ![LoopOf(c)] = "erase"]
  /\ cur' = [cur EXCEPT ![LoopOf(c)] = c]
  /\ UNCHANGED <<connections, accounts, mutex, queue, backlog, sends>>

\* clientCloseException, with its lock: the first entry that holds the connection
\* is erased, if there is one; then shutdown, which does nothing to a connection
\* that is not kConnected.
ClientCloseException(l) ==
  /\ pc[l] = "erase"
  /\ MutexFree
  /\ \/ \E u \in User : userConnMap[u] = cur[l] /\ userConnMap' = EraseEntry(u)
     \/ ~Entered(cur[l]) /\ UNCHANGED userConnMap
  /\ pc' = [pc EXCEPT ![l] = "close"]
  /\ UNCHANGED <<state, connections, mutex, queue, cur, channel, backlog, sends, twice>>

\* closeCallback_: TcpServer::removeConnection.
RemoveConnection(l) ==
  /\ pc[l] = "close"
  /\ Queue(Main, "remove", cur[l])
  /\ pc' = [pc EXCEPT ![l] = "idle"]
  /\ cur' = [cur EXCEPT ![l] = Nobody]
  /\ UNCHANGED <<state, connections, accounts, mutex, channel, backlog, sends>>

-----------------------------------------------------------------------------
\* Steps a loop thread takes by itself once it can: callbacks and functors.
HandleEvent(c) ==
  \/ HandlerWrite(c)
  \/ Login(c) \/ Loginout(c) \/ Chat(c) \/ Nothing(c) \/ HandlerClose(c)

FunctorStep(l) ==
  \E c \in OnLoop(l) : ConnectionEstablished(c) \/ SendQueued(c) \/ ConnectionDestroyed(c)

EventStep(l) ==
  \/ \E c \in OnLoop(l) : HandleEvent(c)
  \/ ClientCloseException(l) \/ RemoveConnection(l) \/ Send(l)

MainStep == \E c \in Conn : RemoveConnectionInLoop(c)

Next ==
  \/ \E c \in Conn : NewConnection(c)
  \/ \E l \in Sub : Poll(l) \/ FunctorStep(l) \/ EventStep(l)
  \/ MainStep
  \/ Observe \/ Send(Observer)

Spec == Init /\ [][Next]_vars

\* The threads run, and every round of a loop comes to its functors, however many
\* events the next poll has; that clients connect, send or close is not assumed.
Fairness ==
  /\ \A l \in Sub : WF_vars(EventStep(l)) /\ SF_vars(FunctorStep(l))
  /\ WF_vars(MainStep) /\ WF_vars(Send(Observer))

FairSpec == Spec /\ Fairness

-----------------------------------------------------------------------------
(* Properties.                                                             *)

\* The TcpServer holds a shared_ptr to the connection: in connections_, in a
\* functor other than sendInLoop's, or in the frame of handlerClose.
HeldByServer(c) ==
  \/ c \in connections
  \/ \E l \in Loop : \E call \in Call \ {"sendInLoop"} : <<call, c>> \in Range(queue[l])
  \/ \E l \in Sub : pc[l] \in {"erase", "close"} /\ cur[l] = c

\* Somebody does: the TcpServer, or the ChatService in _userConnMap.
Held(c) == HeldByServer(c) \/ Entered(c)

\* The object has been made and its last shared_ptr is gone.
Deleted(c) == state[c] # "none" /\ ~Held(c)

\* Nothing reaches a deleted connection: no sendInLoop with its bare pointer
\* waits in a queue, no thread is about to send on it, its channel is neither
\* in the poller nor among those poll reported.
NoUseAfterDelete ==
  \A c \in Conn : Deleted(c) =>
    /\ \A l \in Loop : <<"sendInLoop", c>> \notin Range(queue[l])
    /\ \A t \in Sender : pc[t] = "send" => cur[t] # c
    /\ index[c] = "kNew" /\ revents[c] = {}

\* A closed connection stays out of the poller, whatever was on its way to it
\* when it closed.
ClosedForGood ==
  \A c \in Conn : state[c] = "kDisconnected" => index[c] # "kAdded" /\ events[c] = {}

\* Output waits in the buffer of an open connection exactly while EPOLLOUT is
\* asked for: none is stuck, and no loop spins on an empty buffer.
OutputIsAwaited ==
  \A c \in Conn : state[c] = "kConnected" => (backlog[c] <=> "out" \in events[c])

\* A connection that closed is deleted in the end. What may outlive it is an entry
\* that a second login made while it was entered: nothing else leaks.
ClosedIsDeleted ==
  \A c \in Conn : state[c] = "kDisconnected" ~> Deleted(c) \/ (~HeldByServer(c) /\ c \in twice)

-----------------------------------------------------------------------------
(* The invariant behind them.                                              *)

\* A functor is queued to the loop that serves the connection, or to the main
\* loop.
Home(call, c) == IF call = "remove" THEN Main ELSE LoopOf(c)

Waiting(call, c) == <<call, c>> \in Range(queue[Home(call, c)])

\* Its thread is in handlerClose of it.
Closing(c) == pc[LoopOf(c)] \in {"erase", "close"} /\ cur[LoopOf(c)] = c

\* No functor of a connection comes after the one that destroys it, and no
\* functor but sendInLoop is queued twice.
InOrder(q) ==
  \A i, j \in DOMAIN q : i < j =>
    /\ q[i][1] = "destroyed" => q[j][2] # q[i][2]
    /\ q[i] = q[j] => q[i][1] = "sendInLoop"

Queues ==
  \A l \in Loop :
    /\ InOrder(queue[l])
    /\ \A f \in Range(queue[l]) : l = Home(f[1], f[2])

\* The connection is open, or its own thread is at the lock it needs to erase
\* the entry.
Open(c) == state[c] = "kConnected" \/ (Closing(c) /\ pc[LoopOf(c)] = "erase")

\* A thread closes only connections of its loop; one that has found a connection
\* to send on keeps it from being erased by its lock.
Threads ==
  /\ \A l \in Sub : pc[l] \in {"erase", "close"} => cur[l] \in Conn /\ LoopOf(cur[l]) = l
  /\ \A t \in Sender : pc[t] = "send" => mutex = t /\ cur[t] \in Conn /\ Open(cur[t])

\* Where the references to a connection are at each moment of its life. One that
\* is entered is open, and entered once, unless it logged in twice; one with a
\* bare pointer to it in a queue has a shared_ptr behind it.
References(c) ==
  /\ state[c] \in {"kConnecting", "kConnected"} => c \in connections
  /\ c \in connections => state[c] # "none"
  /\ Entered(c) => state[c] \in {"kConnected", "kDisconnected"}
  /\ c \notin twice => (Entered(c) => Open(c)) /\ EnteredOnce(c)
  /\ state[c] = "kConnecting" <=> Waiting("established", c)
  /\ Waiting("sendInLoop", c) =>
       /\ state[c] \in {"kConnected", "kDisconnected"}
       /\ c \in connections \/ Waiting("destroyed", c)
  /\ Closing(c) => state[c] = "kDisconnected" /\ c \in connections
  /\ Waiting("remove", c) => state[c] = "kDisconnected" /\ c \in connections /\ ~Closing(c)
  /\ Waiting("destroyed", c) => state[c] = "kDisconnected" /\ c \notin connections
  /\ state[c] = "kDisconnected" /\ c \in connections => Closing(c) \/ Waiting("remove", c)

\* The channel follows the state.
Registered(c) ==
  /\ index[c] = "kAdded" <=> state[c] = "kConnected"
  /\ state[c] \in {"none", "kConnecting"} => index[c] = "kNew" /\ ~backlog[c]
  /\ state[c] = "kConnected" => "in" \in events[c]
  /\ revents[c] # {} => index[c] # "kNew"
  /\ ~({"hup", "in"} \subseteq revents[c])
  /\ state[c] = "kDisconnected" => revents[c] \subseteq {"out"}
  /\ index[c] = "kDelete" => c \in connections \/ Waiting("destroyed", c)

IndInv ==
  /\ TypeOK /\ Queues /\ Threads
  /\ \A c \in Conn : References(c) /\ Registered(c)
  /\ ClosedForGood /\ OutputIsAwaited
=====
