------------------------------ MODULE EventLoop ------------------------------
(***************************************************************************)
(* One EventLoop on the thread of its EventLoopThread, and the threads     *)
(* that hand it functors: the main loop, the other sub loops and the Redis *)
(* observer.  One of them, the owner, starts the thread and destroys it.   *)
(*                                                                         *)
(* Channels other than the wakeup channel are one event, "io": their       *)
(* callbacks matter here by the functors they queue.  Nothing but poll     *)
(* blocks the loop; the ten seconds after which it gives up waiting are an *)
(* action no property counts on.                                           *)
(***************************************************************************)
EXTENDS Naturals, Sequences, Functions

CONSTANTS
  Thread,     \* the threads besides the loop's own
  Owner,      \* the one that has the EventLoopThread object
  Functor     \* what they queue, each functor once

ASSUME LoopAssumption == Owner \in Thread

VARIABLES
  pcL,        \* where the loop thread is
  pcT,        \* where each other thread is in queueInLoop, startLoop or the destructor
  loop,       \* loop_ of EventLoopThread is not null
  pending,    \* pendingFunctors_
  functors,   \* the local of doPendingFunctors, less what it has run
  calling,    \* callingPendingFunctors_
  wakeupFd,   \* the eventfd counter is not zero
  active,     \* activeChannels_ not handled yet
  quit,       \* quit_
  ran         \* history: functors in the order they were started

local == <<functors, calling, active>>
vars == <<pcL, pcT, loop, pending, local, wakeupFd, quit, ran>>

LoopPC   == {"create", "enter", "check", "poll", "dispatch", "run", "functor", "exit", "gone"}
ThreadPC == {"idle", "wake"}
OwnerPC  == ThreadPC \cup {"starting", "quit", "join", "joined"}

TypeOK ==
  /\ pcL \in LoopPC
  /\ pcT \in [Thread -> OwnerPC]
  /\ loop \in BOOLEAN
  /\ pending \in Seq(Functor)
  /\ functors \in Seq(Functor)
  /\ calling \in BOOLEAN
  /\ wakeupFd \in BOOLEAN
  /\ active \in SUBSET {"wakeup", "io"}
  /\ quit \in BOOLEAN
  /\ ran \in Seq(Functor)

Init ==
  /\ pcL = "create"
  /\ pcT = [t \in Thread |-> IF t = Owner THEN "starting" ELSE "idle"]
  /\ loop = FALSE
  /\ pending = <<>>
  /\ functors = <<>>
  /\ calling = FALSE
  /\ wakeupFd = FALSE
  /\ active = {}
  /\ quit = FALSE
  /\ ran = <<>>

-----------------------------------------------------------------------------
(* The loop thread: ThreadFunc and EventLoop::loop.                        *)

\* The EventLoop is built and published under mutex_.
ThreadFunc ==
  /\ pcL = "create"
  /\ loop' = TRUE
  /\ pcL' = "enter"
  /\ UNCHANGED <<pcT, pending, local, wakeupFd, quit, ran>>

EnterLoop ==
  /\ pcL = "enter"
  /\ quit' = FALSE
  /\ pcL' = "check"
  /\ UNCHANGED <<pcT, loop, pending, local, wakeupFd, ran>>

CheckQuit ==
  /\ pcL = "check"
  /\ pcL' = IF quit THEN "exit" ELSE "poll"
  /\ UNCHANGED <<pcT, loop, pending, local, wakeupFd, quit, ran>>

PollReturns(A) ==
  /\ pcL = "poll"
  /\ active' = A
  /\ pcL' = "dispatch"
  /\ UNCHANGED <<pcT, loop, pending, functors, calling, wakeupFd, quit, ran>>

\* The wakeup channel is level-triggered.
PollWakeup == wakeupFd /\ \E A \in {{"wakeup"}, {"wakeup", "io"}} : PollReturns(A)

\* Sockets are ready; with more events than the list holds, the wakeup channel
\* waits for the next poll.
PollIO == PollReturns({"io"})

PollTimeout == ~wakeupFd /\ PollReturns({})

\* handleRead takes the whole counter.
HandleRead ==
  /\ pcL = "dispatch" /\ "wakeup" \in active
  /\ wakeupFd' = FALSE
  /\ active' = active \ {"wakeup"}
  /\ UNCHANGED <<pcL, pcT, loop, pending, functors, calling, quit, ran>>

\* The callbacks of the ready sockets have returned.
HandleIO ==
  /\ pcL = "dispatch" /\ "io" \in active
  /\ active' = active \ {"io"}
  /\ UNCHANGED <<pcL, pcT, loop, pending, functors, calling, wakeupFd, quit, ran>>

CopyPending == functors' = pending /\ UNCHANGED pending   \* mutant: copied, not swapped

SwapPending == functors' = pending /\ pending' = <<>>

DoPendingFunctors ==
  /\ pcL = "dispatch" /\ active = {}
  /\ calling' = TRUE
  /\ SwapPending
  /\ pcL' = "run"
  /\ UNCHANGED <<pcT, loop, active, wakeupFd, quit, ran>>

RunFunctor ==
  /\ pcL = "run" /\ functors # <<>>
  /\ ran' = Append(ran, Head(functors))
  /\ functors' = Tail(functors)
  /\ pcL' = "functor"
  /\ UNCHANGED <<pcT, loop, pending, calling, active, wakeupFd, quit>>

FunctorReturns ==
  /\ pcL = "functor"
  /\ pcL' = "run"
  /\ UNCHANGED <<pcT, loop, pending, local, wakeupFd, quit, ran>>

FunctorsDone ==
  /\ pcL = "run" /\ functors = <<>>
  /\ calling' = FALSE
  /\ pcL' = "check"
  /\ UNCHANGED <<pcT, loop, pending, functors, active, wakeupFd, quit, ran>>

ExitLoop ==
  /\ pcL = "exit"
  /\ loop' = FALSE
  /\ pcL' = "gone"
  /\ UNCHANGED <<pcT, pending, local, wakeupFd, quit, ran>>

-----------------------------------------------------------------------------
(* queueInLoop, and runInLoop of the threads that are not the loop's.      *)

Fresh(f) == f \notin Range(ran) \cup Range(functors) \cup Range(pending)

NeverSelfWakeup == FALSE   \* mutant: only other threads wake the loop

\* The loop thread wakes itself only while it runs functors: before that,
\* doPendingFunctors is still to come in this round.
SelfWakeup == calling

\* A callback or a functor hands another functor to its own loop.
QueueFromLoop(f) ==
  /\ pcL = "functor" \/ (pcL = "dispatch" /\ "io" \in active)
  /\ Fresh(f)
  /\ pending' = Append(pending, f)
  /\ wakeupFd' = (wakeupFd \/ SelfWakeup)
  /\ UNCHANGED <<pcL, pcT, loop, local, quit, ran>>

\* Threads have the loop from startLoop until its owner destroys it.
Usable == pcT[Owner] \in ThreadPC

QueueInLoop(t, f) ==
  /\ Usable /\ pcT[t] = "idle"
  /\ Fresh(f)
  /\ pending' = Append(pending, f)
  /\ pcT' = [pcT EXCEPT ![t] = "wake"]
  /\ UNCHANGED <<pcL, loop, local, wakeupFd, quit, ran>>

Wakeup(t) ==
  /\ pcT[t] = "wake"
  /\ wakeupFd' = TRUE
  /\ pcT' = [pcT EXCEPT ![t] = "idle"]
  /\ UNCHANGED <<pcL, loop, pending, local, quit, ran>>

-----------------------------------------------------------------------------
(* The owner: EventLoopThread::startLoop and ~EventLoopThread.             *)

\* cond_.wait with its predicate.
StartLoop ==
  /\ pcT[Owner] = "starting" /\ loop
  /\ pcT' = [pcT EXCEPT ![Owner] = "idle"]
  /\ UNCHANGED <<pcL, loop, pending, local, wakeupFd, quit, ran>>

\* EventLoop::quit on behalf of the destructor; no thread may be using the
\* loop any more.
Quit ==
  /\ \A t \in Thread : pcT[t] = "idle"
  /\ loop
  /\ quit' = TRUE
  /\ pcT' = [pcT EXCEPT ![Owner] = "quit"]
  /\ UNCHANGED <<pcL, loop, pending, local, wakeupFd, ran>>

QuitSilently == UNCHANGED wakeupFd   \* mutant: quit does not wake the loop

SignalQuit == wakeupFd' = TRUE

QuitWakeup ==
  /\ pcT[Owner] = "quit"
  /\ SignalQuit
  /\ pcT' = [pcT EXCEPT ![Owner] = "join"]
  /\ UNCHANGED <<pcL, loop, pending, local, quit, ran>>

Join ==
  /\ pcT[Owner] = "join" /\ pcL = "gone"
  /\ pcT' = [pcT EXCEPT ![Owner] = "joined"]
  /\ UNCHANGED <<pcL, loop, pending, local, wakeupFd, quit, ran>>

-----------------------------------------------------------------------------
LoopStep ==
  \/ ThreadFunc \/ EnterLoop \/ CheckQuit \/ PollWakeup
  \/ HandleRead \/ HandleIO \/ DoPendingFunctors
  \/ RunFunctor \/ FunctorReturns \/ FunctorsDone \/ ExitLoop

OwnerStep == StartLoop \/ QuitWakeup \/ Join

Next ==
  \/ LoopStep \/ PollIO \/ PollTimeout
  \/ \E f \in Functor : QueueFromLoop(f) \/ \E t \in Thread : QueueInLoop(t, f)
  \/ \E t \in Thread : Wakeup(t)
  \/ OwnerStep \/ Quit

Spec == Init /\ [][Next]_vars

\* Threads run, callbacks and functors return, and poll notices the eventfd.
\* That sockets become ready, that poll times out or that the owner ever quits
\* the loop is not assumed.
Fairness ==
  /\ WF_vars(LoopStep) /\ WF_vars(OwnerStep)
  /\ \A t \in Thread : WF_vars(Wakeup(t))

FairSpec == Spec /\ Fairness

-----------------------------------------------------------------------------
(* Properties.                                                             *)

\* The eventfd is readable, or a thread is about to make it so.
WakeupComing == wakeupFd \/ \E t \in Thread : pcT[t] \in {"wake", "quit"}

\* The loop thread sleeps in poll with no wakeup coming only if it has nothing
\* to do: whoever queues a functor or asks it to quit, from whichever thread
\* and at whatever moment of the round, leaves a wakeup behind.
SleepsOnlyIdle == pcL = "poll" /\ ~WakeupComing => pending = <<>> /\ ~quit

\* The loop implements a task queue: functors run once each, in the order in
\* which the threads queued them, also those queued while others run.
TQ == INSTANCE TaskQueue WITH tasks <- functors \o pending
ImplementsTaskQueue == TQ!Spec

\* A functor that was queued is run, without waiting for a socket or for the
\* timeout of poll (EventLoop.cc:108: queue cb, wake the loop's thread, run cb),
\* unless the loop is told to quit: it tests quit_ before it runs the functors
\* that still wait.
QueuedIsRun == \A f \in Functor : f \in Range(pending) ~> f \in Range(ran) \/ quit

\* Once it loops, the loop leaves when its owner calls quit, and the owner's
\* join returns.
QuitIsNoticed == quit /\ pcL \notin {"create", "enter"} ~> pcT[Owner] = "joined"

\* The invariant behind SleepsOnlyIdle and the refinement: a functor is queued
\* behind a wakeup, unless this round of the loop has still to take it; and a
\* call of quit the loop has not seen has its wakeup too.
IndInv ==
  /\ TypeOK
  /\ calling <=> pcL \in {"run", "functor"}
  /\ functors # <<>> => calling
  /\ pending # <<>> => WakeupComing \/ pcL = "dispatch"
  /\ pcL = "poll" /\ quit => WakeupComing
=============================================================================
