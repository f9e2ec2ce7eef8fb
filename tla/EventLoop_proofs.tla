--------------------------- MODULE EventLoop_proofs ---------------------------
(***************************************************************************)
(* For every set of threads and functors: the loop never sleeps over work, *)
(* and it is a task queue.                                                 *)
(***************************************************************************)
EXTENDS EventLoop, TLAPS

LEMMA InitHolds == Init => IndInv
<1> SUFFICES ASSUME Init PROVE IndInv
  OBVIOUS
<1>1. pcT \in [Thread -> OwnerPC]
  BY DEF Init, OwnerPC, ThreadPC
<1>2. <<>> \in Seq(Functor)
  OBVIOUS
<1>3. TypeOK
  BY <1>1, <1>2 DEF Init, TypeOK, LoopPC
<1> QED
  BY <1>3 DEF Init, IndInv

\* Every step keeps the types.
LEMMA TypeStep == IndInv /\ [Next]_vars => TypeOK'
<1> SUFFICES ASSUME IndInv, [Next]_vars PROVE TypeOK'
  OBVIOUS
<1> USE DEF IndInv, TypeOK, LoopPC, ThreadPC, OwnerPC, local
<1>1. CASE ThreadFunc \/ EnterLoop \/ CheckQuit \/ ExitLoop
  BY <1>1 DEF ThreadFunc, EnterLoop, CheckQuit, ExitLoop
<1>2. CASE PollWakeup \/ PollIO \/ PollTimeout
  BY <1>2 DEF PollWakeup, PollIO, PollTimeout, PollReturns
<1>3. CASE HandleRead \/ HandleIO
  BY <1>3 DEF HandleRead, HandleIO
<1>4. CASE DoPendingFunctors
  BY <1>4 DEF DoPendingFunctors, SwapPending
<1>5. CASE RunFunctor
  <2>1. Head(functors) \in Functor /\ Tail(functors) \in Seq(Functor)
    BY <1>5 DEF RunFunctor
  <2>2. ran' \in Seq(Functor) /\ functors' \in Seq(Functor)
    BY <1>5, <2>1 DEF RunFunctor
  <2> QED
    BY <1>5, <2>2 DEF RunFunctor
<1>6. CASE FunctorReturns \/ FunctorsDone
  BY <1>6 DEF FunctorReturns, FunctorsDone
<1>7. ASSUME NEW f \in Functor, QueueFromLoop(f) PROVE TypeOK'
  BY <1>7 DEF QueueFromLoop, SelfWakeup
<1>8. ASSUME NEW f \in Functor, NEW t \in Thread, QueueInLoop(t, f) PROVE TypeOK'
  BY <1>8 DEF QueueInLoop
<1>9. ASSUME NEW t \in Thread, Wakeup(t) PROVE TypeOK'
  BY <1>9 DEF Wakeup
<1>10. CASE StartLoop \/ Quit \/ QuitWakeup \/ Join
  BY <1>10 DEF StartLoop, Quit, QuitWakeup, SignalQuit, Join
<1>11. CASE UNCHANGED vars
  BY <1>11 DEF vars
<1> QED
  BY <1>1, <1>2, <1>3, <1>4, <1>5, <1>6, <1>7, <1>8, <1>9, <1>10, <1>11
     DEF Next, LoopStep, OwnerStep

\* Every step keeps the rest: the flag matches the program point, and whatever
\* is queued has a wakeup behind it.
LEMMA WakeupStep == IndInv /\ [Next]_vars => IndInv'
<1> SUFFICES ASSUME IndInv, [Next]_vars PROVE IndInv'
  OBVIOUS
<1>t. TypeOK'
  BY TypeStep
<1> USE <1>t DEF IndInv, WakeupComing, local
<1>1. CASE ThreadFunc \/ EnterLoop \/ CheckQuit \/ ExitLoop
  BY <1>1 DEF ThreadFunc, EnterLoop, CheckQuit, ExitLoop
<1>2. CASE PollWakeup \/ PollIO \/ PollTimeout
  BY <1>2 DEF PollWakeup, PollIO, PollTimeout, PollReturns
<1>3. CASE HandleRead \/ HandleIO
  BY <1>3 DEF HandleRead, HandleIO
<1>4. CASE DoPendingFunctors
  BY <1>4 DEF DoPendingFunctors, SwapPending
<1>5. CASE RunFunctor
  BY <1>5 DEF RunFunctor
<1>6. CASE FunctorReturns \/ FunctorsDone
  BY <1>6 DEF FunctorReturns, FunctorsDone
<1>7. ASSUME NEW f \in Functor, QueueFromLoop(f) PROVE IndInv'
  BY <1>7 DEF QueueFromLoop, SelfWakeup, TypeOK
<1>8. ASSUME NEW f \in Functor, NEW t \in Thread, QueueInLoop(t, f) PROVE IndInv'
  BY <1>8 DEF QueueInLoop, TypeOK
<1>9. ASSUME NEW t \in Thread, Wakeup(t) PROVE IndInv'
  BY <1>9 DEF Wakeup, TypeOK
<1>10. CASE StartLoop \/ Quit \/ QuitWakeup \/ Join
  BY <1>10, LoopAssumption
     DEF StartLoop, Quit, QuitWakeup, SignalQuit, Join, TypeOK, LoopAssumption
<1>11. CASE UNCHANGED vars
  BY <1>11 DEF vars
<1> QED
  BY <1>1, <1>2, <1>3, <1>4, <1>5, <1>6, <1>7, <1>8, <1>9, <1>10, <1>11
     DEF Next, LoopStep, OwnerStep

\* IndInv holds in every reachable state of EventLoop::loop and its callers.
THEOREM LoopInductive == Spec => []IndInv
  BY InitHolds, WakeupStep, PTL DEF Spec

\* The loop never sleeps in poll over a queued functor or a call of quit, how
\* many threads there may be: queueInLoop and quit leave a wakeup behind.
THEOREM NeverSleepsOverWork == Spec => []SleepsOnlyIdle
<1>1. IndInv => SleepsOnlyIdle
  BY DEF IndInv, SleepsOnlyIdle
<1> QED
  BY <1>1, LoopInductive, PTL

-----------------------------------------------------------------------------
(* The refinement: a round of doPendingFunctors takes the queue over       *)
(* without changing it, and each functor run is one Run of TaskQueue.      *)

LEMMA AppendBehind ==
  ASSUME NEW S, NEW s \in Seq(S), NEW t \in Seq(S), NEW e \in S
  PROVE  s \o Append(t, e) = Append(s \o t, e)
  OBVIOUS

LEMMA TakeFront ==
  ASSUME NEW S, NEW s \in Seq(S), NEW t \in Seq(S), s # <<>>
  PROVE  /\ s \o t # <<>>
         /\ Head(s \o t) = Head(s)
         /\ Tail(s \o t) = Tail(s) \o t
  OBVIOUS

LEMMA RangeOfBoth ==
  ASSUME NEW S, NEW s \in Seq(S), NEW t \in Seq(S), NEW e,
         e \notin Range(s), e \notin Range(t)
  PROVE  e \notin Range(s \o t)
  BY DEF Range

\* Queueing a functor, from any thread, is a Submit.
LEMMA QueueIsSubmit ==
  ASSUME IndInv, NEW f \in Functor, Fresh(f),
         pending' = Append(pending, f), UNCHANGED <<functors, ran>>
  PROVE  TQ!Submit(f)
<1>1. (functors \o pending)' = Append(functors \o pending, f)
  BY AppendBehind DEF IndInv, TypeOK
<1>2. f \notin Range(functors \o pending)
  BY RangeOfBoth DEF IndInv, TypeOK, Fresh
<1> QED
  BY <1>1, <1>2 DEF TQ!Submit, Fresh, Range, TQ!Range

\* Every step of the loop and of its callers is one of TaskQueue, or none.
LEMMA StepRefines ==
  IndInv /\ [Next]_vars => [TQ!Next]_<<functors \o pending, ran>>
<1> SUFFICES ASSUME IndInv, [Next]_vars
             PROVE  [TQ!Next]_<<functors \o pending, ran>>
  OBVIOUS
<1>1. CASE DoPendingFunctors
  <2>1. functors = <<>>
    BY <1>1 DEF DoPendingFunctors, IndInv
  <2>2. functors' \o pending' = functors \o pending
    BY <1>1, <2>1 DEF DoPendingFunctors, SwapPending, IndInv, TypeOK
  <2> QED
    BY <1>1, <2>2 DEF DoPendingFunctors
<1>2. CASE RunFunctor
  <2>1. TQ!Run
    BY <1>2, TakeFront DEF RunFunctor, TQ!Run, IndInv, TypeOK
  <2> QED
    BY <2>1 DEF TQ!Next
<1>3. ASSUME NEW f \in Functor, QueueFromLoop(f)
      PROVE  TQ!Next
  BY <1>3, QueueIsSubmit DEF QueueFromLoop, TQ!Next, local
<1>4. ASSUME NEW f \in Functor, NEW t \in Thread, QueueInLoop(t, f)
      PROVE  TQ!Next
  BY <1>4, QueueIsSubmit DEF QueueInLoop, TQ!Next, local
<1>5. ASSUME UNCHANGED <<functors, pending, ran>>
      PROVE  UNCHANGED <<functors \o pending, ran>>
  BY <1>5
<1>6. ASSUME NEW t \in Thread, Wakeup(t)
      PROVE  UNCHANGED <<functors, pending, ran>>
  BY <1>6 DEF Wakeup, local
<1>7. CASE \/ ThreadFunc \/ EnterLoop \/ CheckQuit \/ PollWakeup \/ HandleRead
           \/ HandleIO \/ FunctorReturns \/ FunctorsDone \/ ExitLoop
           \/ PollIO \/ PollTimeout \/ StartLoop \/ Quit \/ QuitWakeup \/ Join
           \/ UNCHANGED vars
  BY <1>5, <1>7
     DEF ThreadFunc, EnterLoop, CheckQuit, PollWakeup, HandleRead, HandleIO,
         FunctorReturns, FunctorsDone, ExitLoop, PollIO, PollTimeout, PollReturns,
         StartLoop, Quit, QuitWakeup, Join, vars, local
<1> QED
  BY <1>1, <1>2, <1>3, <1>4, <1>5, <1>6, <1>7 DEF Next, LoopStep, OwnerStep

\* The EventLoop implements the task queue, with any number of threads.
THEOREM LoopIsTaskQueue == Spec => ImplementsTaskQueue
<1>1. Init => TQ!Init
  BY DEF Init, TQ!Init
<1> QED
  BY <1>1, StepRefines, LoopInductive, PTL DEF Spec, ImplementsTaskQueue, TQ!Spec
=============================================================================
