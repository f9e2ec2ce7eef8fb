------------------------------ MODULE TaskQueue ------------------------------
(***************************************************************************)
(* What an EventLoop promises to the threads that hand it functors: they   *)
(* are run once each, one at a time, in the order they were queued.        *)
(***************************************************************************)
EXTENDS Naturals, Sequences, Functions

CONSTANT Functor    \* the functors, each handed over at most once

VARIABLES
  tasks,    \* queued and not run yet
  ran       \* run, in the order of their starts

Init == tasks = <<>> /\ ran = <<>>

Submit(f) ==
  /\ f \notin Range(tasks) \cup Range(ran)
  /\ tasks' = Append(tasks, f)
  /\ UNCHANGED ran

Run ==
  /\ tasks # <<>>
  /\ tasks' = Tail(tasks)
  /\ ran' = Append(ran, Head(tasks))

Next == Run \/ \E f \in Functor : Submit(f)

Spec == Init /\ [][Next]_<<tasks, ran>>
=============================================================================
