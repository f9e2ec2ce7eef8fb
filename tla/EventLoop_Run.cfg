SPECIFICATION FairSpec
CONSTANTS
  Thread = {main, other}
  Owner = main
  Functor = {f1, f2, f3}
INVARIANTS
  IndInv
  SleepsOnlyIdle
PROPERTIES
  ImplementsTaskQueue
  QueuedIsRun
  QuitIsNoticed
CHECK_DEADLOCK FALSE
