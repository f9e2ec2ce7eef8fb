SPECIFICATION FairSpec
CONSTANTS
  MaxConn = 3
  NumLoops = 2
  Observer = observer
  u1 = u1
  u2 = u2
  User <- MCUser
  Names <- MCNames
  Nobody = nobody
  MaxSends = 1
INVARIANTS
  IndInv
  NoUseAfterDelete
  ClosedForGood
  OutputIsAwaited
PROPERTIES
  ClosedIsDeleted
CHECK_DEADLOCK FALSE
