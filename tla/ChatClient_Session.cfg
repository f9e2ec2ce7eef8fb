SPECIFICATION FairSpec
CONSTANTS
  User = {u1, u2}
  NoUser = noUser
  Nothing = nothing
  MaxRequests = 5
  MaxChats = 1
INVARIANTS
  IndInv
  SessionInv
  AnswerIsAwaited
  RequestsFitSession
  SessionAgrees
  NoForeignChat
  NoEntryOutlives
PROPERTIES
  WaitEnds
CHECK_DEADLOCK FALSE
