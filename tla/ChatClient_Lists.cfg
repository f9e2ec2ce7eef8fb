SPECIFICATION FairSpec
CONSTANTS
  User = {u1, u2}
  NoUser = noUser
  Nothing = nothing
  MaxRequests = 4
  MaxChats = 1
INVARIANTS
  ListsAreOwn
CHECK_DEADLOCK FALSE
