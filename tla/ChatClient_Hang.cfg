SPECIFICATION FairSpec
CONSTANTS
  User = {u1, u2}
  NoUser = noUser
  Nothing = nothing
  MaxRequests = 4
  MaxChats = 1
PROPERTIES
  LoginIsAnswered
CHECK_DEADLOCK FALSE
