SPECIFICATION FairSpec
CONSTANTS
  s1 = s1
  s2 = s2
  c1 = c1
  c2 = c2
  c3 = c3
  u1 = u1
  u2 = u2
  u3 = u3
  Server = {s1}
  Conn = {c1, c2}
  User = {u1, u2}
  Msg = {m1}
  ServerOf <- OneServer
  Observer = observer
  NoConn = noConn
  NoUser = noUser
  NoMsg = noMsg
  Recipients <- Anyone
  Active = {u1, u2}
  Faults = {"crash"}
  Budget <- OneFault
PROPERTIES
  FailureIsReset
