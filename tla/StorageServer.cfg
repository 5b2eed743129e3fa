CONSTANTS
  s1 = s1
  s2 = s2
  p1 = p1
  p2 = p2
  u = u
  NoConn = NoConn
  Garbage = Garbage
  Conn = {s1, s2}
  Client = {p1, p2}
  Logins <- TwoLogins
  NoClient = NoClient
  Chunk = {u}
  MaxDown = 2
SPECIFICATION FairSpec
INVARIANTS OneSessionPerId ServesLastUpload IndexLeadsToContainers NothingForgotten ExitHasCause
PROPERTIES WaitsEnd
CHECK_DEADLOCK FALSE
