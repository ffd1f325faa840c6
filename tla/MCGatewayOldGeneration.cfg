CONSTANTS
  c1 = c1
  c2 = c2
  u1 = u1
  u2 = u2
  r1 = r1
  Conns = {c1, c2}
  Users = {u1, u2}
  Rooms = {r1}
  NoConn = NoConn
  CloseWorkers = 1
  MaxRevision = 2
  MayShutDown = FALSE
  BudgetCanRunOut = TRUE
SPECIFICATION TwoUsersSpec
PROPERTIES
  OldGenerationClosed
CHECK_DEADLOCK FALSE
