CONSTANTS
  g1 = g1
  g2 = g2
  p1 = p1
  Gateways = {g1, g2}
  Partitions = {p1}
  MaxLog = 2
  MaxFaults = 1
  Stoppable = {g1}
  MaxStrays = 1
SPECIFICATION SafetySpec
INVARIANTS
  TypeOK
  NoSilentLoss
  WorkersWithinOwnership
  OwnersDisjoint
  NoNeedlessRedelivery
PROPERTIES
  CommitsAdvance
  ImplementsBus
CHECK_DEADLOCK FALSE
