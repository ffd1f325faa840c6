CONSTANTS
  old = old
  new = new
  p1 = p1
  Processes = {old, new}
  Partitions = {p1}
  NoProcess = NoProcess
  TTL = 4
  MaxRevision <- OwnershipChanges
  MaxFaults = 1
  Stoppable = {old}
SPECIFICATION Spec
INVARIANTS
  TypeOK
  InSync
PROPERTIES
  LeaseKept
  FormerOwnerForgotten
  OwnerReached
CHECK_DEADLOCK FALSE
