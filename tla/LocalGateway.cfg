CONSTANTS
  Keys = {u1}
  Burst = 2
  Interval = 2
  MaxTime = 4
  Supervisors = {s1, s2}
  NoMessage = NoMessage
  BufferSize = 2
  MaxFailures = 1
  Conns = {c1, c2}
  MaxFrames = 2
SPECIFICATION Spec
INVARIANTS
  TypeOK
  GrantsWithinRate
  HandledInOrder
PROPERTIES
  DropsJustified
  AcceptedIsHandled
CHECK_DEADLOCK FALSE
