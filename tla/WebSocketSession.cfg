CONSTANTS
  MaxFrames = 3
  MaxBroadcasts = 2
  MaxTopic = 3
SPECIFICATION Spec
INVARIANTS
  TypeOK
  AnsweredBeforeNextRead
  AcceptedInOrder
PROPERTIES
  ErrorsResolved
  SessionEnds
CHECK_DEADLOCK FALSE
