CONSTANTS
  u1 = u1
  u2 = u2
  h1 = h1
  h2 = h2
  h3 = h3
  a = a
  Blank = Blank
  NoHandle = NoHandle
  ClientIDs = {u1, u2, Blank}
  Handles = {h1, h2, h3}
  Contents = {a, b, Blank}
  b = b
  MaxSequence = 3
SYMMETRY Symmetric
SPECIFICATION Spec
INVARIANTS
  TypeOK
  OpenIffMember
  StreamInOrder
  EveryMessageAccounted
PROPERTIES
  ImplementsBroadcast
