\* Two web sockets and two events; the model stops when all events have come,
\* and the process ends when it panics.
SPECIFICATION WebSpec
CONSTANTS
  s1 = s1
  s2 = s2
  NoSub = NoSub
  Sub = {s1, s2}
  Event <- MCEvent
  MaxPublished = 2
CHECK_DEADLOCK FALSE
INVARIANTS
  ListRight
  Isolation
PROPERTIES
  LoopGoesOn
  BrokenIsClosed
