\* Two connections, of which one is a monitor, and the built-in service.  The
\* model stops when all messages are handled or a client does not read.
SPECIFICATION Spec
CONSTANTS
  c1 = c1
  c2 = c2
  b = b
  None = None
  Client = {c1, c2}
  Monitor = {c1}
  Builtin = b
  MaxOps = 3
CHECK_DEADLOCK FALSE
INVARIANTS
  NoLockCycle
PROPERTIES
  OpEnds
  TrafficPasses
