\* Four publishes of one event, two seconds and two restarts.
SPECIFICATION Spec
CONSTANTS
  p1 = p1
  p2 = p2
  p3 = p3
  p4 = p4
  None = None
  Publish = {p1, p2, p3, p4}
  Size <- MCSize
  MaxSecond = 1
  MaxRestarts = 2
INVARIANTS
  LogExact
  LaterLinesKept
PROPERTIES
  LogsExtend
