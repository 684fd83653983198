\* A call of the program, one of a handler and one Close, apart from those of
\* handlers; a publish and a service request.
SPECIFICATION Spec
CONSTANTS
  r1 = r1
  n1 = n1
  k1 = k1
  None = None
  Req = {r1, n1}
  Nested = {n1}
  Closer = {k1}
  HandlerCloses = TRUE
  MaxAnswers <- MCMaxAnswers
  MaxEvents = 1
INVARIANTS
  ReplyKept
  ServedOnce
  
PROPERTIES
  CallReturns
  LossEndsLoop
  CloseEndsLoop
