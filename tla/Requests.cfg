\* Three requests of two clients, two of them under one id, to two services of one
\* name.
SPECIFICATION Spec
CONSTANTS
  c1 = c1
  c2 = c2
  r1 = r1
  r2 = r2
  r3 = r3
  s1 = s1
  s2 = s2
  n1 = n1
  None = None
  Req = {r1, r2, r3}
  Client = {c1, c2}
  Service = {s1, s2}
  Builtin = {s1}
  Sender <- MCSender
  Target <- MCTarget
  NameOf <- MCNameOf
  IdOf <- MCIdOf
  EarlyFire = FALSE
  MaxReplies <- MCMaxReplies
INVARIANTS
  TypeOK
  TimerBacked
  AnswerBelongs
  NamesSender
PROPERTIES
  ImplementsRpc
