\* Three messages, in every way of cutting the stream into pieces.
SPECIFICATION Spec
CONSTANTS
  Header = 2
  MaxSize = 2
  MaxSent = 3
  Sizes <- MCSizes
INVARIANTS
  InStep
  InOrder
  OnlyBroken
PROPERTIES
  LossRemoves
