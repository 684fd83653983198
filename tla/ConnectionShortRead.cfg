\* Messages of an allowed size that arrive in pieces.
SPECIFICATION Spec
CONSTANTS
  Header = 2
  MaxSize = 2
  MaxSent = 2
  Sizes = {1, 2}
INVARIANTS
  ReadsMessages
