\* An address that cannot be listened on.
SPECIFICATION Spec
CONSTANTS
  MaxShutdowns = 1
  MaxForeign = 1
PROPERTIES
  ListenFailureEnds
