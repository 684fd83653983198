\* Two shutdown requests, and two foreign services named cellaserv.
SPECIFICATION Spec
CONSTANTS
  MaxShutdowns = 2
  MaxForeign = 2
INVARIANTS
  ExitMeans
  PanicExplained
PROPERTIES
  Serves
  OneEndsAll
