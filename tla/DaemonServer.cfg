SPECIFICATION ServerSpec
CONSTANTS
  Nobody = Nobody
  Daemons = {d1, d2}
  Connections = {k1}
  MaxSockets = 2
  MaxUpsets = 2
INVARIANTS
  ServesItsPath
  ReleasedIsQuiet
PROPERTIES
  StopEndsUnlessPassHangs
CHECK_DEADLOCK FALSE
