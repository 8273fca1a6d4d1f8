\* Every operator: overlapping runs, mounts sometimes or always checked.
SPECIFICATION FairSpec
CONSTANTS
  Runs = {i1, i2, i3}
  Ids = {a, b, c}
  Deliveries = {d1}
  Upgraded = {d1}
  Operators <- MCOperators
  MaxMounts = 4
INVARIANTS
  NeverLoneObject
  CheckedVolumesServe
PROPERTIES
  MarkerIsForever
  InitializationCompletes
CHECK_DEADLOCK FALSE
