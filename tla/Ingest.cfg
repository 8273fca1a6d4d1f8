\* Kills, failing disks and power losses, two daemons on one segment.
CONSTANTS
  d1 = d1
  d2 = d2
  d3 = d3
  i1 = i1
  i2 = i2
  o1 = o1
  o2 = o2
  Processes = {p1, p2}
  Values = {d1, d2, d3}
  Identities = {i1, i2}
  Objects = {o1, o2}
  IdentityOf <- MCIdentityOf
  ContentOf <- MCContentOf
  MaxRecords = 3
  MaxKills = 2
  MaxPowerLosses = 1
  MaxFaults = 1
SPECIFICATION IngestSpec
INVARIANTS
  OneRecordPerIdentity
  AckedSurvivesOneKind
PROPERTIES
  ImplementsDurableLog
  Restarts
