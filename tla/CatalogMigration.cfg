\* Two journal records are enough for a checkpoint with a record after it;
\* two crashes can fall between any two of the twelve steps each.
SPECIFICATION CatalogSpec
CONSTANTS
  Absent = Absent
  MaxRecords = 2
  MaxCrashes = 2
  RunIds = {r1}
INVARIANTS
  RefusedOnlyAfterInterruption
  UsedAsIsIsComplete
