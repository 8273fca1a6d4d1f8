\* Every operation, every trouble.
SPECIFICATION Spec
CONSTANTS
  Operations <- AllOperations
  MaxRecords = 4
  Troubles <- EveryTrouble
  MaxTroubles = 2
  MaxEvents = 5
INVARIANTS
  MovesLoseNothing
  RecordsApplyUnlessHeld
  ReceiptsHonouredUnlessHeld
  FlagsFollowJournal
PROPERTIES
  TombstonesStay
CHECK_DEADLOCK FALSE
