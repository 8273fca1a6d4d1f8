SPECIFICATION MCSpec
CONSTANTS
  r1 = r1
  r2 = r2
  Nobody = Nobody
  Daemons = {d1}
  Connections = {k1, k2}
  Entries = {q1}
  Transports = {"lmtp", "pipe"}
  Recipients <- MCRecipients
  StorageOf <- MCStorageOf
  MaxSockets = 2
  MaxUpsets = 1
  MaxTries = 2
SYMMETRY Symmetry
INVARIANTS
  SentIsRecorded
  BouncedIsRefusedUnlessTorn
CHECK_DEADLOCK FALSE
