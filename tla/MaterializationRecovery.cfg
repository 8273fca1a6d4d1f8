CONSTANTS
  Accounts = {a1, a2}
  WirelogViews = TRUE
  RetryInitial = 1
  RetryMax = 3
  ClientKinds = {"delivery", "update"}
  MaxRecords = 2
  MaxJournal = 3
  MaxAborts = 1
  MaxFailures = 1
  MaxBreaks = 1
  MaxRestarts = 0
SPECIFICATION FairSpec
PROPERTIES
  Recovers
