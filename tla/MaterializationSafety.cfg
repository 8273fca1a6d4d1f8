\* Every fault, two accounts, two client records, extraction and views.
CONSTANTS
  Accounts = {a1, a2}
  WirelogViews = TRUE
  RetryInitial = 1
  RetryMax = 3
  ClientKinds = {"delivery", "append", "update"}
  MaxRecords = 2
  MaxJournal = 3
  MaxAborts = 1
  MaxFailures = 1
  MaxBreaks = 1
  MaxRestarts = 1
SPECIFICATION Spec
SYMMETRY Symmetry
INVARIANTS
  CheckpointCovered
  MissingIsRetried
  ExtractedOnce
  ViewsFreshUnlessAborted
PROPERTIES
  ImplementsAccountReplay
