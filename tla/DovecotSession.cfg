\* Two messages and one copy, a keyword that cannot be stored, one rebuild,
\* one held account, one lost answer.
SPECIFICATION MCSpec
CONSTANTS
  Messages = {m1, m2}
  Flags = {Seen, Junk}
  Unstorable = {Junk}
  MaxUid = 4
  MaxRebuilds = 1
  MaxHolds = 1
  MaxFaults = 1
  MaxEvents = 3
  MaxCommands = 1
SYMMETRY Symmetric
INVARIANTS
  ToldIsTrueUnlessReused
  IndexShowsAccepted
  IndexMatchesRowsUnlessLate
  RemovedWereAskedUnlessReused
