SPECIFICATION Spec
CONSTANTS
  None = None
  Messages = {1, 2}
  Keys = {"k"}
  Configs <- MCConfigs
  Extracted <- MCExtracted
  Claimable <- MCClaimable
  BatchSize = 1
  MaxEvents = 3
INVARIANTS
  ViewsMatchRulesUnlessReverted
  UidsNameOneMessage
  RebuildReproduces
PROPERTIES
  ViewsCatchUp
CHECK_DEADLOCK FALSE
