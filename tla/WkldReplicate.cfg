SPECIFICATION Spec
CONSTANTS
  A = A  B = B  C = C  web = web  d1 = d1  d2 = d2
  None = None
  PCEs <- MCPCEs
  Hosts <- MCHosts
  Data <- MCData
  SkipChoices <- MCNoSkip
  Consents <- MCConsents
  Moves = FALSE
  Settling = 1
  MaxFaults = 3
  MaxRuns = 4
INVARIANTS Replicated NoOrphans
PROPERTIES DeletedOnlyIfSourceGone
CHECK_DEADLOCK FALSE
