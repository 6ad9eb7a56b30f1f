SPECIFICATION Spec
CONSTANTS
  p1 = p1
  p2 = p2
  w1 = w1
  w2 = w2
  NoWorkload = NoWorkload
  Ports = {p1, p2}
  Workloads = {w1, w2}
  InitialWorkloads <- MCInitialWorkloads
  SwitchFiles <- MCSwitchFiles
  FlagSets <- MCFlagSets
  Timeout = 2
  MaxPolicy = 3
  MaxFaults = 1
  MaxRuns = 3
INVARIANTS
  PortsFilled
  FreshAcl
PROPERTIES
  CommandEnds
CHECK_DEADLOCK FALSE
