SPECIFICATION Spec
CONSTANTS
  w1 = w1  w2 = w2  pod = pod
  Wklds <- MCWklds
  Containers <- MCContainers
  FlagSets <- MCFlagSets
  MaxFaults = 2
  MaxRuns = 2
INVARIANTS FlowsKept
PROPERTIES ModesAfterBoundary
CHECK_DEADLOCK FALSE
