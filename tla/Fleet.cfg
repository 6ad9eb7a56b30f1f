CONSTANTS
  v1 = v1  v2 = v2  v3 = v3  v4 = v4  v5 = v5
  Vens = {v1, v2, v3, v4, v5}
  HostOf <- MCHostOf
  Mute = {v3, v5}
  Loose = {v5}
  Labelled = {v1, v2, v5}
  InitialOnline = {v1, v2, v4}
  UnpairChunk = 1
  RateChunk = 2
  Iterations = 1
  MaxTime = 2
  FlagSets <- MCFlagSets
  MaxFaults = 1
  MaxRuns = 3
SPECIFICATION Spec
CHECK_DEADLOCK FALSE
INVARIANTS HostsKept AskedEvenly
