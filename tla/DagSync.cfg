SPECIFICATION Spec
CONSTANTS
  ip1 = ip1  ip2 = ip2  role = role  app = app  web = web  db = db
  None = None
  IPs <- MCIPs
  NumWklds = 2
  Dims <- MCDims
  Values <- MCValues
  FlagSets <- MCFlagSets
  InitPCE <- MCPCE
  InitReg <- MCReg
  MaxFaults = 2
  MaxRuns = 3
INVARIANTS Synced MarkedInTwo
PROPERTIES EntriesKept
CHECK_DEADLOCK FALSE
