SPECIFICATION FairSpec
CONSTANTS
  app = app  env = env  web = web  db = db
  srv = srv  fqdn = fqdn  short = short  new = new
  Blank = Blank  Remove = Remove  None = None  NoLabel = NoLabel
  Dims <- MCDims
  Values <- MCValues
  Names <- MCNames
  Short <- MCShort
  InitWklds <- MCWklds
  InitLabels <- MCLabels
  Csvs <- MCCsvs
  FlagSets <- MCFlagSets
  MaxFaults = 2
  MaxRuns = 2
INVARIANTS IInv SettledMeansDone RerunIsNoOp
PROPERTIES OnlyAskedChanges NoDuplicateUmwl GateSpec RunEnds
CHECK_DEADLOCK FALSE
