SPECIFICATION Spec
CONSTANTS
  app = app
  bu = bu
  x = x
  y = y
  m1 = m1
  m2 = m2
  m3 = m3
  db = db
  dbDom = dbDom
  web = web
  new = new
  newDom = newDom
  vm2 = vm2
  top = top
  sub = sub
  other = other
  None = None
  NoMachine = NoMachine
  Sources <- MCSources
  Names <- MCNames
  Check <- MCCheck
  Dims = {app, bu}
  HostDims = {app}
  Values = {x, y}
  InitialLabels <- MCInitialLabels
  InitialValues <- MCInitialValues
  Machines = {m1, m2, m3}
  VmName <- MCVmName
  GuestName <- MCGuestName
  Taggings <- MCTaggings
  Folders = {top, sub, other}
  FolderOf <- MCFolderOf
  Children <- MCChildren
  NumVM = 1
  Networks <- MCNetworks
  Nics <- MCNics
  HostRules <- MCHostRules
  HostFile = {}
  FlagSets <- MCFlagSets
  MaxFaults = 1
  MaxRuns = 2
PROPERTIES
  GateSpec
CHECK_DEADLOCK FALSE
