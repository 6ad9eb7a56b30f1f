SPECIFICATION Spec
CONSTANTS
  p1 = p1  p2 = p2  p3 = p3  n1 = n1  n2 = n2
  None = None  Blank = Blank  Given = Given  Unreadable = Unreadable
  Procs <- MCThree
  Names <- MCNames
  Commands <- MCCommands
  InitFile <- MCInitFile
  InitKeys <- MCInitKeys
  MaxKeys = 4
  MaxRuns = 2
  MaxFaults = 2
INVARIANTS Effect OwnFlags EveryPCE
CHECK_DEADLOCK FALSE
SYMMETRY MCSymmetry
