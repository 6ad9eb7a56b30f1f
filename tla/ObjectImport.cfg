CONSTANTS
  a = a  b = b  c = c  s = s  t = t  i1 = i1  i2 = i2
  Invalid = Invalid  Remove = Remove
  Names = {a, b, c}
  Texts = {s, t}
  Items = {i1, i2}
  InitialRefs = {a, i1}
  InitialObjs <- MCInitialObjs
  Files <- MCFiles
  FlagSets <- MCFlagSets
  MaxObjs = 6
  MaxFaults = 2
  MaxRuns = 3
SPECIFICATION Spec
CHECK_DEADLOCK FALSE
INVARIANTS NoTwins Converges RowsHold ChangesInForce
PROPERTIES GateSpec
