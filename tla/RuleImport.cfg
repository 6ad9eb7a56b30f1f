CONSTANTS
  rs1 = rs1  rs2 = rs2  lab = lab  new = new  w = w  noExt = noExt
  Rulesets = {rs1, rs2}
  AllLabels = {lab, new}
  NoExt = noExt
  AllWklds = {w}
  InitialLabels = {lab}
  Exts <- MCExts
  InitialRules <- MCInitialRules
  Files <- MCFiles
  FlagSets <- MCFlagSets
  MaxRules = 4
  MaxFaults = 2
  MaxRuns = 3
SPECIFICATION Spec
CHECK_DEADLOCK FALSE
INVARIANTS OneRulePerPair RowsInDraft ChangesProvisioned RulesAreRows
PROPERTIES GateSpec
