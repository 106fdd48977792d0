CONSTANTS
  k1 = k1
  k2 = k2
  k3 = k3
  x = x
  y = y
  ResumeFlags = {TRUE, FALSE}
  Keys <- MCKeys
  Configs <- MCConfigs
  Commands <- MCCommands
  OldRoots <- MCOldRoots
  TornWrites = TRUE
  MaxRuns = 3
  None = None
  Torn = Torn
SPECIFICATION Spec
INVARIANTS StagesNested SpacesDistinct
PROPERTY WorkKept
CHECK_DEADLOCK FALSE
