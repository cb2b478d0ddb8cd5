SPECIFICATION Spec
CONSTANTS
  Configs <- Files
  NodeName <- Names
  ShmName <- ShmNames
  ShmMax = 5
  MaxStarts = 3
INVARIANTS StartupTypeOK TableSound StartsClear StableIds ListFromFile
CHECK_DEADLOCK FALSE
