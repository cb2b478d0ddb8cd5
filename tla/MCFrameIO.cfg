SPECIFICATION FairSpec
CONSTANTS
  HeadLen = 2
  LenMod = 7
  Room = 5
  Retries = 1
  Capacity = 2
  Commands <- Cmds
  MaxCalls = 2
INVARIANTS FrameTypeOK Intact CutIsLast InBuffer
PROPERTIES CallsEnd Arrives
CHECK_DEADLOCK FALSE
