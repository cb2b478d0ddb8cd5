SPECIFICATION FairSpec
CONSTANTS
  pa = pa
  pb = pb
  pb2 = pb2
  px = px
  NoProc = NoProc
  HasShm = TRUE
  NodeCount = 2
  NameOf <- MCNameOf
  IdOf <- MCIdOf
  Proc = {pa, pb}
  ProcName <- MCProcName
  FdLimit = 6
  Backlog = 0
  BufCap = 1
  Commands <- WithSerial
  MaxSend = 2
PROPERTIES Served
CHECK_DEADLOCK FALSE
