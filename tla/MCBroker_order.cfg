SPECIFICATION Spec
CONSTANTS
  pa = pa
  pb = pb
  pb2 = pb2
  px = px
  NoProc = NoProc
  HasShm = TRUE
  NodeCount = 2
  NameOf <- MCNameOf
  IdOf <- MCIdOf
  Proc = {pa, pb}
  ProcName <- MCProcName
  FdLimit = 6
  Backlog = 0
  BufCap = 2
  Commands <- Repeated
  MaxSend = 2
INVARIANTS TotalOrder PrefixDelivery
PROPERTIES IsPubSub
CHECK_DEADLOCK FALSE
