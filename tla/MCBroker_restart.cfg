SPECIFICATION Spec
CONSTANTS
  pa = pa
  pb = pb
  pb2 = pb2
  px = px
  NoProc = NoProc
  HasShm = TRUE
  NodeCount = 2
  NameOf <- MCNameOf
  IdOf <- MCIdOf
  Proc = {pa, pb, pb2}
  ProcName <- MCProcName
  FdLimit = 6
  Backlog = 1
  BufCap = 1
  Commands <- Mixed
  MaxSend = 1
INVARIANTS TypeOK NodeOwnsPeer NeverExits SnapshotValid AddressedOnly
CHECK_DEADLOCK FALSE
