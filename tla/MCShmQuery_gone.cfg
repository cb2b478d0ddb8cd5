SPECIFICATION FairSpec
CONSTANTS
  ShmNums <- Nums
  BufNodes = 3
  WbufNodes = 1
  BufCap = 2
  BcastLens <- Lens
  MaxBcast = 0
  MaxCall = 1
PROPERTIES QueryReturns
CHECK_DEADLOCK FALSE
