SPECIFICATION FairSpec
CONSTANTS
  ShmNums <- Nums
  BufNodes = 3
  WbufNodes = 1
  BufCap = 2
  BcastLens <- Lens
  MaxBcast = 3
  MaxCall = 3
INVARIANTS QueryTypeOK TableReturned NamesResolve TableComing StraysBounded
 
CHECK_DEADLOCK FALSE
