CONSTANTS
  Seeds <- MCSeeds
  Pieces <- MCPieces
  MaxPieces = 3
  Lengths = {0, 4}
  CJSON_NESTING_LIMIT = 2
  NumberMax = 3
  DefaultBuffer = 4
  INT_MAX = 40
SPECIFICATION Spec
INVARIANTS InBounds KeepsNothing AcceptsJson RoundTrip FiveMoreEnough MinifyKeepsTree
CHECK_DEADLOCK FALSE
