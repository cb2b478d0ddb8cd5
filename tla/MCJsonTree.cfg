CONSTANTS
  Items = {i1, i2, i3, i4, i5, i6}
  MaxCalls = 4
  MaxStrs = 4
  Types = {"string", "object"}
  Vals = {1,2}
  Keys = {1, 2}
  Literals = {2}
  Fold <- MCFold
SPECIFICATION Spec
INVARIANTS LinksSound NoLeak CompareIsEquality CopyOrNothing
PROPERTY IsForest
SYMMETRY Alike
CHECK_DEADLOCK FALSE
