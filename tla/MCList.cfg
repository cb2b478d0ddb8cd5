CONSTANTS
  Nodes = {"a", "b", "c"}
  Heads = {"h", "l"}
  SNodes = {"a", "b", "c", "d"}
  SHeads = {"h", "l"}
SPECIFICATION Spec
INVARIANTS Rings WalkIsOrder SListIsOrder
