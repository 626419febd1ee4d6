SPECIFICATION Spec
CONSTANTS
  Nodes <- MCNodes
  PtrMod = 4
  EpochMod = 8
  Iterations = 8
  Depth = 3
CHECK_DEADLOCK FALSE
INVARIANTS
  IdsMatch
