SPECIFICATION Spec
CONSTANTS
  Setups <- NestedSetups
INVARIANTS
  PathnamesAgree
