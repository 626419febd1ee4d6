SPECIFICATION Spec
CONSTANTS
  Setups <- MCSetups
INVARIANTS
  SessionAsserts
  PathnamesAgree
  SegmentsPreIssued
