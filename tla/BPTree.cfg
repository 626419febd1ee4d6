SPECIFICATION Spec
CONSTANTS
  Keys <- MCKeys
  Vals <- MCVals
  Puts <- MCPuts
  Loads <- MCLoads
  Degrees = {2, 3}
  MaxFaults = 1
CHECK_DEADLOCK FALSE
INVARIANTS
  LookupsAgree
  ScansAgree
  ChainComplete
  FreePagesUnused
  NoException
