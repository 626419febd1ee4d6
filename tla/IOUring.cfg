SPECIFICATION FairSpec
CONSTANTS
  e1 = e1
  e2 = e2
  e3 = e3
  e4 = e4
  e5 = e5
  Entries <- MCEntries
  Linked <- MCLinked
  Depth = 3
  sq_length = 4
INVARIANTS
  ResultIsOwn
  SqeAvailable
PROPERTIES
  ImplementsIOEngine
  CleanUpReturns
