SPECIFICATION FairSpec
CONSTANTS
  e1 = e1
  e2 = e2
  e3 = e3
  w1 = w1
  w2 = w2
  Entries <- MCEntries
  Workers <- MCWorkers
  Depth = 2
INVARIANTS
  HandledOnce
PROPERTIES
  ImplementsIOEngine
  DestructorReturns
  CleanUpReturns
\* The pool stops for good after its destructor.
CHECK_DEADLOCK FALSE
