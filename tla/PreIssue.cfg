SPECIFICATION FairSpec
CONSTANTS
  PathLen = 10
  Depth = 4
  Seff <- PathSeff
  Weak <- PathWeak
  Link <- PathLink
  Branch <- PathBranch
INVARIANTS
  IInv
  PeekFresh
  FrontierSubmitted
  InFlightBound
PROPERTIES
  ImplementsSpeculation
  CallReturns
  LeaveReturns
