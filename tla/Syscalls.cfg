SPECIFICATION NodesSpec
CONSTANTS
  PathLen = 8
  Depth = 3
  Seff <- MCSeff
  Weak <- Lookups
  Link <- NoLink
  Branch <- MCBranch
  Path <- MCPath
  Needs <- MCNeeds
  MayFail <- Lookups
  BufReady <- MCReady
  EngineError <- Upool
INVARIANTS
  ArgsAgree
  ResultsTransparent
  InternalsAccounted
