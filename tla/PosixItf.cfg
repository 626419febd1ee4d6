SPECIFICATION Spec
CONSTANTS
  Threads = {t, u}
  Graphs = {g, h}
  Fd <- MCFd
  MCu = u
  MCh = h
  Ignored <- MCIgnored
  Count = 2
  MaxLen = 2
  Configs <- MCConfigs
  MaxFrames <- MCMaxFrames
  MaxCalls <- MCMaxCalls
CHECK_DEADLOCK FALSE
INVARIANTS
  AssertsHold
  ProgressKept
PROPERTIES
  ImplementsFile
