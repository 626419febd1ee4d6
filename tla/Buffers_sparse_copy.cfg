SPECIFICATION DataSpec
CONSTANTS
  PathLen = 11
  Depth = 3
  Seff <- Writes
  Weak = {}
  Link <- CopyLink
  Branch <- CopyBranch
  Plugins <- LinkPlugins
  IBufs = {b1, b2, b3, b4}
  Size = 10
  BufSize = 2
SYMMETRY Sym
INVARIANTS
  BuffersExclusive
  BufferAvailable
  WritesFaithful
  BuffersReturned
