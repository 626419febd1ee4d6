SPECIFICATION DataSpec
CONSTANTS
  PathLen = 8
  Depth = 3
  Seff <- Writes
  Weak = {}
  Link = {}
  Branch <- CopyBranch
  Plugins <- PlainPlugins
  IBufs = {b1, b2, b3, b4}
  Size = 8
  BufSize = 2
SYMMETRY Sym
INVARIANTS
  ReadsTransparent
  WritesFaithful
