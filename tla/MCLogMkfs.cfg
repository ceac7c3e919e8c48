\* The log as mkfs and mkproto make it (Size = LOGSIZE), and calls that write
\* as many blocks as param.h lets them (OpBlocks = MAXOPBLOCKS).
CONSTANTS
  Procs = {p1, p2, p3}
  Blocks = {b1, b2, b3, b4}
  Values = {v0}
  Blank = v0
  MAXOPBLOCKS = 2
  LOGSIZE = 4
  Size = 4
  OpBlocks = 2
SPECIFICATION Spec
INVARIANT NoPanic
