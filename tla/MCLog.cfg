\* The on-disk log has LOGSIZE blocks, as mkfs and mkproto make it, and a call
\* writes fewer blocks than begin_op() reserves for it.  Two calls fit the log
\* when it is empty, one once a block is logged: both reasons to wait occur.
CONSTANTS
  Procs = {p1, p2}
  Blocks = {b1, b2, b3}
  Values = {v0, v1}
  Blank = v0
  MAXOPBLOCKS = 3
  LOGSIZE = 6
  Size = 6
  OpBlocks = 2
SPECIFICATION Spec
SYMMETRY Symmetry
INVARIANTS TypeOK Durable NewerIsPinned
PROPERTY CrashAtomic
