\* The tightest geometry without a panic: two calls of OpBlocks = 1 leave one
\* of the Size - 1 = 3 log blocks free, a third call would take it.  Neither
\* the room in the log nor liveness depends on what blocks hold: one value.
CONSTANTS
  Procs = {p1, p2, p3}
  Blocks = {b1, b2, b3}
  Values = {v0}
  Blank = v0
  MAXOPBLOCKS = 2
  LOGSIZE = 4
  Size = 4
  OpBlocks = 1
SPECIFICATION FairSpec
INVARIANT NoPanic
PROPERTIES SleeperWoken CommitEnds
