\* A buffer for each process and fewer buffers than blocks: a sleeper's buffer
\* may be recycled before it runs.  Nothing is pinned, or bget() could panic.
\* Liveness does not depend on what blocks hold.
CONSTANTS
  Procs = {p1, p2}
  Blocks = {1, 2, 3}
  Bufs = {a, b}
  Values = {v0}
  Blank = v0
  MaxPinned = 0
  IoErrors = TRUE
SPECIFICATION FairSpec
PROPERTIES  IoCompletes
