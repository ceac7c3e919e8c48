\* Three blocks compete for two buffers, and both the log and the processes may
\* hold on to them, so that buffers are recycled all the time.  bget() may run
\* out of buffers and panic, which stops the machine.
CONSTANTS
  Procs = {p1, p2}
  Blocks = {1, 2, 3}
  Bufs = {a, b}
  Values = {v0, v1}
  Blank = v0
  MaxPinned = 1
  IoErrors = FALSE
SPECIFICATION Spec
SYMMETRY Symmetry
INVARIANTS TypeOK CachedOnce ValidMatchesDisk
PROPERTY IsBlockStore
CHECK_DEADLOCK FALSE
