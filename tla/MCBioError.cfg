\* The disk may report an error for a read.  A panic of bget() stops the machine.
CONSTANTS
  Procs = {p1, p2}
  Blocks = {1, 2, 3}
  Bufs = {a, b}
  Values = {v0, v1}
  Blank = v0
  MaxPinned = 1
  IoErrors = TRUE
SPECIFICATION Spec
INVARIANT ValidMatchesDisk
CHECK_DEADLOCK FALSE
