\* As many buffers as the log may pin, as with NBUF = LOGSIZE.
CONSTANTS
  Procs = {p1, p2}
  Blocks = {1, 2, 3}
  Bufs = {a, b}
  Values = {v0}
  Blank = v0
  MaxPinned = 2
  IoErrors = FALSE
SPECIFICATION Spec
INVARIANT NoPanic
