\* A writer is killed while it is in pipewrite().
CONSTANTS
  Procs = {p1, p2}
  Byte = {c0}
  PIPESIZE = 2
  Wrap = 4
  Readers = {p1}
  Writers = {p1, p2}
  Counts = {3}
  Killable = {p2}
SPECIFICATION Spec
INVARIANT ReaderSleepsOnEmpty
CHECK_DEADLOCK FALSE
