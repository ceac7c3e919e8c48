\* The ring has two slots and the counters wrap after two turns of it.  A write
\* of three bytes has to sleep.  Process p2 holds both ends.  Everybody may end
\* up asleep (p2 may wait for a byte that only p2 could write).
CONSTANTS
  Procs = {p1, p2, p3}
  Byte = {c0, c1}
  PIPESIZE = 2
  Wrap = 4
  Readers = {p1, p2}
  Writers = {p2, p3}
  Counts = {3}
  Killable = {p1}
SPECIFICATION Spec
SYMMETRY Symmetry
INVARIANTS TypeOK Exclusive WriterSleepsOnFull ReaderSleepsOnEmpty NoUseAfterFree
PROPERTY IsFifo
CHECK_DEADLOCK FALSE
