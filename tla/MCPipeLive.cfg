\* Liveness does not depend on the bytes: one value.
CONSTANTS
  Procs = {p1, p2}
  Byte = {c0}
  PIPESIZE = 2
  Wrap = 4
  Readers = {p1, p2}
  Writers = {p1, p2}
  Counts = {3}
  Killable = {p1}
SPECIFICATION FairSpec
PROPERTIES ReadersSeeEnd WritersSeeClose 
CHECK_DEADLOCK FALSE
