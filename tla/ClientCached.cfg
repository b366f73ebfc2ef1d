\* One small object is enough for a copy that is not filled.  When the
\* queue pair has broken everybody waits and the system stops.
CONSTANTS
  Apps = {t1}
  Objects = {o1}
  Large = {}
  Values = {v1}
  Buffers = {b1}
  Junk = Junk
  Null = Null
  Wild = Wild
SPECIFICATION Spec
CHECK_DEADLOCK FALSE
PROPERTIES
  ReadLatest
