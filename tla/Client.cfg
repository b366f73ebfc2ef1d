\* Two small objects: the writes of both may be under way at once.
\* When the queue pair has broken everybody waits and the system stops.
CONSTANTS
  Apps = {t1}
  Objects = {o1, o2}
  Large = {}
  Values = {v1}
  Buffers = {b1, b2}
  Junk = Junk
  Null = Null
  Wild = Wild
SPECIFICATION Spec
CHECK_DEADLOCK FALSE
INVARIANTS
  TypeOK
  WriteFlagExact
  BuffersApart
  TableIsGranted
PROPERTIES
  ReadsBack
