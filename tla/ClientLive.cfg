\* A small and a large object and the fairness of the threads.  When the
\* queue pair has broken everybody waits and the system stops.
CONSTANTS
  Apps = {t1}
  Objects = {o1, o2}
  Large = {o2}
  Values = {v1}
  Buffers = {b1, b2}
  Junk = Junk
  Null = Null
  Wild = Wild
SPECIFICATION FairSpec
CHECK_DEADLOCK FALSE
PROPERTIES
  CallsReturn
