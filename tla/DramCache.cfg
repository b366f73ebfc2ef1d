\* Two servers, two objects on the first; scaled thresholds.
CONSTANTS
  o1 = o1
  o2 = o2
  o3 = o3
  NodeNum = 2
  Objects = {o1, o2, o3}
  NodeOf <- MCNodeOf
  Length <- MCLength
  Quotas = {1, 2}
  MaxRw = 2
  FirstThreshold = 1
  ResetThreshold = 2
  HeapMayFail = TRUE
  RacyPollNum = FALSE
SPECIFICATION FairSpec
INVARIANTS
  TypeOK
  Agreement
  UsedIsCached
  WithinQuota
PROPERTY
  PollEnds
