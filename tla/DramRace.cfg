\* Two servers with an object each; ++ and -- of poll_num may overlap.
CONSTANTS
  o1 = o1
  o2 = o2
  o3 = o3
  NodeNum = 2
  Objects = {o1, o3}
  NodeOf <- MCNodeOf
  Length <- MCLength
  Quotas = {2}
  MaxRw = 2
  FirstThreshold = 2
  ResetThreshold = 5
  HeapMayFail = FALSE
  RacyPollNum = TRUE
SPECIFICATION Spec
INVARIANT
  PollNumCounts
