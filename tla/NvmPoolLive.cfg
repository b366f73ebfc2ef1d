\* Two clients, any malloc of the server may fail, of a list node too, and
\* the fairness of the epoll loop; no symmetry.
CONSTANTS
  MaxOrder = 3
  BuddySize <- MCBuddySize
  Areas = {a1, a2}
  Clients = {c1, c2}
  ReqSizes = {1, 3, 7, 9}
  HeapMayFail = TRUE
  MaxHeld = 2
SPECIFICATION FairSpec
INVARIANTS
  NvmAccounting
  NoOverlap
  NoByteLost
  FreeWillFind
PROPERTIES
  PromiseSpec
  RequestsAnswered
