\* The watcher and one client, which may be started twice; one fault.
CONSTANTS
  c1 = c1
  w = w
  Clients = {c1}
  Watcher = w
  Null = Null
  MaxLives = 2
  MaxUsed = 1
  MaxFaults = 1
  SlowMain = TRUE
SPECIFICATION FairSpec
INVARIANTS
  TypeOK
  ListExact
  PairsRight
  ReadyBeforeUse
  DeadEntriesAreNameless
  ViewCurrent
PROPERTIES
  InitReturns
  FetchReturns
  DestroyJoins
CHECK_DEADLOCK FALSE
