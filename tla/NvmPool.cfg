\* One client, up to five regions; every node malloc succeeds, while
\* dhmp_area_create may fail.
CONSTANTS
  MaxOrder = 3
  BuddySize <- MCBuddySize
  Areas = {a1, a2}
  Clients = {c1}
  ReqSizes = {1, 2, 3, 7, 9}
  HeapMayFail = FALSE
  MaxHeld = 5
SPECIFICATION Spec
SYMMETRY Symmetry
INVARIANTS
  TypeOK
  MaxIndexExact
  Coalesced
PROPERTIES
  RefusedOnlyWhenFull
