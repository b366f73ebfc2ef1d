CONSTANTS
  MaxLen = 5
  MaxRw = 4
SPECIFICATION Spec
CHECK_DEADLOCK FALSE
INVARIANTS
  SwapsGain
  NoSwapLeft
  OneLeftOut
