SPECIFICATION Spec
CONSTANTS
  C0 = C0
  C1 = C1
  C2 = C2
  P0 = P0
  P1 = P1
  Symbols <- MCSymbols
  Condors <- MCCondors
  Signals <- MCSignals
  MaxOrders = 2
  MaxResting = 1
  MaxCrashes = 2
  MaxFaults = 1
INVARIANTS TypeOK OneOwner PositionIsListed
PROPERTIES OwnersRemain StartTakesAll
CHECK_DEADLOCK FALSE
