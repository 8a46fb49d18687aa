SPECIFICATION FairSpec
CONSTANTS
  C0 = C0
  C1 = C1
  C2 = C2
  P0 = P0
  P1 = P1
  Symbols <- MCSymbols
  Condors <- MCCondors
  Signals <- MCSignals
  MaxOrders = 1
  MaxResting = 0
  MaxCrashes = 0
  MaxFaults = 0
PROPERTY HardCloseSells
CHECK_DEADLOCK FALSE
