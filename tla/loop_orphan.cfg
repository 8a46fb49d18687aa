SPECIFICATION Spec
CONSTANTS
  MaxRows = 2
  Pnls <- WinOnly
  Limit = 1
  MaxDay = 1
  MaxCrashes = 0
  Faults = {}
  Tenors = {0}
  Regimes <- AllRegimes
INVARIANT LegsTracked
