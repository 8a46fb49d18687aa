SPECIFICATION Spec
CONSTANTS
  MaxRows = 3
  Pnls <- WinOnly
  Limit = 1
  MaxDay = 2
  MaxCrashes = 1
  Faults = {"order", "crash", "db"}
  Tenors = {1}
  Regimes = {"RANGING", "SWEEP"}
INVARIANTS SinglePosition SingleTracked OneLegPerSide PlanMatchesBook LegInv
PROPERTY EntryWindow
