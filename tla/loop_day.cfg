SPECIFICATION FairSpec
CONSTANTS
  MaxRows = 4
  Pnls <- Losses
  Limit = 2
  MaxDay = 1
  MaxCrashes = 1
  Faults = {"crash", "chain"}
  Tenors = {0}
  Regimes <- FewRegimes
INVARIANTS TypeOK RolledOnce
PROPERTIES BookedOnce HaltHolds ImplementsCondor HardCloseFlattens
