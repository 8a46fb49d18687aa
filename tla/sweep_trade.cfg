SPECIFICATION HuntSpec
CONSTANTS
  SlowBars = 3
  Window <- FewBars
  MinNamed = 4
  Lookback = 4
  HoldBars = 2
  SweepAge = 1
  AcceptCloses = 2
  Premium = 4
  Candles <- Chart
  Yesterday <- Before
  Shapes <- Moments
  MaxBars = 4
  Stale <- FewTicks
  Views <- Looks
  Prices <- Quotes
  Reaches <- Windows
  Recents <- Structure
INVARIANTS HuntTypeOK CandlesAreCurrent TrendIsNamed TradedSweepIsFresh EntryIsReclaimed LongIsProtected
PROPERTY LongLeavesOnClose
