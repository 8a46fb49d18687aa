SPECIFICATION Spec
CONSTANTS
  High = 28
  Low = 20
  Buffer = 1
  Tol = 2
  MaxRetest = 3
  Candles <- MarketCandles
  MaxBars = 3
  MaxDay = 2
  MaxCrashes = 1
INVARIANTS TypeOK SetupHasBreak HandsOff LatchesComplete
PROPERTY MorningOnly
CHECK_DEADLOCK FALSE
