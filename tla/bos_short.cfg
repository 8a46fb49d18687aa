SPECIFICATION Spec
CONSTANTS
  Premium = 4
  Candles <- Chart
INVARIANT ShortIsProtected
