SPECIFICATION Spec
CONSTANTS
  Strikes <- TenStrikes
  Inc = 100
  Levels = {"low", "normal"}
  WingWidth = 100
  Risk = 240
  Nickel = 1
  Proximity = 2
  FlyWidth = 100
  FlyReach = 50
  Improve = 1
  FlyRisk = 240
  Chains <- DayChains
  Bands <- DayBands
  Regimes = {"RANGING", "TRENDING_BEAR"}
  Pins = {500}
  Grades = {"B", "none"}
  Leans = {"call"}
  Quotes = {0, 40}
  MaxOrders = 3
  MaxCrashes = 1
INVARIANTS NeutralTypeOK RolledIsRiskFree WithinBudget FlyRowIsFilled FlyFillsBounded FlyIsCalm
PROPERTY RollsInRange
CHECK_DEADLOCK FALSE
