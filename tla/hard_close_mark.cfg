SPECIFICATION Spec
CONSTANTS
  Strikes <- TenStrikes
  Inc = 100
  Levels = {"low"}
  WingWidth = 100
  Risk = 240
  Nickel = 1
  Proximity = 2
  FlyWidth = 100
  FlyReach = 50
  Improve = 1
  FlyRisk = 240
  Chains <- DayChains
  Bands <- DayBands
  Regimes = {"RANGING"}
  Pins = {}
  Grades = {"B"}
  Leans = {"call"}
  Quotes = {0}
  MaxOrders = 2
  MaxCrashes = 0
PROPERTY HardCloseBooksMark
CHECK_DEADLOCK FALSE
