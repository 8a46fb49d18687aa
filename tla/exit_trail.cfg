SPECIFICATION Spec
CONSTANTS
  Entry = 20
  Marks <- AllMarks
  Moves <- Underlying
  Gaps <- Chart
  Reach = 4
  MaxCrashes = 1
  MaxFails = 1
INVARIANTS TypeOK FloorHeld LockedIn
PROPERTY TrailsRatchet
