\* Two members, one API instance sweeping beside their sales.
CONSTANTS
  a = a
  b = b
  Members = {a, b}
  Sweepers = {w1}
  LastDay = 3
  MaxEarned = 2
SPECIFICATION SweepFairSpec
INVARIANTS
  SweepTypeOK
  SweepNeverOverdraws
  ForecastExactWithoutHolds
PROPERTIES
  AllIsSwept
