\* Two conversions at once, of any of two members, and two console calls.
CONSTANTS
  Members = {m1, m2}
  Keys = {k1, k2}
  Sessions = {s1, s2}
  Topups = {q1}
  Reviews = {c1, c2}
  MaxPoints = 1
  RatioBps = 15000
  UnitCost = 2
  TopupAmount = 2
  DailyLimit = 1
  MaxFunds = 2
  MaxCredits = 2
  None = None
SPECIFICATION Spec
SYMMETRY Symmetry
INVARIANTS
  BurnedPointsAreCredited
  AllowanceIsExplained
  UncontestedTopupCreditedOnce
  LimitsHoldOneAtATime
