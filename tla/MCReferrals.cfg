SPECIFICATION ReferralsSpec
CONSTANTS
  Members = {m1, m2, m3}
  Codes = {c1, c2, c3}
  Calls = {t1, t2}
  ReferrerReward = 100
  RefereeReward = 50
  MonthlyCap = 1
  None = None
SYMMETRY Symmetry
INVARIANTS
  RedemptionsArePaidOnce
  RulesHoldOneAtATime
CHECK_DEADLOCK FALSE
