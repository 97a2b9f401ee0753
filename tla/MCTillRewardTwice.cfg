\* Two voucher calls overlap: the till holds what the app is using.
CONSTANTS
  m1 = m1
  m2 = m2
  v1 = v1
  v2 = v2
  Members = {m1}
  Sales = {t1, t2}
  Vouchers = {v1, v2}
  Calls = {c1, c2}
  MaxPoints = 1
  MaxDone = 1
  MaxBonus = 1
  Owner <- MCOwner
  None = None
SPECIFICATION Spec
INVARIANTS
  RewardGivenOnce
