\* Two members, three sales, a reward and two calls on it at a time.
CONSTANTS
  m1 = m1
  m2 = m2
  v1 = v1
  v2 = v2
  Members = {m1, m2}
  Sales = {t1, t2, t3}
  Vouchers = {v1}
  Calls = {c1, c2}
  MaxPoints = 1
  MaxDone = 1
  MaxBonus = 1
  Owner <- MCOwner
  None = None
SPECIFICATION Spec
SYMMETRY Symmetry
INVARIANTS
  TypeOK
  SalesExplainBalance
  TillNeverOverdraws
  EventsMatchSales
  UncontestedGivenOnce
PROPERTIES
  ImplementsGateway
