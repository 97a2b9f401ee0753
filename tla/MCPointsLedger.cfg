\* Four requests by key over two concurrent database transactions.
CONSTANTS
  Members = {m1}
  Keys = {k1, k2, k3, k4}
  Sessions = {s1, s2}
  MaxPoints = 2
  Requests <- MCRequests
  None = None
SPECIFICATION Spec
SYMMETRY Symmetry
INVARIANTS
  TypeOK
  NeverOverdrawn
  BalancesMatchEntries
  AtMostOncePerKey
  AnswersAreTrue
PROPERTIES
  AppendOnly
  ImplementsAccount
