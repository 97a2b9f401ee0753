SPECIFICATION Spec
CONSTANTS
  r1 = r1
  r2 = r2
  a = a
  b = b
  Requests = {r1, r2}
  Entities = {"e1", "e2"}
  Existing = {"e1"}
  Changes <- MCChanges
  Makers = {"m"}
  Reviews = {a, b}
  MaxDeaths = 1
SYMMETRY Symmetry
INVARIANT ApprovedWasApplied
INVARIANT DecidedOnce
CHECK_DEADLOCK FALSE
