\* Two API instances, whose passes overlap and may die at any step.
CONSTANTS
  sold = sold
  approved = approved
  Events = {sold, approved}
  PointsEvents = {sold}
  Endpoints = {p1}
  Instances = {i1, i2}
  Steady = {i1}
  MaxAttempts = 2
  MaxEvents = 1
  NoDelivery = NoDelivery
SPECIFICATION RelayFairSpec
INVARIANTS
  AlertedOnce
  OutcomesAreTrue
PROPERTIES
  ClosedStaysClosed
  EveryDeliveryEnds
