\* The alert relay and the webhook relay read the same rows.
CONSTANTS
  sold = sold
  approved = approved
  Events = {sold, approved}
  PointsEvents = {sold}
  Endpoints = {p1}
  Instances = {i1}
  Steady = {i1}
  MaxAttempts = 2
  MaxEvents = 2
  NoDelivery = NoDelivery
SPECIFICATION RelaySpec
INVARIANTS
  PublishedReachesEndpoints
