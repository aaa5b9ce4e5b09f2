SPECIFICATION Spec
CONSTANTS
  r1 = r1
  r2 = r2
  Venues = {v1}
  Resources = {r1, r2}
  Users = {u1}
  Bookings = {b1, b2, b3}
  Workers = {w1, w2}
  VenueReqs <- MCVenueReqs
  Capacities = {1}
  RuleReqs <- MCTwoCourts
  ClosureReqs = {}
  Dates = {0}
  Times = {0, 600}
  None = None
INVARIANTS
  PersonalLimits
