SPECIFICATION MCSpec
CONSTANTS
  v1 = v1
  c1 = c1
  c2 = c2
  u1 = u1
  u2 = u2
  w1 = w1
  w2 = w2
  b1 = b1
  b2 = b2
  b3 = b3
  t1 = t1
  m1 = m1
  h1 = h1
  h2 = h2
  a1 = a1
  a2 = a2
  Venues = {v1}
  Resources = {c1, c2}
  Users = {u1, u2}
  Bookings = {b1, b2, b3}
  Workers = {w1, w2}
  VenueReqs <- MCVenueReqs
  Capacities = {1}
  RuleReqs <- MCTwoCourts
  ClosureReqs <- MCClosures
  Dates = {0}
  Times = {0, 480, 600, 660}
  None = None
  Reports = {r1}
  Targets = {t1}
  Members = {m1}
  Admins = {a1, a2}
  Punishments = {p1}
  Handlers = {h1, h2}
  TargetOf <- MCTargetOf
  OwnerOf <- MCOwnerOf
  Hideable = {t1}
  Capabilities = {"content"}
  Durations = {2, Nil}
  CacheTTL = 2
  Nil = Nil
INVARIANTS NeverOversold ClosuresHold HiddenUnderReview
PROPERTIES NoShowsAreMarked EventuallyEnforced
