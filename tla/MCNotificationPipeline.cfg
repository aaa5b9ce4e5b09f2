SPECIFICATION MCSpec
CONSTANTS
  n1 = n1  p1 = p1  p2 = p2  u = u  a = a  v = v  w1 = w1  w2 = w2
  None = None
  Nobody = Nobody
  Messages = {n1}
  Processes = {p1, p2}
  Users = {u, a, v}
  Categories = {"social", "market"}
  Servers = {"s"}
  Sessions = {w1, w2}
  Types = {"like"}
  Times = {1}
  MaxDocs = 3
  MaxTries = 3
  Readers = {u, v}
  Notified = {u, v}
  QueueOf <- MCQueueOf
  Serves <- MCServes
  TargetOf <- MCTargetOf
  TypeOf <- MCTypeOf
  SentAt <- MCSentAt
  RootOf <- MCRootOf
  OwnerOf <- MCOwnerOf
  ServerOf <- MCServerOf
  LegacyDocs <- MCLegacyDocs
INVARIANTS PushedOnce TwiceOnlyIfExposed NoSilentLoss
PROPERTIES QueuesDrain
