SPECIFICATION ModerationSpec
CONSTANTS
  t1 = t1
  u1 = u1
  Reports = {r1}
  Targets = {t1}
  Members = {u1}
  Admins = {a1}
  Punishments = {p1}
  Handlers = {h1, h2}
  TargetOf <- MCTargetOf
  OwnerOf <- MCOwnerOf
  Hideable = {t1}
  Capabilities = {"content"}
  Durations = {0, 1, Nil}
  CacheTTL = 1
  Nil = Nil
INVARIANT RejectedAppealStands
