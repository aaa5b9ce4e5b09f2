SPECIFICATION MCSpec
CONSTANTS
  u1 = u1 c1 = c1 s1 = s1 t1 = t1 t2 = t2 e1 = e1 e2 = e2 h1 = h1 k1 = k1 k2 = k2 k3 = k3
  w1 = w1 w2 = w2 a = a b = b f1 = f1 f2 = f2 m1 = m1 m2 = m2 p1 = p1 p2 = p2 q1 = q1 q2 = q2
  None = None Nobody = Nobody Nothing = Nothing
  Turns = {t1, t2}
  Users = {u1}
  Conversations = {c1}
  Sessions = {s1}
  OwnerOf <- MCOwnerOf
  SessionOwner <- MCSessionOwner
  Timeout = 1 GuardTTL = 2 MaxPerUser = 2 MaxPerConversation = 1 RatePerMinute = 2
  MaxFaults = 1
  Peers = {e1, e2}
  Chats = {h1}
  Conns = {k1, k2, k3}
  PeerOf <- MCPeerOf
  MaxMessages = 3 MaxChatFaults = 2
  Students = {w1, w2}
  MD5s = {x1}
  Calls = {f1, f2}
  Docs = {1, 2}
  MaxRefs = 2 MaxFileFaults = 1
  Courses = {a, b}
  Rows = {1, 2, 3}
  Materials = {m1, m2}
  Reviewers = {q1, q2}
  Mergers = {p1, p2}
  MaxClock = 4
CHECK_DEADLOCK FALSE
INVARIANTS ConversationLock DriftNeedsALostRelease DeletedStaysDeleted LatestConnectionIsRegistered MessagesAreReachable LeftoversNeedARace FilesAgree MergesAgree MaterialsAgree
