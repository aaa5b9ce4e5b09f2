SPECIFICATION MCSpec
CONSTANTS
  u1 = u1 u2 = u2 a1 = a1 t1 = t1 t2 = t2 c1 = c1 c2 = c2 r1 = r1 r2 = r2 None = None
  Users = {u1, u2, a1}
  Topics = {t1, t2}
  Calls = {r1, r2}
  RootOf <- MCRootOf
  KindOf <- MCKindOf
  CollectionLimit = 1
  MaxVersions = 2
  MaxFaults = 1
  MaxNum = 1
  MaxSlips = 2
  MaxLikes = 1
  Comments = {c1, c2}
SYMMETRY Symmetry
CONSTRAINT Bounded
CHECK_DEADLOCK FALSE
INVARIANTS MarksAgree TextsAgree CommentsAgree DeletionHolds
