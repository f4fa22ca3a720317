SPECIFICATION Spec
CONSTANTS
  t1 = t1
  t2 = t2
  u1 = u1
  u2 = u2
  a = a
  b = b
  legacy = legacy
  verified = verified
  rejected = rejected
  All = All
  None = None
  Kinds = {verified, rejected}
  Showable = {a, b}
  Tabs = {t1}
  Users = {u1, u2}
  Ids = {a, b, legacy}
  Kind <- MCKind
  Rank <- MCRank
  PageSize = 2
  MaxPage = 2
  MaxTime = 1
INVARIANT PagesPartition
PROPERTY OnlyOwnRows
SYMMETRY MCSymmetry
CHECK_DEADLOCK FALSE
