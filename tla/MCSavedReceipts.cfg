SPECIFICATION Spec
CONSTANTS
  t1 = t1
  t2 = t2
  u1 = u1
  u2 = u2
  a = a
  b = b
  legacy = legacy
  verified = verified
  rejected = rejected
  All = All
  None = None
  Kinds = {verified, rejected}
  Showable = {a, b}
  Tabs = {t1, t2}
  Users = {u1}
  Ids = {a, b}
  Kind <- MCTabKind
  Rank <- MCTabRank
  PageSize = 1
  MaxPage = 2
  MaxTime = 1
INVARIANTS ShownPageFits SavedClaimsHold
PROPERTIES RowsStayUntilRemoved DashboardLoads
CHECK_DEADLOCK FALSE
