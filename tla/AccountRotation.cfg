SPECIFICATION FairSpec
CONSTANTS
  m1 = m1
  r1 = r1
  r2 = r2
  NumConns = 2
  Model = {m1}
  ALL = ALL
  Request = {r1, r2}
  Strategy = "round-robin"
  StickyLimit = 2
  Pinned = {1}
  Failure = {"client", "fixed"}
  BackoffBase = 1
  BackoffMax = 3
  MaxLevel = 3
  FixedCooldown = 1
  RateLimitCap = 3
  Antigravity = FALSE
  MonthLength = 5
  OperatorActs = FALSE
  MaxTime = 2
INVARIANT RotationFresh
INVARIANT NeverRetriesFailedAccount
PROPERTY SelectionEnds
