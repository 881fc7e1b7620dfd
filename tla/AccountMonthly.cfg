SPECIFICATION Spec
CONSTANTS
  m1 = m1
  m2 = m2
  r1 = r1
  r2 = r2
  NumConns = 1
  Model = {m1, m2}
  ALL = ALL
  Request = {r1, r2}
  Strategy = "fill-first"
  StickyLimit = 2
  Pinned = {}
  Failure = {"fixed", "monthly"}
  BackoffBase = 1
  BackoffMax = 3
  MaxLevel = 3
  FixedCooldown = 1
  RateLimitCap = 3
  Antigravity = FALSE
  MonthLength = 5
  OperatorActs = FALSE
  MaxTime = 3
SYMMETRY RequestSymmetry
PROPERTY WholeAccountLocked
