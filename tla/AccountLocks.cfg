SPECIFICATION Spec
CONSTANTS
  m1 = m1
  r1 = r1
  r2 = r2
  NumConns = 1
  Model = {m1}
  ALL = ALL
  Request = {r1, r2}
  Strategy = "fill-first"
  StickyLimit = 2
  Pinned = {}
  Failure = {"backoff", "precise", "monthly"}
  BackoffBase = 1
  BackoffMax = 1
  MaxLevel = 2
  FixedCooldown = 2
  RateLimitCap = 1
  Antigravity = FALSE
  MonthLength = 2
  OperatorActs = TRUE
  MaxTime = 2
SYMMETRY RequestSymmetry
INVARIANT TypeOK
INVARIANT HealthConsistent
INVARIANT LocksBounded
PROPERTY GiveUpJustified
PROPERTY RetryAfterAhead
