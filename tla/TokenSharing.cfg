SPECIFICATION FairSpec
CONSTANTS
  r1 = r1
  r2 = r2
  Request = {r1, r2}
  Background = bg
  Nobody = nobody
  TTL = 4
  Lifetime = 7
  Lead = 2
  BgLead = 2
  RetryUnit = 1
  MaxRetries = 3
  Rejects = "stale"
  MaxToken = 3
  MaxTime = 12
INVARIANT AtMostOneExchange
INVARIANT ExpiryHonest
PROPERTY StoredNeverGoesBack
PROPERTY RefreshEnds
