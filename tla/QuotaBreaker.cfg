SPECIFICATION QuotaSpec
CONSTANTS
  r1 = r1
  r2 = r2
  m1 = m1
  Model = {m1}
  Request = {r1, r2}
  MinInterval = 2
  StrikeWindow = 3
  StrikeThreshold = 3
  StrikeBlock = 4
  ResetIn = {1, 6}
  MaxTime = 9
SYMMETRY RequestSymmetry
INVARIANT SkippedForAReason
PROPERTY BlockSurvivesRefresh
PROPERTY BlockIsEarned
