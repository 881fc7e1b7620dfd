SPECIFICATION FairSpec
CONSTANTS
  r1 = r1
  NumModels = 3
  Pool <- OneAdapterModel
  Capable = {4}
  Request = {r1}
  StickyLimit = 2
  MinPanel = 2
  Grace = 1
  HardTimeout = 3
  TransientWait = 1
  Hint = {1, 2}
  MaxTime = 4
INVARIANT TurnsAreFair
INVARIANT ExhaustionIsHonest
INVARIANT AnswersReachJudge
PROPERTY PanelEnds
