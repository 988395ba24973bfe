SPECIFICATION LimitSpec
CONSTANTS
  w1 = w1
  w2 = w2
  Workers = {w1, w2}
  MinLimit = 2
  InitLimits <- MCInitLimits
  MaxTime = 5
PROPERTY LimitNeverShrinks
CHECK_DEADLOCK FALSE
