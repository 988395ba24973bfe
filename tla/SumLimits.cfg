SPECIFICATION MCSpec
CONSTANTS
  w1 = w1
  w2 = w2
  Workers = {w1, w2}
  MinLimit = 2
  InitLimits <- MCInitLimits
  MaxTime = 4
  Estimates <- MCEstimates
  Zero <- MCZero
  NaN <- MCNaN
  Tol = 2
  MinIter = 3
  MaxIter = 6
  Successive = 2
  SuccessiveBad = 3
INVARIANTS LimitTypeOK EffectiveLimit ConvergentIsEarned
PROPERTY PairEnds
CHECK_DEADLOCK FALSE
