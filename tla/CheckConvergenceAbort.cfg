SPECIFICATION CheckSpec
CONSTANTS
  Estimates <- MCEstimates
  Zero <- MCZero
  NaN <- MCNaN
  Tol = 2
  MinIter = 3
  MaxIter = 6
  Successive = 2
  SuccessiveBad = 3
INVARIANT AbortedMeansDivergent
CHECK_DEADLOCK FALSE
