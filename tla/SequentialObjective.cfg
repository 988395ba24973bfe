SPECIFICATION FairSpec
CONSTANTS
  N = 3
  MaxCalls = 3
INVARIANTS CompleteOrInfinite
PROPERTY LimitedEvaluationReturns
CHECK_DEADLOCK FALSE
