SPECIFICATION FairSpec
CONSTANTS
  N = 3
  ThreadCounts = {2}
  MaxCalls = 2
INVARIANTS TypeOK NoLostUpdate InterruptedOnlyOnDivergence
PROPERTIES ImplementsObjective EvaluationReturns
CHECK_DEADLOCK FALSE
