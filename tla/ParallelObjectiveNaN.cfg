SPECIFICATION Spec
CONSTANTS
  N = 2
  ThreadCounts = {2}
  MaxCalls = 1
INVARIANT HighestValueIsOne
CHECK_DEADLOCK FALSE
