SPECIFICATION FairSpec
CONSTANTS
  NumStates = 4
  Weights = {0, 2}
  IArcs <- Reading
  OArcs <- Writing
  EmpiricalLength = 1
INVARIANTS TypeOK SumsExact CountsExact ExpectationsExact
PROPERTY SumsEnd
CHECK_DEADLOCK FALSE
