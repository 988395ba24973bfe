SPECIFICATION Spec
CONSTANTS
  NumStates = 3
  Weights = {0, 2}
  IArcs <- Reading
  OArcs <- Writing
  EmpiricalLength = 1
INVARIANT MatrixSumsExact
CHECK_DEADLOCK FALSE
