SPECIFICATION Spec
CONSTANTS
  MaxGiven = 1
  MaxTracked = 1
  MaxFile = 1
  MaxForce = 1
  MaxIter = 2
  MaxEvals = 2
  UpdateMax = 3
INVARIANTS SavedFilesAgree
CHECK_DEADLOCK FALSE
