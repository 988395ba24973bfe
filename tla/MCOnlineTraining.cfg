SPECIFICATION OnlineSpec
CONSTANTS
  Features = {1, 2, 3}
  Gradients <- MCGradients
  Rates = {1, 2}
  Strength = 1
  NumPasses = 2
  NumBatches = 2
  Pairs <- MCPairs
  Unit = 3
INVARIANTS TypeOK PenaltyBounded WeightAccounted CaughtUp FavoursTheTruth
PROPERTY PenaltyShrinks
CHECK_DEADLOCK FALSE
